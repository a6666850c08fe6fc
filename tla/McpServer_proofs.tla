------------------------- MODULE McpServer_proofs -------------------------
(***************************************************************************)
(* Proofs about the processes a host's requests pass in codegraph: the     *)
(* daemon (McpDaemon), for any launchers, daemons, retry limits, kills and *)
(* lossy connections, the engine (McpEngine), for any sessions, calls and  *)
(* failures, and the proxy (McpProxy), for any requests and notifications  *)
(* of the host.  A request the proxy does not answer on the spot is owed   *)
(* one answer; its invariant says where it can be meanwhile, and that it   *)
(* is in one place.                                                        *)
(***************************************************************************)
EXTENDS McpDaemon, McpEngine, McpProxy, FiniteSetTheorems, TLAPS

(* A process that took the lock never arbitrates again.                    *)
HolderHasStarted ==
    lock \in Daemons => dpc[lock] \notin {"unborn", "acquire", "taken", "reread", "clear"}

(* The pid a process is about to clear is dead, and stays dead.            *)
JudgedAreGone ==
    \A d \in Daemons : dpc[d] = "clear" /\ saw[d] \in Daemons => dpc[saw[d]] = "gone"

(* Who has passed the lock holds it, until a late unlink.                  *)
LockIsHeld == raced \/ \A d \in Owners : lock = d

ArbitrationInv == TypeOK /\ HolderHasStarted /\ JudgedAreGone /\ LockIsHeld

(* A launcher that is served through a daemon keeps its end of the         *)
(* connection open, and the other end is among the daemon's own.           *)
ServedAreCounted ==
    \A l \in Launchers : lpc[l] = "daemon" =>
        /\ peer[l] \in Daemons /\ open[l] /\ dpc[peer[l]] \in {"serving", "stopping"}
        /\ l \in awaiting[peer[l]] \cup clients[peer[l]]

-----------------------------------------------------------------------------
(* Every action keeps the types.                                           *)
LEMMA TypeIsKept == ASSUME TypeOK, [Next]_vars PROVE TypeOK'
<1> USE DaemonAssumption DEF DaemonAssumption, files, daemonVars, sessions, launcherVars
<1>1. ASSUME NEW l \in Launchers, Start(l) PROVE TypeOK'
  BY <1>1 DEF Start, TypeOK, DaemonPc, LauncherPc, Listening, Alive
<1>2. ASSUME NEW l \in Launchers, Connect(l) PROVE TypeOK'
  BY <1>2 DEF Connect, TypeOK, DaemonPc, LauncherPc, Listening, Alive
<1>3. ASSUME NEW l \in Launchers, Spawn(l) PROVE TypeOK'
  BY <1>3 DEF Spawn, TypeOK, DaemonPc, LauncherPc, Listening, Alive
<1>4. ASSUME NEW l \in Launchers, PollFails(l) PROVE TypeOK'
  BY <1>4 DEF PollFails, TypeOK, DaemonPc, LauncherPc, Listening, Alive
<1>5. ASSUME NEW l \in Launchers, HostExits(l) PROVE TypeOK'
  BY <1>5 DEF HostExits, TypeOK, DaemonPc, LauncherPc, Listening, Alive
<1>6. ASSUME NEW d \in Daemons, Acquire(d) PROVE TypeOK'
  BY <1>6 DEF Acquire, TypeOK, DaemonPc, LauncherPc, Listening, Alive
<1>7. ASSUME NEW d \in Daemons, Judge(d) PROVE TypeOK'
  BY <1>7 DEF Judge, TypeOK, DaemonPc, LauncherPc, Listening, Alive
<1>8. ASSUME NEW d \in Daemons, Reread(d) PROVE TypeOK'
  BY <1>8 DEF Reread, Refuses, Retry, TypeOK, DaemonPc, LauncherPc, Listening, Alive
<1>9. ASSUME NEW d \in Daemons, Clear(d) PROVE TypeOK'
  BY <1>9 DEF Clear, Retry, TypeOK, DaemonPc, LauncherPc, Listening, Alive
<1>10. ASSUME NEW d \in Daemons, Boot(d) PROVE TypeOK'
  BY <1>10 DEF Boot, TypeOK, DaemonPc, LauncherPc, Listening, Alive
<1>11. ASSUME NEW d \in Daemons, Listen(d) PROVE TypeOK'
  BY <1>11 DEF Listen, TypeOK, DaemonPc, LauncherPc, Listening, Alive
<1>12. ASSUME NEW d \in Daemons, Sweep(d) PROVE TypeOK'
  BY <1>12 DEF Sweep, Drop, TypeOK, DaemonPc, LauncherPc, Listening, Alive
<1>13. ASSUME NEW d \in Daemons, IdleTimeout(d) PROVE TypeOK'
  BY <1>13 DEF IdleTimeout, Stop, TypeOK, DaemonPc, LauncherPc, Listening, Alive
<1>14. ASSUME NEW d \in Daemons, Backstop(d) PROVE TypeOK'
  BY <1>14 DEF Backstop, Stop, TypeOK, DaemonPc, LauncherPc, Listening, Alive
<1>15. ASSUME NEW d \in Daemons, Signal(d) PROVE TypeOK'
  BY <1>15 DEF Signal, Stop, TypeOK, DaemonPc, LauncherPc, Listening, Alive
<1>16. ASSUME NEW d \in Daemons, ReleaseLock(d) PROVE TypeOK'
  BY <1>16 DEF ReleaseLock, Ended, Connected, TypeOK, DaemonPc, LauncherPc, Listening, Alive
<1>17. ASSUME NEW d \in Daemons, Exit(d) PROVE TypeOK'
  BY <1>17 DEF Exit, TypeOK, DaemonPc, LauncherPc, Listening, Alive
<1>18. ASSUME NEW d \in Daemons, Kill(d) PROVE TypeOK'
  BY <1>18 DEF Kill, TypeOK, DaemonPc, LauncherPc, Listening, Alive
<1>19. ASSUME NEW d \in Daemons, NEW l \in Launchers, HelloRead(d, l) PROVE TypeOK'
  BY <1>19 DEF HelloRead, AddSession, TypeOK, DaemonPc, LauncherPc, Listening, Alive
<1>20. ASSUME NEW d \in Daemons, NEW l \in Launchers, HelloMissing(d, l) PROVE TypeOK'
  BY <1>20 DEF HelloMissing, AddSession, TypeOK, DaemonPc, LauncherPc, Listening, Alive
<1>21. ASSUME NEW d \in Daemons, NEW l \in Launchers, SocketCloses(d, l) PROVE TypeOK'
  BY <1>21 DEF SocketCloses, Drop, TypeOK, DaemonPc, LauncherPc, Listening, Alive
<1>22. ASSUME NEW l \in Launchers, Launch(l) PROVE TypeOK'
  BY <1>22, <1>1, <1>2, <1>3, <1>4, <1>5 DEF Launch
<1>23. ASSUME NEW d \in Daemons, Arbitrate(d) PROVE TypeOK'
  BY <1>23, <1>6, <1>7, <1>8, <1>9, <1>10, <1>11 DEF Arbitrate
<1>24. ASSUME NEW d \in Daemons, Reap(d) PROVE TypeOK'
  BY <1>24, <1>12, <1>13, <1>14, <1>15 DEF Reap
<1>25. ASSUME NEW d \in Daemons, End(d) PROVE TypeOK'
  BY <1>25, <1>16, <1>17, <1>18 DEF End
<1>26. ASSUME NEW d \in Daemons, Serve(d) PROVE TypeOK'
  BY <1>26, <1>19, <1>20, <1>21 DEF Serve
<1>27. CASE UNCHANGED vars
  BY <1>27 DEF vars, TypeOK, DaemonPc, LauncherPc, Listening, Alive
<1> QED
  BY <1>22, <1>23, <1>24, <1>25, <1>26, <1>27 DEF Next

LEMMA TypeStarts == Init => TypeOK
<1> SUFFICES ASSUME Init PROVE TypeOK
  OBVIOUS
<1> USE DaemonAssumption DEF DaemonAssumption, Init
<1>1. lock \in Daemons \cup {NoOne, Junk} /\ sock \in Daemons \cup {NoOne} /\ raced \in BOOLEAN
  OBVIOUS
<1>2. dpc \in [Daemons -> DaemonPc] /\ saw \in [Daemons -> Daemons \cup {NoOne, Junk}]
  BY DEF DaemonPc
<1>3. tries \in [Daemons -> 0 .. MaxTries] /\ idle \in [Daemons -> BOOLEAN] /\ kills \in 0 .. MaxKills
  OBVIOUS
<1>4. awaiting \in [Daemons -> SUBSET Launchers] /\ clients \in [Daemons -> SUBSET Launchers]
  OBVIOUS
<1>5. told \subseteq Launchers /\ deaf \subseteq Launchers
  OBVIOUS
<1>6. lpc \in [Launchers -> LauncherPc] /\ polls \in [Launchers -> 0 .. MaxPolls]
  BY DEF LauncherPc
<1>7. peer \in [Launchers -> Daemons \cup {NoOne}] /\ open \in [Launchers -> BOOLEAN]
  OBVIOUS
<1> QED
  BY <1>1, <1>2, <1>3, <1>4, <1>5, <1>6, <1>7 DEF TypeOK

(* Only Acquire, Reread, Clear and the ends of processes touch what the    *)
(* arbitration rests on.                                                   *)
LEMMA ArbitrationIsKept == ASSUME ArbitrationInv, [Next]_vars PROVE HolderHasStarted' /\ JudgedAreGone' /\ LockIsHeld'
<1> DEFINE Arb == HolderHasStarted /\ JudgedAreGone /\ LockIsHeld
<1> SUFFICES Arb'
  OBVIOUS
<1> USE DEF Arb
<1> USE DaemonAssumption DEF DaemonAssumption, files, daemonVars, sessions, launcherVars
<1>1. ASSUME NEW l \in Launchers, Start(l) PROVE Arb'
  BY <1>1 DEF Start, ArbitrationInv, HolderHasStarted, JudgedAreGone, LockIsHeld, Owners, TypeOK, Alive, Listening
<1>2. ASSUME NEW l \in Launchers, Connect(l) PROVE Arb'
  BY <1>2 DEF Connect, ArbitrationInv, HolderHasStarted, JudgedAreGone, LockIsHeld, Owners, TypeOK, Alive, Listening
<1>3. ASSUME NEW l \in Launchers, Spawn(l) PROVE Arb'
  BY <1>3 DEF Spawn, ArbitrationInv, HolderHasStarted, JudgedAreGone, LockIsHeld, Owners, TypeOK, Alive, Listening
<1>4. ASSUME NEW l \in Launchers, PollFails(l) PROVE Arb'
  BY <1>4 DEF PollFails, ArbitrationInv, HolderHasStarted, JudgedAreGone, LockIsHeld, Owners, TypeOK, Alive, Listening
<1>5. ASSUME NEW l \in Launchers, HostExits(l) PROVE Arb'
  BY <1>5 DEF HostExits, ArbitrationInv, HolderHasStarted, JudgedAreGone, LockIsHeld, Owners, TypeOK, Alive, Listening
<1>6. ASSUME NEW d \in Daemons, Acquire(d) PROVE Arb'
  BY <1>6 DEF Acquire, ArbitrationInv, HolderHasStarted, JudgedAreGone, LockIsHeld, Owners, TypeOK, Alive, Listening
<1>7. ASSUME NEW d \in Daemons, Judge(d) PROVE Arb'
  BY <1>7 DEF Judge, ArbitrationInv, HolderHasStarted, JudgedAreGone, LockIsHeld, Owners, TypeOK, Alive, Listening
<1>8. ASSUME NEW d \in Daemons, Reread(d) PROVE Arb'
  BY <1>8 DEF Reread, Refuses, Retry, ArbitrationInv, HolderHasStarted, JudgedAreGone, LockIsHeld, Owners, TypeOK, Alive, Listening
<1>9. ASSUME NEW d \in Daemons, Clear(d) PROVE Arb'
  BY <1>9 DEF Clear, Retry, ArbitrationInv, HolderHasStarted, JudgedAreGone, LockIsHeld, Owners, TypeOK, Alive, Listening
<1>10. ASSUME NEW d \in Daemons, Boot(d) PROVE Arb'
  BY <1>10 DEF Boot, ArbitrationInv, HolderHasStarted, JudgedAreGone, LockIsHeld, Owners, TypeOK, Alive, Listening
<1>11. ASSUME NEW d \in Daemons, Listen(d) PROVE Arb'
  BY <1>11 DEF Listen, ArbitrationInv, HolderHasStarted, JudgedAreGone, LockIsHeld, Owners, TypeOK, Alive, Listening
<1>12. ASSUME NEW d \in Daemons, Sweep(d) PROVE Arb'
  BY <1>12 DEF Sweep, Drop, ArbitrationInv, HolderHasStarted, JudgedAreGone, LockIsHeld, Owners, TypeOK, Alive, Listening
<1>13. ASSUME NEW d \in Daemons, IdleTimeout(d) PROVE Arb'
  BY <1>13 DEF IdleTimeout, Stop, ArbitrationInv, HolderHasStarted, JudgedAreGone, LockIsHeld, Owners, TypeOK, Alive, Listening
<1>14. ASSUME NEW d \in Daemons, Backstop(d) PROVE Arb'
  BY <1>14 DEF Backstop, Stop, ArbitrationInv, HolderHasStarted, JudgedAreGone, LockIsHeld, Owners, TypeOK, Alive, Listening
<1>15. ASSUME NEW d \in Daemons, Signal(d) PROVE Arb'
  BY <1>15 DEF Signal, Stop, ArbitrationInv, HolderHasStarted, JudgedAreGone, LockIsHeld, Owners, TypeOK, Alive, Listening
<1>16. ASSUME NEW d \in Daemons, ReleaseLock(d) PROVE Arb'
  BY <1>16 DEF ReleaseLock, Ended, Connected, ArbitrationInv, HolderHasStarted, JudgedAreGone, LockIsHeld, Owners, TypeOK, Alive, Listening
<1>17. ASSUME NEW d \in Daemons, Exit(d) PROVE Arb'
  BY <1>17 DEF Exit, ArbitrationInv, HolderHasStarted, JudgedAreGone, LockIsHeld, Owners, TypeOK, Alive, Listening
<1>18. ASSUME NEW d \in Daemons, Kill(d) PROVE Arb'
  BY <1>18 DEF Kill, ArbitrationInv, HolderHasStarted, JudgedAreGone, LockIsHeld, Owners, TypeOK, Alive, Listening
<1>19. ASSUME NEW d \in Daemons, NEW l \in Launchers, HelloRead(d, l) PROVE Arb'
  BY <1>19 DEF HelloRead, AddSession, ArbitrationInv, HolderHasStarted, JudgedAreGone, LockIsHeld, Owners, TypeOK, Alive, Listening
<1>20. ASSUME NEW d \in Daemons, NEW l \in Launchers, HelloMissing(d, l) PROVE Arb'
  BY <1>20 DEF HelloMissing, AddSession, ArbitrationInv, HolderHasStarted, JudgedAreGone, LockIsHeld, Owners, TypeOK, Alive, Listening
<1>21. ASSUME NEW d \in Daemons, NEW l \in Launchers, SocketCloses(d, l) PROVE Arb'
  BY <1>21 DEF SocketCloses, Drop, ArbitrationInv, HolderHasStarted, JudgedAreGone, LockIsHeld, Owners, TypeOK, Alive, Listening
<1>22. ASSUME NEW l \in Launchers, Launch(l) PROVE Arb'
  BY <1>22, <1>1, <1>2, <1>3, <1>4, <1>5 DEF Launch
<1>23. ASSUME NEW d \in Daemons, Arbitrate(d) PROVE Arb'
  BY <1>23, <1>6, <1>7, <1>8, <1>9, <1>10, <1>11 DEF Arbitrate
<1>24. ASSUME NEW d \in Daemons, Reap(d) PROVE Arb'
  BY <1>24, <1>12, <1>13, <1>14, <1>15 DEF Reap
<1>25. ASSUME NEW d \in Daemons, End(d) PROVE Arb'
  BY <1>25, <1>16, <1>17, <1>18 DEF End
<1>26. ASSUME NEW d \in Daemons, Serve(d) PROVE Arb'
  BY <1>26, <1>19, <1>20, <1>21 DEF Serve
<1>27. CASE UNCHANGED vars
  BY <1>27 DEF vars, ArbitrationInv, HolderHasStarted, JudgedAreGone, LockIsHeld, Owners, TypeOK, Alive, Listening
<1> QED
  BY <1>22, <1>23, <1>24, <1>25, <1>26, <1>27 DEF Next

LEMMA ArbitrationInvHolds == Spec => []ArbitrationInv
<1>1. Init => ArbitrationInv
  BY TypeStarts, DaemonAssumption DEF DaemonAssumption, Init, ArbitrationInv, HolderHasStarted, JudgedAreGone, LockIsHeld, Owners
<1>2. ArbitrationInv /\ [Next]_vars => ArbitrationInv'
  BY TypeIsKept, ArbitrationIsKept DEF ArbitrationInv
<1> QED
  BY <1>1, <1>2, PTL DEF Spec

LEMMA CountIsKept == ASSUME TypeOK, ServedAreCounted, [Next]_vars PROVE ServedAreCounted'
<1> USE DaemonAssumption DEF DaemonAssumption, files, daemonVars, sessions, launcherVars
<1>1. ASSUME NEW l \in Launchers, Start(l) PROVE ServedAreCounted'
  BY <1>1 DEF Start, ServedAreCounted, TypeOK, Listening, Alive, PeerIsDead
<1>2. ASSUME NEW l \in Launchers, Connect(l) PROVE ServedAreCounted'
  BY <1>2 DEF Connect, ServedAreCounted, TypeOK, Listening, Alive, PeerIsDead
<1>3. ASSUME NEW l \in Launchers, Spawn(l) PROVE ServedAreCounted'
  BY <1>3 DEF Spawn, ServedAreCounted, TypeOK, Listening, Alive, PeerIsDead
<1>4. ASSUME NEW l \in Launchers, PollFails(l) PROVE ServedAreCounted'
  BY <1>4 DEF PollFails, ServedAreCounted, TypeOK, Listening, Alive, PeerIsDead
<1>5. ASSUME NEW l \in Launchers, HostExits(l) PROVE ServedAreCounted'
  BY <1>5 DEF HostExits, ServedAreCounted, TypeOK, Listening, Alive, PeerIsDead
<1>6. ASSUME NEW d \in Daemons, Acquire(d) PROVE ServedAreCounted'
  BY <1>6 DEF Acquire, ServedAreCounted, TypeOK, Listening, Alive, PeerIsDead
<1>7. ASSUME NEW d \in Daemons, Judge(d) PROVE ServedAreCounted'
  BY <1>7 DEF Judge, ServedAreCounted, TypeOK, Listening, Alive, PeerIsDead
<1>8. ASSUME NEW d \in Daemons, Reread(d) PROVE ServedAreCounted'
  BY <1>8 DEF Reread, Refuses, Retry, ServedAreCounted, TypeOK, Listening, Alive, PeerIsDead
<1>9. ASSUME NEW d \in Daemons, Clear(d) PROVE ServedAreCounted'
  BY <1>9 DEF Clear, Retry, ServedAreCounted, TypeOK, Listening, Alive, PeerIsDead
<1>10. ASSUME NEW d \in Daemons, Boot(d) PROVE ServedAreCounted'
  BY <1>10 DEF Boot, ServedAreCounted, TypeOK, Listening, Alive, PeerIsDead
<1>11. ASSUME NEW d \in Daemons, Listen(d) PROVE ServedAreCounted'
  BY <1>11 DEF Listen, ServedAreCounted, TypeOK, Listening, Alive, PeerIsDead
<1>12. ASSUME NEW d \in Daemons, Sweep(d) PROVE ServedAreCounted'
  BY <1>12 DEF Sweep, Drop, ServedAreCounted, TypeOK, Listening, Alive, PeerIsDead
<1>13. ASSUME NEW d \in Daemons, IdleTimeout(d) PROVE ServedAreCounted'
  BY <1>13 DEF IdleTimeout, Stop, ServedAreCounted, TypeOK, Listening, Alive, PeerIsDead
<1>14. ASSUME NEW d \in Daemons, Backstop(d) PROVE ServedAreCounted'
  BY <1>14 DEF Backstop, Stop, ServedAreCounted, TypeOK, Listening, Alive, PeerIsDead
<1>15. ASSUME NEW d \in Daemons, Signal(d) PROVE ServedAreCounted'
  BY <1>15 DEF Signal, Stop, ServedAreCounted, TypeOK, Listening, Alive, PeerIsDead
<1>16. ASSUME NEW d \in Daemons, ReleaseLock(d) PROVE ServedAreCounted'
  BY <1>16 DEF ReleaseLock, Ended, Connected, ServedAreCounted, TypeOK, Listening, Alive, PeerIsDead
<1>17. ASSUME NEW d \in Daemons, Exit(d) PROVE ServedAreCounted'
  BY <1>17 DEF Exit, ServedAreCounted, TypeOK, Listening, Alive, PeerIsDead
<1>18. ASSUME NEW d \in Daemons, Kill(d) PROVE ServedAreCounted'
  BY <1>18 DEF Kill, ServedAreCounted, TypeOK, Listening, Alive, PeerIsDead
<1>19. ASSUME NEW d \in Daemons, NEW l \in Launchers, HelloRead(d, l) PROVE ServedAreCounted'
  BY <1>19 DEF HelloRead, AddSession, ServedAreCounted, TypeOK, Listening, Alive, PeerIsDead
<1>20. ASSUME NEW d \in Daemons, NEW l \in Launchers, HelloMissing(d, l) PROVE ServedAreCounted'
  BY <1>20 DEF HelloMissing, AddSession, ServedAreCounted, TypeOK, Listening, Alive, PeerIsDead
<1>21. ASSUME NEW d \in Daemons, NEW l \in Launchers, SocketCloses(d, l) PROVE ServedAreCounted'
  BY <1>21 DEF SocketCloses, Drop, ServedAreCounted, TypeOK, Listening, Alive, PeerIsDead
<1>22. ASSUME NEW l \in Launchers, Launch(l) PROVE ServedAreCounted'
  BY <1>22, <1>1, <1>2, <1>3, <1>4, <1>5 DEF Launch
<1>23. ASSUME NEW d \in Daemons, Arbitrate(d) PROVE ServedAreCounted'
  BY <1>23, <1>6, <1>7, <1>8, <1>9, <1>10, <1>11 DEF Arbitrate
<1>24. ASSUME NEW d \in Daemons, Reap(d) PROVE ServedAreCounted'
  BY <1>24, <1>12, <1>13, <1>14, <1>15 DEF Reap
<1>25. ASSUME NEW d \in Daemons, End(d) PROVE ServedAreCounted'
  BY <1>25, <1>16, <1>17, <1>18 DEF End
<1>26. ASSUME NEW d \in Daemons, Serve(d) PROVE ServedAreCounted'
  BY <1>26, <1>19, <1>20, <1>21 DEF Serve
<1>27. CASE UNCHANGED vars
  BY <1>27 DEF vars, ServedAreCounted, TypeOK, Listening, Alive, PeerIsDead
<1> QED
  BY <1>22, <1>23, <1>24, <1>25, <1>26, <1>27 DEF Next

-----------------------------------------------------------------------------
(* Every file, process, session and connection holds what the code can put *)
(* there (daemon.ts:126-140, index.ts:350-381).                            *)
THEOREM DaemonTypeCorrect == Spec => []TypeOK
<1>1. ArbitrationInv => TypeOK
  BY DEF ArbitrationInv
<1> QED
  BY <1>1, ArbitrationInvHolds, PTL

(* daemon.ts:403-411: however many launchers spawn daemons and whichever   *)
(* of them are killed, two daemons pass the lock only after an unlink of a *)
(* lock that was not the one the process had judged.                       *)
THEOREM OneDaemonAtATime == Spec => []OneDaemonUnlessRaced
<1>1. ArbitrationInv => OneDaemonUnlessRaced
  BY DEF ArbitrationInv, LockIsHeld, OneDaemonUnlessRaced
<1> QED
  BY <1>1, ArbitrationInvHolds, PTL

(* daemon.ts:285-309: no interleaving of hellos, closes, sweeps and stops  *)
(* makes a daemon forget a launcher it serves.                             *)
THEOREM LiveClientsStayCounted == Spec => []LiveClientsAreCounted
<1>1. Init => ServedAreCounted
  BY DEF Init, ServedAreCounted
<1>2. TypeOK /\ ServedAreCounted /\ [Next]_vars => ServedAreCounted'
  BY CountIsKept
<1>3. ServedAreCounted => LiveClientsAreCounted
  BY DEF ServedAreCounted, LiveClientsAreCounted
<1> QED
  BY <1>1, <1>2, <1>3, DaemonTypeCorrect, PTL DEF Spec

-----------------------------------------------------------------------------
(* The default connection is one of the open ones until the engine stops.  *)
DefaultIsOpen == default /\ ~closed => handles >= 1

(* Before an open fails, there is one handle, and it is the default's.     *)
OneHandle ==
    /\ default => handles <= 1
    /\ ~default => handles = 0

(* An init under way is the only way to open the project: nothing is open  *)
(* yet, and no greeted session can retry without waiting for it.           *)
InitIsAwaited ==
    opening => ~default /\ (closed \/ \A s \in greeted : resolving[s] # "none")

(* A daemon has its init under way from the start, and a direct server has *)
(* one session, so that nobody starts an init behind another's back.       *)
OneStarter ==
    /\ mode = "daemon" => opening \/ default
    /\ mode = "direct" => /\ greeted \subseteq {Direct} /\ (opening => Direct \in greeted)
                          /\ \A s \in Sessions : resolving[s] # "none" => s \in greeted

OpenInv == failures = 0 => OneHandle /\ InitIsAwaited /\ OneStarter

CallersAreGreeted == \A c \in ToolCalls : cpc[c] # "idle" => c[1] \in greeted

EngineInv == EngineTypeOK /\ CallersAreGreeted /\ DefaultIsOpen /\ OpenInv

-----------------------------------------------------------------------------
LEMMA EngineInvStarts == InitEngine => EngineInv
<1> SUFFICES ASSUME InitEngine PROVE EngineInv
  OBVIOUS
<1> USE DEF InitEngine
<1>1. /\ indexed \in BOOLEAN /\ hinted \in BOOLEAN /\ opening \in BOOLEAN /\ default \in BOOLEAN
      /\ closed \in BOOLEAN /\ gate \in BOOLEAN
  BY Zenon
<1>2. handles \in Nat /\ failures \in 0 .. MaxFailures
  BY EngineAssumption DEF EngineAssumption
<1>3. EngineTypeOK
  BY <1>1, <1>2 DEF EngineTypeOK, CallPc
<1>4. CallersAreGreeted /\ DefaultIsOpen /\ OneHandle
  BY DEF CallersAreGreeted, DefaultIsOpen, OneHandle
<1>5. InitIsAwaited
  BY DEF InitIsAwaited
<1>6. OneStarter
  <2>1. mode = "daemon" => opening
    BY Zenon
  <2> QED
    BY <2>1 DEF OneStarter
<1> QED
  BY <1>3, <1>4, <1>5, <1>6 DEF EngineInv, OpenInv

(* What an attempt to open the project leaves behind.                      *)
LEMMA AttemptKeepsTypes ==
    ASSUME EngineTypeOK, (Adopt /\ UNCHANGED failures) \/ OpenThrows \/ UNCHANGED <<default, handles, failures, catchUp, gate>>
    PROVE /\ default' \in BOOLEAN /\ gate' \in BOOLEAN /\ handles' \in Nat /\ failures' \in 0 .. MaxFailures
          /\ catchUp' \in {"none", "running", "done"}
<1> USE EngineAssumption DEF EngineAssumption, EngineTypeOK
<1>1. CASE Adopt /\ UNCHANGED failures
  BY <1>1 DEF Adopt
<1>2. CASE OpenThrows
  BY <1>2 DEF OpenThrows
<1>3. CASE UNCHANGED <<default, handles, failures, catchUp, gate>>
  BY <1>3
<1> QED
  BY <1>1, <1>2, <1>3

(* A retry attempts to open the project or leaves it, and moves one call   *)
(* and its session.                                                        *)
LEMMA RetryIsAnAttempt ==
    ASSUME NEW c \in ToolCalls, RetryInit(c)
    PROVE /\ (Adopt /\ UNCHANGED failures) \/ OpenThrows \/ UNCHANGED <<default, handles, failures, catchUp, gate>>
          /\ resolving' = [resolving EXCEPT ![c[1]] = "none"] \/ resolving' = [resolving EXCEPT ![c[1]] = "roots"]
          /\ rootsAttempted' \in {rootsAttempted, rootsAttempted \cup {c[1]}}
          /\ cpc' = [cpc EXCEPT ![c] = "execute"] \/ cpc' = [cpc EXCEPT ![c] = "asking"]
<1>1. CASE default
  BY <1>1 DEF RetryInit
<1>2. CASE ~default /\ ~hinted /\ c[1] \notin rootsAttempted
  BY <1>2 DEF RetryInit
<1>3. CASE ~default /\ (hinted \/ c[1] \in rootsAttempted)
  <2>1. RetrySync /\ cpc' = [cpc EXCEPT ![c] = "execute"] /\ resolving' = [resolving EXCEPT ![c[1]] = "none"]
        /\ UNCHANGED rootsAttempted
    BY <1>3 DEF RetryInit
  <2> QED
    BY <2>1 DEF RetrySync
<1> QED
  BY <1>1, <1>2, <1>3

LEMMA RetryKeepsTypes ==
    ASSUME EngineTypeOK, NEW c \in ToolCalls, RetryInit(c)
    PROVE /\ default' \in BOOLEAN /\ gate' \in BOOLEAN /\ handles' \in Nat /\ failures' \in 0 .. MaxFailures
          /\ catchUp' \in {"none", "running", "done"}
          /\ rootsAttempted' \subseteq Sessions /\ resolving' \in [Sessions -> {"none", "roots", "init"}]
          /\ cpc' \in [ToolCalls -> CallPc]
<1>1. c[1] \in Sessions
  BY DEF ToolCalls
<1>2. resolving' \in [Sessions -> {"none", "roots", "init"}]
  BY <1>1, RetryIsAnAttempt DEF EngineTypeOK
<1>3. cpc' \in [ToolCalls -> CallPc]
  BY RetryIsAnAttempt DEF EngineTypeOK, CallPc
<1>4. rootsAttempted' \subseteq Sessions
  BY <1>1, RetryIsAnAttempt DEF EngineTypeOK
<1> QED
  BY <1>2, <1>3, <1>4, RetryIsAnAttempt, AttemptKeepsTypes

(* Every step keeps the types; stop closes a handle that is there.         *)
LEMMA EngineTypeIsKept == ASSUME EngineInv, [StepEngine]_engineVars PROVE EngineTypeOK'
<1> USE EngineAssumption DEF EngineAssumption, EngineInv, engine, sessionVars
<1>1. ASSUME ProjectAppears PROVE EngineTypeOK'
  BY <1>1 DEF ProjectAppears, EngineTypeOK, CallPc, ToolCalls, DefaultIsOpen
<1>2. ASSUME Opened PROVE EngineTypeOK'
  BY <1>2, AttemptKeepsTypes DEF Opened, EngineTypeOK
<1>3. ASSUME CaughtUp PROVE EngineTypeOK'
  BY <1>3 DEF CaughtUp, EngineTypeOK, CallPc, ToolCalls, DefaultIsOpen
<1>4. ASSUME StopEngine PROVE EngineTypeOK'
  BY <1>4 DEF StopEngine, EngineTypeOK, CallPc, ToolCalls, DefaultIsOpen
<1>5. ASSUME NEW s \in Sessions, Greet(s) PROVE EngineTypeOK'
  BY <1>5 DEF Greet, Members, EnsureInitialized, EngineTypeOK, CallPc, ToolCalls, DefaultIsOpen
<1>6. ASSUME NEW s \in Sessions, RootsAnswer(s) PROVE EngineTypeOK'
  BY <1>6 DEF RootsAnswer, EnsureInitialized, EngineTypeOK, CallPc, ToolCalls, DefaultIsOpen
<1>7. ASSUME NEW c \in ToolCalls, Call(c) PROVE EngineTypeOK'
  <2>1. CASE resolving[c[1]] # "none"
    BY <1>7, <2>1 DEF Call, EngineTypeOK, CallPc
  <2>2. CASE resolving[c[1]] = "none"
    BY <1>7, <2>2, RetryKeepsTypes DEF Call, EngineTypeOK
  <2> QED
    BY <2>1, <2>2
<1>8. ASSUME NEW c \in ToolCalls, Resolved(c) PROVE EngineTypeOK'
  BY <1>8, RetryKeepsTypes DEF Resolved, EngineTypeOK
<1>9. ASSUME NEW c \in ToolCalls, Execute(c) PROVE EngineTypeOK'
  <2>1. CASE gate
    BY <1>9, <2>1 DEF Execute, TakeGate, EngineTypeOK, CallPc
  <2>2. CASE ~gate
    <3>1. ServeCall(c) /\ UNCHANGED gate
      BY <1>9, <2>2 DEF Execute, TakeGate
    <3> QED
      BY <1>9, <3>1 DEF Execute, ServeCall, EngineTypeOK, CallPc
  <2> QED
    BY <2>1, <2>2
<1>10. ASSUME NEW c \in ToolCalls, PassGate(c) PROVE EngineTypeOK'
  BY <1>10 DEF PassGate, ServeCall, EngineTypeOK, CallPc, ToolCalls, DefaultIsOpen
<1>11. CASE UNCHANGED engineVars
  BY <1>11 DEF engineVars, EngineTypeOK, CallPc, ToolCalls, DefaultIsOpen
<1> QED
  BY <1>1, <1>2, <1>3, <1>4, <1>5, <1>6, <1>7, <1>8, <1>9, <1>10, <1>11 DEF StepEngine

(* Calls are of sessions that have greeted.                                *)
LEMMA CallersStayGreeted == ASSUME EngineInv, [StepEngine]_engineVars PROVE CallersAreGreeted'
<1> USE DEF EngineInv, EngineTypeOK, CallersAreGreeted, engine, sessionVars
<1>1. CASE UNCHANGED <<cpc, greeted>>
  BY <1>1
<1>2. ASSUME NEW s \in Sessions, Greet(s) PROVE CallersAreGreeted'
  BY <1>2 DEF Greet
<1>3. ASSUME NEW c \in ToolCalls, Call(c) PROVE CallersAreGreeted'
  <2>1. UNCHANGED greeted /\ c[1] \in greeted
    BY <1>3 DEF Call
  <2>2. \E at \in CallPc : cpc' = [cpc EXCEPT ![c] = at]
    BY <1>3, RetryIsAnAttempt DEF Call, CallPc
  <2> QED
    BY <2>1, <2>2
<1>4. ASSUME NEW c \in ToolCalls, Resolved(c) PROVE CallersAreGreeted'
  <2>1. UNCHANGED greeted /\ c[1] \in greeted
    BY <1>4 DEF Resolved
  <2>2. \E at \in CallPc : cpc' = [cpc EXCEPT ![c] = at]
    BY <1>4, RetryIsAnAttempt DEF Resolved, CallPc
  <2> QED
    BY <2>1, <2>2
<1>5. ASSUME NEW c \in ToolCalls, Execute(c) \/ PassGate(c) PROVE CallersAreGreeted'
  <2>1. UNCHANGED greeted /\ c[1] \in greeted
    BY <1>5 DEF Execute, PassGate
  <2>2. \E at \in CallPc : cpc' = [cpc EXCEPT ![c] = at]
    BY <1>5 DEF Execute, TakeGate, PassGate, ServeCall, CallPc
  <2> QED
    BY <2>1, <2>2
<1>6. ASSUME ProjectAppears \/ Opened \/ CaughtUp \/ StopEngine \/ \E s \in Sessions : RootsAnswer(s) PROVE CallersAreGreeted'
  BY <1>6 DEF ProjectAppears, Opened, CaughtUp, StopEngine, RootsAnswer
<1> QED
  BY <1>1, <1>2, <1>3, <1>4, <1>5, <1>6 DEF StepEngine, engineVars

(* A retry that does not run while an init is under way opens the project  *)
(* only if nothing is open.                                                *)
LEMMA RetryKeepsOpen ==
    ASSUME EngineInv, NEW c \in ToolCalls, RetryInit(c), c[1] \in greeted,
           UNCHANGED <<mode, opening, closed, greeted>>,
           failures = 0 => closed \/ ~opening
    PROVE (DefaultIsOpen /\ OpenInv)'
<1> USE DEF EngineInv, EngineTypeOK
<1>1. c[1] \in Sessions
  BY DEF ToolCalls
<1>2. DefaultIsOpen'
  <2>1. CASE Adopt
    BY <2>1 DEF Adopt, DefaultIsOpen
  <2>2. CASE OpenThrows \/ UNCHANGED <<default, handles, failures, catchUp, gate>>
    BY <2>2 DEF OpenThrows, DefaultIsOpen
  <2> QED
    BY <2>1, <2>2, RetryIsAnAttempt DEF DefaultIsOpen
<1>3. UNCHANGED <<default, handles, failures>> \/ (~default /\ ~closed /\ Adopt /\ UNCHANGED failures) \/ OpenThrows
  BY DEF RetryInit, RetrySync
<1>4. ASSUME failures' = 0 PROVE OneHandle'
  <2>1. CASE UNCHANGED <<default, handles, failures>>
    BY <1>4, <2>1 DEF OpenInv, OneHandle
  <2>2. CASE ~default /\ Adopt /\ UNCHANGED failures
    BY <1>4, <2>2 DEF OpenInv, OneHandle, Adopt
  <2>3. CASE OpenThrows
    BY <1>4, <2>3 DEF OpenThrows
  <2> QED
    BY <1>3, <2>1, <2>2, <2>3
<1>5. ASSUME failures' = 0 PROVE failures = 0
  BY <1>3, <1>5 DEF OpenThrows
<1>6. ASSUME failures' = 0 PROVE InitIsAwaited'
  BY <1>3, <1>5, <1>6 DEF OpenThrows, OpenInv, InitIsAwaited
<1>7. ASSUME failures' = 0 PROVE OneStarter'
  <2>1. mode = "daemon" => (opening \/ default)'
    BY <1>3, <1>5, <1>7 DEF OpenInv, OneStarter, Adopt, OpenThrows
  <2>2. mode = "direct" => greeted \subseteq {Direct} /\ (opening => Direct \in greeted)
    BY <1>5, <1>7 DEF OpenInv, OneStarter
  <2>3. mode = "direct" => \A s \in Sessions : resolving'[s] # "none" => s \in greeted
    BY <1>1, <1>5, <1>7, <2>2, RetryIsAnAttempt DEF OpenInv, OneStarter
  <2> QED
    BY <2>1, <2>2, <2>3 DEF OneStarter
<1> QED
  BY <1>2, <1>4, <1>6, <1>7 DEF OpenInv

(* No interleaving opens the project behind an init under way.             *)
LEMMA OpenInvIsKept == ASSUME EngineInv, [StepEngine]_engineVars PROVE (DefaultIsOpen /\ OpenInv)'
<1> USE EngineAssumption DEF EngineAssumption, EngineInv, engine, sessionVars
<1>1. ASSUME ProjectAppears PROVE (DefaultIsOpen /\ OpenInv)'
  BY <1>1 DEF ProjectAppears, EngineTypeOK, ToolCalls, DefaultIsOpen, OpenInv, OneHandle, InitIsAwaited, OneStarter
<1>2. ASSUME Opened PROVE (DefaultIsOpen /\ OpenInv)'
  BY <1>2 DEF Opened, Adopt, OpenThrows, EngineTypeOK, ToolCalls, DefaultIsOpen, OpenInv, OneHandle, InitIsAwaited, OneStarter
<1>3. ASSUME CaughtUp PROVE (DefaultIsOpen /\ OpenInv)'
  BY <1>3 DEF CaughtUp, EngineTypeOK, ToolCalls, DefaultIsOpen, OpenInv, OneHandle, InitIsAwaited, OneStarter
<1>4. ASSUME StopEngine PROVE (DefaultIsOpen /\ OpenInv)'
  BY <1>4 DEF StopEngine, EngineTypeOK, ToolCalls, DefaultIsOpen, OpenInv, OneHandle, InitIsAwaited, OneStarter
<1>5. ASSUME NEW s \in Sessions, Greet(s) PROVE (DefaultIsOpen /\ OpenInv)'
  <2> USE DEF EngineTypeOK
  <2>1. (DefaultIsOpen /\ (failures = 0 => OneHandle))'
    BY <1>5 DEF Greet, DefaultIsOpen, OpenInv, OneHandle
  <2>2. CASE EnsureInitialized(indexed) /\ resolving' = [resolving EXCEPT ![s] = "init"]
    <3>1. (failures = 0 => InitIsAwaited)'
      <4>1. CASE closed \/ default \/ opening
        BY <1>5, <2>2, <4>1 DEF Greet, EnsureInitialized, OpenInv, InitIsAwaited
      <4>2. CASE ~(closed \/ default \/ opening)
        <5>1. ASSUME failures = 0 PROVE greeted' = {s}
          BY <1>5, <4>2, <5>1 DEF Greet, Members, OpenInv, OneStarter
        <5>2. ~default' /\ resolving'[s] # "none" /\ failures' = failures
          BY <1>5, <2>2, <4>2 DEF Greet
        <5> QED
          BY <5>1, <5>2 DEF InitIsAwaited
      <4> QED
        BY <4>1, <4>2
    <3>2. (failures = 0 => OneStarter)'
      BY <1>5, <2>2 DEF Greet, Members, EnsureInitialized, OpenInv, OneStarter
    <3> QED
      BY <2>1, <3>1, <3>2 DEF OpenInv
  <2>3. CASE mode = "direct" /\ UNCHANGED <<hinted, opening, resolving>>
    BY <1>5, <2>1, <2>3 DEF Greet, Members, OpenInv, InitIsAwaited, OneStarter
  <2> QED
    BY <1>5, <2>2, <2>3 DEF Greet
<1>6. ASSUME NEW s \in Sessions, RootsAnswer(s) PROVE (DefaultIsOpen /\ OpenInv)'
  BY <1>6 DEF RootsAnswer, EnsureInitialized, EngineTypeOK, ToolCalls, DefaultIsOpen, OpenInv, OneHandle, InitIsAwaited, OneStarter
<1>7. ASSUME NEW c \in ToolCalls, Call(c) PROVE (DefaultIsOpen /\ OpenInv)'
  <2>1. CASE resolving[c[1]] # "none"
    BY <1>7, <2>1 DEF Call, DefaultIsOpen, OpenInv, OneHandle, InitIsAwaited, OneStarter
  <2>2. CASE resolving[c[1]] = "none"
    <3>1. RetryInit(c) /\ c[1] \in greeted /\ UNCHANGED <<mode, opening, closed, greeted>>
      BY <1>7, <2>2 DEF Call
    <3>2. failures = 0 => closed \/ ~opening
      BY <2>2, <3>1 DEF OpenInv, InitIsAwaited
    <3> QED
      BY <3>1, <3>2, RetryKeepsOpen
  <2> QED
    BY <2>1, <2>2
<1>8. ASSUME NEW c \in ToolCalls, Resolved(c) PROVE (DefaultIsOpen /\ OpenInv)'
  BY <1>8, RetryKeepsOpen DEF Resolved, CallersAreGreeted
<1>9. ASSUME NEW c \in ToolCalls, Execute(c) PROVE (DefaultIsOpen /\ OpenInv)'
  BY <1>9 DEF Execute, TakeGate, ServeCall, EngineTypeOK, ToolCalls, DefaultIsOpen, OpenInv, OneHandle, InitIsAwaited, OneStarter
<1>10. ASSUME NEW c \in ToolCalls, PassGate(c) PROVE (DefaultIsOpen /\ OpenInv)'
  BY <1>10 DEF PassGate, ServeCall, EngineTypeOK, ToolCalls, DefaultIsOpen, OpenInv, OneHandle, InitIsAwaited, OneStarter
<1>11. CASE UNCHANGED engineVars
  BY <1>11 DEF engineVars, EngineTypeOK, ToolCalls, DefaultIsOpen, OpenInv, OneHandle, InitIsAwaited, OneStarter
<1> QED
  BY <1>1, <1>2, <1>3, <1>4, <1>5, <1>6, <1>7, <1>8, <1>9, <1>10, <1>11 DEF StepEngine

LEMMA EngineInvHolds == SpecEngine => []EngineInv
<1>1. EngineInv /\ [StepEngine]_engineVars => EngineInv'
  BY EngineTypeIsKept, CallersStayGreeted, OpenInvIsKept DEF EngineInv
<1> QED
  BY <1>1, EngineInvStarts, PTL DEF SpecEngine

-----------------------------------------------------------------------------
(* engine.ts:42-62, session.ts: engine, sessions and calls keep to their   *)
(* types, and no handle is closed that was not open.                       *)
THEOREM EngineTypeCorrect == SpecEngine => []EngineTypeOK
<1>1. EngineInv => EngineTypeOK
  BY DEF EngineInv
<1> QED
  BY <1>1, EngineInvHolds, PTL

(* engine.ts:87-110: however many sessions greet, negotiate roots, call    *)
(* tools and retry, the project is opened once as long as no open fails.   *)
THEOREM ProjectIsOpenedOnce == SpecEngine => []OpenedOnce
<1>1. EngineInv => OpenedOnce
  BY DEF EngineInv, EngineTypeOK, OpenInv, OneHandle, OpenedOnce
<1> QED
  BY <1>1, EngineInvHolds, PTL

-----------------------------------------------------------------------------
Elements(s) == {s[i] : i \in DOMAIN s}
Injective(s) == \A i, j \in DOMAIN s : s[i] = s[j] => i = j

Owed == Calls \cup Others

(* The lines on their way to the daemon, in its hands or coming back; the  *)
(* daemon's own request for the host's roots is none of them.              *)
Coming == Elements(up) \ {Roots}
OnWire == Elements(down) \cup daemonJobs \cup Coming

NothingTwice == Injective(pending) /\ Injective(down) /\ Injective(up) /\ Injective(draining)

(* Lines wait only before the connection is decided, are on the wire only  *)
(* while it lasts, and are served in-process only afterwards.              *)
PlacesFitStatus ==
    /\ status # "connecting" => pending = <<>>
    /\ status # "ready" => inflight = {} /\ down = <<>> /\ daemonJobs = {} /\ up = <<>>
    /\ status # "failed" => draining = <<>> /\ local = {}

UnsentAreNowhere ==
    unsent \cap (Elements(pending) \cup OnWire \cup inflight \cup Elements(draining) \cup local) = {}

(* A request travels in one piece, and is tracked while it does.           *)
WireIsTracked ==
    /\ Elements(pending) \cap Statics = {} /\ Elements(down) \cap Statics = {}
    /\ daemonJobs \cup Coming \subseteq Requests \ Statics
    /\ Elements(down) \cap (daemonJobs \cup Coming) = {} /\ daemonJobs \cap Coming = {}
    /\ OnWire \cap Owed \subseteq inflight

(* The engine works on the head of the buffer, if on anything in it.       *)
HeadIsServed == \A m \in local : m \in Elements(draining) => m = Head(draining)

Waiting == unsent \cup Elements(pending) \cup inflight \cup Elements(draining) \cup local
OwedAreUnanswered ==
    /\ \A m \in Waiting \cap Owed : answers[m] = 0
    /\ \A m \in unsent : answers[m] = 0

PlacesInv ==
    /\ NothingTwice /\ PlacesFitStatus /\ UnsentAreNowhere /\ WireIsTracked /\ HeadIsServed
    /\ Elements(draining) \cap Statics = {}

ProxyInv == ProxyTypeOK /\ PlacesInv /\ OwedAreUnanswered /\ AnsweredOnce

-----------------------------------------------------------------------------
(* Sequences without repetition under Append and Tail.                     *)
LEMMA AppendOne ==
    ASSUME NEW S, NEW s \in Seq(S), NEW e \in S, Injective(s), e \notin Elements(s)
    PROVE Append(s, e) \in Seq(S) /\ Injective(Append(s, e)) /\ Elements(Append(s, e)) = Elements(s) \cup {e}
<1>1. /\ Append(s, e) \in Seq(S) /\ DOMAIN Append(s, e) = 1 .. Len(s) + 1 /\ DOMAIN s = 1 .. Len(s)
      /\ Append(s, e)[Len(s) + 1] = e /\ \A i \in 1 .. Len(s) : Append(s, e)[i] = s[i]
  OBVIOUS
<1>2. Injective(Append(s, e))
  <2> SUFFICES ASSUME NEW i \in 1 .. Len(s) + 1, NEW j \in 1 .. Len(s) + 1, Append(s, e)[i] = Append(s, e)[j] PROVE i = j
    BY <1>1 DEF Injective
  <2> QED
    BY <1>1 DEF Injective, Elements
<1>3. Elements(Append(s, e)) \subseteq Elements(s) \cup {e}
  BY <1>1 DEF Elements
<1>4. Elements(s) \cup {e} \subseteq Elements(Append(s, e))
  <2>1. e \in Elements(Append(s, e))
    BY <1>1, Len(s) + 1 \in 1 .. Len(s) + 1 DEF Elements
  <2>2. ASSUME NEW i \in 1 .. Len(s) PROVE s[i] \in Elements(Append(s, e))
    BY <1>1, i \in 1 .. Len(s) + 1 DEF Elements
  <2> QED
    BY <1>1, <2>1, <2>2 DEF Elements
<1> QED
  BY <1>1, <1>2, <1>3, <1>4

LEMMA TailOne ==
    ASSUME NEW S, NEW s \in Seq(S), s # <<>>, Injective(s)
    PROVE /\ Tail(s) \in Seq(S) /\ Injective(Tail(s)) /\ Head(s) \in S /\ Head(s) \in Elements(s)
          /\ Elements(Tail(s)) = Elements(s) \ {Head(s)}
<1>1. /\ Tail(s) \in Seq(S) /\ Len(s) \in Nat \ {0} /\ DOMAIN s = 1 .. Len(s) /\ Head(s) = s[1] /\ Head(s) \in S
      /\ DOMAIN Tail(s) = 1 .. Len(s) - 1 /\ \A i \in 1 .. Len(s) - 1 : Tail(s)[i] = s[i + 1]
  OBVIOUS
<1>2. Injective(Tail(s))
  <2> SUFFICES ASSUME NEW i \in 1 .. Len(s) - 1, NEW j \in 1 .. Len(s) - 1, Tail(s)[i] = Tail(s)[j] PROVE i = j
    BY <1>1 DEF Injective
  <2>1. s[i + 1] = s[j + 1] /\ i + 1 \in 1 .. Len(s) /\ j + 1 \in 1 .. Len(s)
    BY <1>1
  <2> QED
    BY <1>1, <2>1 DEF Injective
<1>3. Head(s) \in Elements(s)
  BY <1>1 DEF Elements
<1>4. Elements(Tail(s)) \subseteq Elements(s) \ {Head(s)}
  <2> SUFFICES ASSUME NEW i \in 1 .. Len(s) - 1 PROVE Tail(s)[i] \in Elements(s) \ {Head(s)}
    BY <1>1 DEF Elements
  <2>1. Tail(s)[i] = s[i + 1] /\ i + 1 \in 1 .. Len(s) /\ i + 1 # 1 /\ 1 \in 1 .. Len(s)
    BY <1>1
  <2> QED
    BY <1>1, <2>1 DEF Injective, Elements
<1>5. Elements(s) \ {Head(s)} \subseteq Elements(Tail(s))
  <2> SUFFICES ASSUME NEW i \in 1 .. Len(s), s[i] # s[1] PROVE s[i] \in Elements(Tail(s))
    BY <1>1 DEF Elements
  <2>1. i - 1 \in 1 .. Len(s) - 1 /\ Tail(s)[i - 1] = s[i]
    BY <1>1
  <2> QED
    BY <1>1, <2>1 DEF Elements
<1> QED
  BY <1>1, <1>2, <1>3, <1>4, <1>5

LEMMA EmptyOnes == Injective(<<>>) /\ Elements(<<>>) = {} /\ \A S : <<>> \in Seq(S)
BY DEF Injective, Elements

-----------------------------------------------------------------------------
LEMMA ProxyInvStarts == InitProxy => ProxyInv
<1> SUFFICES ASSUME InitProxy PROVE ProxyInv
  OBVIOUS
<1> USE EmptyOnes DEF InitProxy
<1>1. ProxyTypeOK
  BY DEF ProxyTypeOK
<1>2. PlacesInv
  BY DEF PlacesInv, NothingTwice, PlacesFitStatus, UnsentAreNowhere, WireIsTracked, HeadIsServed, OnWire, Coming
<1>3. OwedAreUnanswered /\ AnsweredOnce
  BY DEF OwedAreUnanswered, AnsweredOnce, Waiting, Owed, Lines, Requests
<1> QED
  BY <1>1, <1>2, <1>3 DEF ProxyInv

(* Answering what is owed an answer, once and for all.                     *)
LEMMA AnsweringIsSafe ==
    ASSUME ProxyInv, NEW ms \in SUBSET Lines, Answer(ms), ms \cap Notes = {},
           \A m \in ms \cap Requests : answers[m] = 0,
           Waiting' \cap Owed \subseteq Waiting \ ms, unsent' \subseteq unsent \ ms
    PROVE answers' \in [Lines -> Nat] /\ OwedAreUnanswered' /\ AnsweredOnce'
<1>1. answers \in [Lines -> Nat] /\ unsent \subseteq Lines /\ Owed \subseteq Lines /\ Requests \subseteq Lines /\ Notes \subseteq Lines
  BY DEF ProxyInv, ProxyTypeOK, Lines, Requests, Owed
<1>2. /\ answers' \in [Lines -> Nat]
      /\ \A m \in Lines : answers'[m] = IF m \in ms THEN answers[m] + 1 ELSE answers[m]
  BY <1>1 DEF Answer
<1>3. OwedAreUnanswered'
  BY <1>1, <1>2 DEF ProxyInv, OwedAreUnanswered
<1>4. AnsweredOnce'
  BY <1>1, <1>2 DEF ProxyInv, AnsweredOnce
<1> QED
  BY <1>2, <1>3, <1>4

LEMMA SilenceIsSafe ==
    ASSUME ProxyInv, UNCHANGED answers, Waiting' \cap Owed \subseteq Waiting, unsent' \subseteq unsent
    PROVE answers' \in [Lines -> Nat] /\ OwedAreUnanswered' /\ AnsweredOnce'
BY DEF ProxyInv, ProxyTypeOK, OwedAreUnanswered, AnsweredOnce
-----------------------------------------------------------------------------
(* The steps that move no line.                                            *)
LEMMA SequencesAreTyped ==
    ASSUME ProxyInv
    PROVE /\ pending \in Seq(Lines) /\ down \in Seq(Lines) /\ up \in Seq(Lines) /\ draining \in Seq(Lines)
          /\ Injective(pending) /\ Injective(down) /\ Injective(up) /\ Injective(draining)
          /\ Requests \subseteq Lines /\ Calls \subseteq Requests /\ Others \subseteq Requests /\ Statics \subseteq Requests
          /\ Initialize \in Requests /\ Roots \in Lines /\ Notes \subseteq Lines /\ Roots \notin Requests \cup Notes
          /\ Requests \cap Notes = {} /\ Owed \subseteq Requests \ (Statics \cup {Initialize})
BY LinesAssumption DEF LinesAssumption, ProxyInv, ProxyTypeOK, PlacesInv, NothingTwice, Lines, Requests, Owed

LEMMA StutterKeepsInv == ASSUME ProxyInv, UNCHANGED proxyVars PROVE ProxyInv'
BY DEF ProxyInv, ProxyTypeOK, PlacesInv, NothingTwice, PlacesFitStatus, UnsentAreNowhere, WireIsTracked,
       HeadIsServed, OnWire, Coming, OwedAreUnanswered, Waiting, AnsweredOnce, proxyVars, proxy, wire, host

LEMMA ShutdownKeepsInv == ASSUME ProxyInv, Shutdown PROVE ProxyInv'
BY DEF ProxyInv, ProxyTypeOK, PlacesInv, NothingTwice, PlacesFitStatus, UnsentAreNowhere, WireIsTracked,
       HeadIsServed, OnWire, Coming, OwedAreUnanswered, Waiting, AnsweredOnce, Shutdown, wire, host

(* A line of the host: answered on the spot, or one place further.         *)
LEMMA ReadLineKeepsInv == ASSUME ProxyInv, NEW m \in Lines, ReadLine(m) PROVE ProxyInv'
<1> USE SequencesAreTyped
<1>1. /\ m \in unsent /\ unsent' = unsent \ {m} /\ m \notin inflight /\ m \notin OnWire /\ answers[m] = 0
      /\ UNCHANGED <<status, running, draining, daemonJobs, up, asked>>
      /\ m \notin Elements(pending) /\ m \notin Elements(down) /\ m \notin Elements(draining) /\ m \notin local
  BY DEF ReadLine, MaySend, ProxyInv, PlacesInv, UnsentAreNowhere, Waiting, OwedAreUnanswered, OnWire
<1>2. CASE m \in Statics
  <2>1. UNCHANGED <<pending, inflight, down, local>> /\ Answer({m})
    BY <1>2, LinesAssumption DEF ReadLine, AtOnce, LinesAssumption
  <2>2. PlacesInv'
    <3>0. Coming' = Coming /\ OnWire' = OnWire
      BY <1>1, <2>1 DEF OnWire, Coming
    <3>1. UnsentAreNowhere' /\ WireIsTracked'
      BY <1>1, <2>1, <3>0 DEF ProxyInv, PlacesInv, UnsentAreNowhere, WireIsTracked
    <3> QED
      BY <1>1, <2>1, <3>1 DEF ProxyInv, PlacesInv, NothingTwice, PlacesFitStatus, HeadIsServed
  <2>3. Waiting' \cap Owed \subseteq Waiting \ {m}
    BY <1>1, <2>1 DEF Waiting
  <2>4. answers' \in [Lines -> Nat] /\ OwedAreUnanswered' /\ AnsweredOnce'
    BY <1>1, <1>2, <2>1, <2>3, AnsweringIsSafe
  <2>5. ProxyTypeOK'
    BY <1>1, <2>1, <2>4 DEF ProxyInv, ProxyTypeOK
  <2> QED
    BY <2>2, <2>4, <2>5 DEF ProxyInv
<1>3. CASE m \notin Statics
  <2> DEFINE ms == ({m} \cap {Initialize}) \cup (IF status = "failed" THEN AtOnce({m}) ELSE {})
  <2>1. RouteToDaemon(m) /\ Answer(ms)
    <3>1. ({m} \cap (Statics \cup {Initialize})) = {m} \cap {Initialize}
      BY <1>3
    <3> QED
      BY <1>3, <3>1 DEF ReadLine
  <2>2. /\ ms \in SUBSET Lines /\ ms \subseteq {m} /\ ms \cap Notes = {} /\ \A x \in ms \cap Requests : answers[x] = 0
        /\ status # "failed" => ms \cap Owed = {}
    BY <1>1 DEF AtOnce
  <2> HIDE DEF ms
  <2>3. CASE status = "ready"
    <3>1. down' = Append(down, m) /\ inflight' = inflight \cup Tracked({m}) /\ UNCHANGED <<pending, local>>
      BY <2>1, <2>3 DEF RouteToDaemon
    <3>2. down' \in Seq(Lines) /\ Injective(down') /\ Elements(down') = Elements(down) \cup {m}
      BY <1>1, <3>1, AppendOne
    <3>3. Tracked({m}) = {m} \cap Owed
      BY DEF Tracked, Owed
    <3>4. answers' \in [Lines -> Nat] /\ OwedAreUnanswered' /\ AnsweredOnce'
      <4>1. Waiting' \cap Owed \subseteq Waiting \ ms
        BY <1>1, <2>2, <2>3, <3>1, <3>3 DEF Waiting
      <4> QED
        BY <1>1, <2>1, <2>2, <4>1, AnsweringIsSafe
    <3>5. ProxyTypeOK'
      BY <1>1, <3>1, <3>2, <3>3, <3>4 DEF ProxyInv, ProxyTypeOK, Owed
    <3>6. NothingTwice' /\ PlacesFitStatus' /\ HeadIsServed' /\ Elements(draining') \cap Statics = {}
      BY <1>1, <2>3, <3>1, <3>2 DEF ProxyInv, PlacesInv, NothingTwice, PlacesFitStatus, HeadIsServed
    <3>7. UnsentAreNowhere'
      BY <1>1, <3>1, <3>2, <3>3 DEF ProxyInv, PlacesInv, UnsentAreNowhere, OnWire, Coming
    <3>8. WireIsTracked'
      <4>1. UNCHANGED <<pending, daemonJobs>> /\ Coming' = Coming /\ m \notin daemonJobs \cup Coming
        BY <1>1, <3>1 DEF Coming, OnWire
      <4>2. OnWire' = OnWire \cup {m}
        BY <3>2, <4>1 DEF OnWire
      <4>3. OnWire' \cap Owed \subseteq inflight'
        BY <3>1, <3>3, <4>2 DEF ProxyInv, PlacesInv, WireIsTracked
      <4> QED
        BY <1>3, <3>2, <4>1, <4>3 DEF ProxyInv, PlacesInv, WireIsTracked
    <3> QED
      BY <3>4, <3>5, <3>6, <3>7, <3>8 DEF ProxyInv, PlacesInv
  <2>4. CASE status = "failed"
    <3>1. local' = local \cup ({m} \cap Calls) /\ UNCHANGED <<inflight, down, pending>>
      BY <2>1, <2>4 DEF RouteToDaemon
    <3>2. answers' \in [Lines -> Nat] /\ OwedAreUnanswered' /\ AnsweredOnce'
      <4>2. m \in Calls => m \notin ms
        BY LinesAssumption DEF ms, AtOnce, LinesAssumption
      <4>3. Waiting' \cap Owed \subseteq Waiting \ ms
        <5>1. CASE m \in Calls
          BY <1>1, <2>2, <3>1, <4>2, <5>1 DEF Waiting
        <5>2. CASE m \notin Calls
          <6>1. local' = local
            BY <3>1, <5>2
          <6> QED
            BY <1>1, <2>2, <3>1, <6>1 DEF Waiting
        <5> QED
          BY <5>1, <5>2
      <4> QED
        BY <1>1, <2>1, <2>2, <4>3, AnsweringIsSafe
    <3>3. ProxyTypeOK'
      BY <1>1, <3>1, <3>2 DEF ProxyInv, ProxyTypeOK
    <3>4. NothingTwice' /\ PlacesFitStatus' /\ HeadIsServed' /\ Elements(draining') \cap Statics = {}
      BY <1>1, <2>4, <3>1 DEF ProxyInv, PlacesInv, NothingTwice, PlacesFitStatus, HeadIsServed
    <3>5. UnsentAreNowhere' /\ WireIsTracked'
      BY <1>1, <3>1 DEF ProxyInv, PlacesInv, UnsentAreNowhere, WireIsTracked, OnWire, Coming
    <3> QED
      BY <3>2, <3>3, <3>4, <3>5 DEF ProxyInv, PlacesInv
  <2>5. CASE status = "connecting"
    <3>1. pending' = Append(pending, m) /\ UNCHANGED <<inflight, down, local>>
      BY <2>1, <2>5 DEF RouteToDaemon
    <3>2. pending' \in Seq(Lines) /\ Injective(pending') /\ Elements(pending') = Elements(pending) \cup {m}
      BY <1>1, <3>1, AppendOne
    <3>3. answers' \in [Lines -> Nat] /\ OwedAreUnanswered' /\ AnsweredOnce'
      <4>1. Waiting' \cap Owed \subseteq Waiting \ ms
        BY <1>1, <2>2, <2>5, <3>1, <3>2 DEF Waiting
      <4> QED
        BY <1>1, <2>1, <2>2, <4>1, AnsweringIsSafe
    <3>4. ProxyTypeOK'
      BY <1>1, <3>1, <3>2, <3>3 DEF ProxyInv, ProxyTypeOK
    <3>5. NothingTwice' /\ PlacesFitStatus' /\ HeadIsServed' /\ Elements(draining') \cap Statics = {}
      BY <1>1, <2>5, <3>1, <3>2 DEF ProxyInv, PlacesInv, NothingTwice, PlacesFitStatus, HeadIsServed
    <3>6. UnsentAreNowhere' /\ WireIsTracked'
      BY <1>1, <1>3, <3>1, <3>2 DEF ProxyInv, PlacesInv, UnsentAreNowhere, WireIsTracked, OnWire, Coming
    <3> QED
      BY <3>3, <3>4, <3>5, <3>6 DEF ProxyInv, PlacesInv
  <2> QED
    BY <2>3, <2>4, <2>5 DEF ProxyInv, ProxyTypeOK
<1> QED
  BY <1>2, <1>3

(* The socket is there, or there will be none.                             *)
LEMMA DaemonReadyKeepsInv == ASSUME ProxyInv, DaemonReady PROVE ProxyInv'
<1> USE SequencesAreTyped, EmptyOnes
<1>1. /\ status = "connecting" /\ status' = "ready" /\ pending' = <<>> /\ down = <<>> /\ daemonJobs = {} /\ up = <<>>
      /\ inflight = {} /\ draining = <<>> /\ local = {}
      /\ UNCHANGED <<running, draining, local, daemonJobs, up, unsent, asked, answers>>
  BY DEF DaemonReady, host, ProxyInv, PlacesInv, PlacesFitStatus
<1>2. down' = pending
  BY <1>1 DEF DaemonReady
<1>3. inflight' = Elements(pending) \cap Owed
  BY <1>1 DEF DaemonReady, Elements, Tracked, Owed
<1>4. answers' \in [Lines -> Nat] /\ OwedAreUnanswered' /\ AnsweredOnce'
  <2>1. Waiting' \cap Owed \subseteq Waiting
    BY <1>1, <1>3 DEF Waiting
  <2> QED
    BY <1>1, <2>1, SilenceIsSafe
<1>5. ProxyTypeOK'
  BY <1>1, <1>2, <1>3, <1>4 DEF ProxyInv, ProxyTypeOK, Owed
<1>6. NothingTwice' /\ PlacesFitStatus' /\ HeadIsServed' /\ Elements(draining') \cap Statics = {}
  BY <1>1, <1>2 DEF NothingTwice, PlacesFitStatus, HeadIsServed
<1>7. Coming' = {} /\ OnWire' = Elements(pending)
  BY <1>1, <1>2 DEF OnWire, Coming
<1>8. UnsentAreNowhere' /\ WireIsTracked'
  BY <1>1, <1>2, <1>3, <1>7 DEF ProxyInv, PlacesInv, UnsentAreNowhere, WireIsTracked
<1> QED
  BY <1>4, <1>5, <1>6, <1>8 DEF ProxyInv, PlacesInv

LEMMA DaemonUnavailableKeepsInv == ASSUME ProxyInv, DaemonUnavailable PROVE ProxyInv'
<1> USE SequencesAreTyped, EmptyOnes
<1>1. /\ status = "connecting" /\ status' = "failed" /\ pending' = <<>> /\ draining' = pending
      /\ inflight = {} /\ down = <<>> /\ daemonJobs = {} /\ up = <<>> /\ draining = <<>> /\ local = {}
      /\ UNCHANGED <<running, inflight, local, down, daemonJobs, up, unsent, asked, answers>>
  BY DEF DaemonUnavailable, wire, host, ProxyInv, PlacesInv, PlacesFitStatus
<1>2. answers' \in [Lines -> Nat] /\ OwedAreUnanswered' /\ AnsweredOnce'
  <2>1. Waiting' \cap Owed \subseteq Waiting
    BY <1>1 DEF Waiting
  <2> QED
    BY <1>1, <2>1, SilenceIsSafe
<1>3. ProxyTypeOK'
  BY <1>1, <1>2 DEF ProxyInv, ProxyTypeOK
<1>4. NothingTwice' /\ PlacesFitStatus' /\ HeadIsServed'
  BY <1>1 DEF NothingTwice, PlacesFitStatus, HeadIsServed
<1>5. Elements(draining') \cap Statics = {}
  BY <1>1 DEF ProxyInv, PlacesInv, WireIsTracked
<1>6. Coming' = Coming /\ OnWire' = OnWire
  BY <1>1 DEF OnWire, Coming
<1>7. UnsentAreNowhere' /\ WireIsTracked'
  BY <1>1, <1>6 DEF ProxyInv, PlacesInv, UnsentAreNowhere, WireIsTracked
<1> QED
  BY <1>2, <1>3, <1>4, <1>5, <1>7 DEF ProxyInv, PlacesInv

(* What only ends or begins work of the engine leaves the wire alone.      *)
LEMMA EngineStepsKeepPlaces ==
    ASSUME ProxyInv, status = "failed", UNCHANGED <<status, pending, inflight, down, daemonJobs, up, unsent>>,
           draining' \in Seq(Lines), Injective(draining'), Elements(draining') \subseteq Elements(draining),
           local' \cup Elements(draining') \subseteq local \cup Elements(draining), HeadIsServed'
    PROVE PlacesInv'
<1>1. Coming' = Coming /\ OnWire' = OnWire
  BY DEF OnWire, Coming
<1>2. NothingTwice' /\ PlacesFitStatus'
  BY DEF ProxyInv, PlacesInv, NothingTwice, PlacesFitStatus
<1>3. UnsentAreNowhere'
  BY <1>1 DEF ProxyInv, PlacesInv, UnsentAreNowhere
<1>4. WireIsTracked'
  BY <1>1 DEF ProxyInv, PlacesInv, WireIsTracked
<1>5. Elements(draining') \cap Statics = {}
  BY DEF ProxyInv, PlacesInv
<1> QED
  BY <1>2, <1>3, <1>4, <1>5 DEF PlacesInv

LEMMA DrainKeepsInv == ASSUME ProxyInv, Drain PROVE ProxyInv'
<1> USE SequencesAreTyped
<1> DEFINE m == Head(draining)
<1>1. /\ draining # <<>> /\ m \notin local /\ local' = local \cup ({m} \cap Calls) /\ Answer(AtOnce({m}))
      /\ draining' = IF m \in Calls THEN draining ELSE Tail(draining)
      /\ UNCHANGED <<status, running, pending, inflight, down, daemonJobs, up, unsent, asked>>
  BY DEF Drain, ServeLocally, wire
<1>2. status = "failed"
  BY <1>1 DEF ProxyInv, PlacesInv, PlacesFitStatus
<1>3. /\ Tail(draining) \in Seq(Lines) /\ Injective(Tail(draining)) /\ m \in Lines /\ m \in Elements(draining)
      /\ Elements(Tail(draining)) = Elements(draining) \ {m}
  BY <1>1, TailOne
<1>4. /\ m \notin unsent /\ m \in Waiting /\ m \notin inflight /\ m \notin Elements(pending)
  BY <1>2, <1>3, EmptyOnes DEF ProxyInv, PlacesInv, PlacesFitStatus, UnsentAreNowhere, Waiting
<1> HIDE DEF m
<1>5. draining' \in Seq(Lines) /\ Injective(draining') /\ Elements(draining') = IF m \in Calls THEN Elements(draining) ELSE Elements(draining) \ {m}
  BY <1>1, <1>3
<1>6. AtOnce({m}) = {m} \cap (Others \cup {Roots})
  BY DEF AtOnce
<1>7. answers' \in [Lines -> Nat] /\ OwedAreUnanswered' /\ AnsweredOnce'
  <2>1. \A x \in AtOnce({m}) \cap Requests : answers[x] = 0
    BY <1>4, <1>6 DEF ProxyInv, OwedAreUnanswered, Owed
  <2>2. Waiting' \cap Owed \subseteq Waiting \ AtOnce({m})
    <3>1. CASE m \in Calls
      <4>1. /\ AtOnce({m}) = {} /\ local' = local \cup {m} /\ Elements(draining') = Elements(draining)
            /\ UNCHANGED <<unsent, inflight, pending>>
        BY <1>1, <1>5, <1>6, <3>1, LinesAssumption DEF LinesAssumption
      <4> QED
        BY <1>4, <4>1 DEF Waiting
    <3>2. CASE m \notin Calls
      <4>1. local' = local /\ Elements(draining') = Elements(draining) \ {m}
        BY <1>1, <1>5, <3>2
      <4> QED
        BY <1>1, <1>4, <1>6, <4>1 DEF Waiting
    <3> QED
      BY <3>1, <3>2
  <2>3. AtOnce({m}) \subseteq Lines /\ AtOnce({m}) \cap Notes = {} /\ unsent' \subseteq unsent \ AtOnce({m})
    BY <1>1, <1>4, <1>6
  <2> QED
    BY <1>1, <2>1, <2>2, <2>3, AnsweringIsSafe
<1>8. ProxyTypeOK'
  BY <1>1, <1>5, <1>7 DEF ProxyInv, ProxyTypeOK
<1>9. HeadIsServed'
  <2>1. CASE m \in Calls
    <3>1. draining' = draining /\ local' = local \cup {m}
      BY <1>1, <2>1
    <3> QED
      BY <3>1 DEF ProxyInv, PlacesInv, HeadIsServed, m
  <2>2. CASE m \notin Calls
    <3>1. local' = local /\ Elements(draining') = Elements(draining) \ {m}
      BY <1>1, <1>5, <2>2
    <3>2. \A x \in local : x \in Elements(draining) => x = m
      BY DEF ProxyInv, PlacesInv, HeadIsServed, m
    <3> QED
      BY <3>1, <3>2 DEF HeadIsServed
  <2> QED
    BY <2>1, <2>2
<1>10. PlacesInv'
  BY <1>1, <1>2, <1>3, <1>5, <1>9, EngineStepsKeepPlaces
<1> QED
  BY <1>7, <1>8, <1>10 DEF ProxyInv

LEMMA EngineAnswersKeepsInv == ASSUME ProxyInv, NEW m \in Calls, EngineAnswers(m) PROVE ProxyInv'
<1> USE SequencesAreTyped
<1>1. /\ m \in local /\ local' = local \ {m} /\ Answer({m})
      /\ draining' = IF draining # <<>> /\ Head(draining) = m THEN Tail(draining) ELSE draining
      /\ UNCHANGED <<status, running, pending, inflight, down, daemonJobs, up, unsent, asked>>
  BY DEF EngineAnswers, wire
<1>2. status = "failed"
  BY <1>1 DEF ProxyInv, PlacesInv, PlacesFitStatus
<1>3. draining' \in Seq(Lines) /\ Injective(draining') /\ Elements(draining') = Elements(draining) \ {m}
  <2>1. CASE draining # <<>> /\ Head(draining) = m
    BY <1>1, <2>1, TailOne
  <2>2. CASE draining = <<>>
    BY <1>1, <2>2, EmptyOnes
  <2>3. CASE draining # <<>> /\ Head(draining) # m
    <3>1. m \notin Elements(draining)
      BY <1>1, <2>3 DEF ProxyInv, PlacesInv, HeadIsServed
    <3> QED
      BY <1>1, <2>3, <3>1
  <2> QED
    BY <2>1, <2>2, <2>3
<1>4. m \notin unsent /\ m \in Waiting /\ m \notin inflight /\ m \notin Elements(pending)
  BY <1>1, <1>2, EmptyOnes DEF ProxyInv, PlacesInv, PlacesFitStatus, UnsentAreNowhere, Waiting
<1>5. answers' \in [Lines -> Nat] /\ OwedAreUnanswered' /\ AnsweredOnce'
  <2>1. answers[m] = 0
    BY <1>4 DEF ProxyInv, OwedAreUnanswered, Owed
  <2>2. Waiting' \cap Owed \subseteq Waiting \ {m}
    BY <1>1, <1>3, <1>4 DEF Waiting
  <2> QED
    BY <1>1, <1>4, <2>1, <2>2, AnsweringIsSafe
<1>6. ProxyTypeOK'
  BY <1>1, <1>3, <1>5 DEF ProxyInv, ProxyTypeOK
<1>7. HeadIsServed'
  <2>1. CASE draining # <<>> /\ Head(draining) = m
    <3>1. \A x \in local' : x \notin Elements(draining)
      BY <1>1, <2>1 DEF ProxyInv, PlacesInv, HeadIsServed
    <3> QED
      BY <1>3, <3>1 DEF HeadIsServed
  <2>2. CASE ~(draining # <<>> /\ Head(draining) = m)
    BY <1>1, <2>2 DEF ProxyInv, PlacesInv, HeadIsServed
  <2> QED
    BY <2>1, <2>2
<1>8. PlacesInv'
  BY <1>1, <1>2, <1>3, <1>7, EngineStepsKeepPlaces
<1> QED
  BY <1>5, <1>6, <1>8 DEF ProxyInv

(* What only moves a line along the wire, or brings the daemon's own       *)
(* request.                                                                *)
LEMMA WireStepsKeepInv ==
    ASSUME ProxyInv, status = "ready",
           UNCHANGED <<status, running, pending, inflight, draining, local, unsent, asked, answers>>,
           down' \in Seq(Lines), up' \in Seq(Lines), Injective(down'), Injective(up'),
           daemonJobs' \cup Coming' \subseteq Requests \ Statics,
           OnWire' \subseteq OnWire, Elements(down') \subseteq Elements(down),
           Elements(down') \cap (daemonJobs' \cup Coming') = {}, daemonJobs' \cap Coming' = {}
    PROVE ProxyInv'
<1>1. answers' \in [Lines -> Nat] /\ OwedAreUnanswered' /\ AnsweredOnce'
  <2>1. Waiting' = Waiting
    BY DEF Waiting
  <2> QED
    BY <2>1, SilenceIsSafe
<1>2. ProxyTypeOK'
  BY <1>1 DEF ProxyInv, ProxyTypeOK
<1>3. NothingTwice' /\ PlacesFitStatus' /\ HeadIsServed' /\ Elements(draining') \cap Statics = {}
  BY DEF ProxyInv, PlacesInv, NothingTwice, PlacesFitStatus, HeadIsServed
<1>4. UnsentAreNowhere'
  BY DEF ProxyInv, PlacesInv, UnsentAreNowhere
<1>5. WireIsTracked'
  BY DEF ProxyInv, PlacesInv, WireIsTracked
<1> QED
  BY <1>1, <1>2, <1>3, <1>4, <1>5 DEF ProxyInv, PlacesInv

LEMMA SessionReadsKeepsInv == ASSUME ProxyInv, SessionReads PROVE ProxyInv'
<1> USE SequencesAreTyped
<1> DEFINE m == Head(down)
<1>1. /\ down # <<>> /\ down' = Tail(down) /\ daemonJobs' = daemonJobs \cup ({m} \cap Requests)
      /\ UNCHANGED <<status, running, pending, inflight, draining, local, unsent, asked, answers, up>>
  BY DEF SessionReads, proxy, host
<1>2. status = "ready"
  BY <1>1 DEF ProxyInv, PlacesInv, PlacesFitStatus
<1>3. /\ Tail(down) \in Seq(Lines) /\ Injective(Tail(down)) /\ m \in Elements(down)
      /\ Elements(Tail(down)) = Elements(down) \ {m}
  BY <1>1, TailOne
<1> HIDE DEF m
<1>4. Coming' = Coming /\ m \notin daemonJobs \cup Coming /\ m \notin Statics
  BY <1>1, <1>3 DEF Coming, ProxyInv, PlacesInv, WireIsTracked
<1>5. /\ daemonJobs \cup Coming \subseteq Requests \ Statics
      /\ Elements(down) \cap (daemonJobs \cup Coming) = {} /\ daemonJobs \cap Coming = {}
  BY DEF ProxyInv, PlacesInv, WireIsTracked
<1>6. OnWire' \subseteq OnWire
  BY <1>1, <1>3, <1>4 DEF OnWire
<1> QED
  BY <1>1, <1>2, <1>3, <1>4, <1>5, <1>6, WireStepsKeepInv

LEMMA SessionAnswersKeepsInv == ASSUME ProxyInv, NEW m \in Requests, SessionAnswers(m) PROVE ProxyInv'
<1> USE SequencesAreTyped
<1>1. /\ m \in daemonJobs /\ daemonJobs' = daemonJobs \ {m} /\ up' = Append(up, m)
      /\ UNCHANGED <<status, running, pending, inflight, draining, local, unsent, asked, answers, down>>
  BY DEF SessionAnswers, proxy, host
<1>2. status = "ready"
  BY <1>1 DEF ProxyInv, PlacesInv, PlacesFitStatus
<1>3. /\ daemonJobs \cup Coming \subseteq Requests \ Statics
      /\ Elements(down) \cap (daemonJobs \cup Coming) = {} /\ daemonJobs \cap Coming = {}
  BY DEF ProxyInv, PlacesInv, WireIsTracked
<1>4. m \notin Elements(up)
  BY <1>1, <1>3 DEF Coming
<1>5. up' \in Seq(Lines) /\ Injective(up') /\ Elements(up') = Elements(up) \cup {m}
  BY <1>1, <1>4, AppendOne
<1>6. Coming' = Coming \cup {m}
  BY <1>5 DEF Coming
<1>7. OnWire' \subseteq OnWire
  BY <1>1, <1>6 DEF OnWire
<1> QED
  BY <1>1, <1>2, <1>3, <1>5, <1>6, <1>7, WireStepsKeepInv

LEMMA SessionAsksRootsKeepsInv == ASSUME ProxyInv, SessionAsksRoots PROVE ProxyInv'
<1> USE SequencesAreTyped
<1>1. /\ daemonJobs # {} /\ Roots \notin Elements(up) /\ up' = Append(up, Roots)
      /\ UNCHANGED <<status, running, pending, inflight, draining, local, unsent, asked, answers, down, daemonJobs>>
  BY DEF SessionAsksRoots, proxy, host, Elements
<1>2. status = "ready"
  BY <1>1 DEF ProxyInv, PlacesInv, PlacesFitStatus
<1>3. up' \in Seq(Lines) /\ Injective(up') /\ Elements(up') = Elements(up) \cup {Roots}
  BY <1>1, AppendOne
<1>4. Coming' = Coming
  BY <1>3 DEF Coming
<1>5. OnWire' = OnWire
  BY <1>1, <1>4 DEF OnWire
<1>6. /\ daemonJobs \cup Coming \subseteq Requests \ Statics
      /\ Elements(down) \cap (daemonJobs \cup Coming) = {} /\ daemonJobs \cap Coming = {}
  BY DEF ProxyInv, PlacesInv, WireIsTracked
<1> QED
  BY <1>1, <1>2, <1>3, <1>4, <1>5, <1>6, WireStepsKeepInv

(* A line of the daemon reaches the host.                                  *)
LEMMA ReadDaemonKeepsInv == ASSUME ProxyInv, ReadDaemon PROVE ProxyInv'
<1> USE SequencesAreTyped
<1> DEFINE m == Head(up)
<1>1. /\ status = "ready" /\ up # <<>> /\ up' = Tail(up)
      /\ UNCHANGED <<status, running, pending, draining, local, down, daemonJobs, unsent>>
  BY DEF ReadDaemon
<1>2. /\ Tail(up) \in Seq(Lines) /\ Injective(Tail(up)) /\ m \in Elements(up)
      /\ Elements(Tail(up)) = Elements(up) \ {m}
  BY <1>1, TailOne
<1>3. \/ m = Roots /\ asked' = TRUE /\ UNCHANGED <<inflight, answers>>
      \/ m # Roots /\ inflight' = inflight \ {m} /\ Answer({m} \ {Initialize}) /\ asked' = asked
  BY DEF ReadDaemon, Relay
<1> HIDE DEF m
<1>4. /\ daemonJobs \cup Coming \subseteq Requests \ Statics
      /\ Elements(down) \cap (daemonJobs \cup Coming) = {} /\ daemonJobs \cap Coming = {}
      /\ Elements(pending) \cap Statics = {} /\ Elements(down) \cap Statics = {} /\ OnWire \cap Owed \subseteq inflight
  BY DEF ProxyInv, PlacesInv, WireIsTracked
<1>5. /\ Coming' = Coming \ {m} /\ OnWire' = Elements(down) \cup daemonJobs \cup (Coming \ {m})
      /\ m # Roots => m \in Coming
  BY <1>1, <1>2 DEF Coming, OnWire
<1>6. ASSUME m # Roots PROVE m \in Requests \ Statics /\ m \in OnWire /\ m \notin Elements(down) \cup daemonJobs /\ m \notin unsent
  BY <1>4, <1>5, <1>6 DEF OnWire, ProxyInv, PlacesInv, UnsentAreNowhere
<1>7. Elements(pending) = {} /\ Elements(draining) = {} /\ local = {}
  BY <1>1, EmptyOnes DEF ProxyInv, PlacesInv, PlacesFitStatus
<1>8. NothingTwice' /\ PlacesFitStatus' /\ HeadIsServed' /\ Elements(draining') \cap Statics = {}
  BY <1>1, <1>2, <1>7 DEF ProxyInv, PlacesInv, NothingTwice, PlacesFitStatus, HeadIsServed
<1>9. CASE m = Roots
  <2>1. inflight' = inflight /\ answers' = answers /\ asked' = TRUE /\ Coming' = Coming /\ OnWire' = OnWire
    BY <1>3, <1>5, <1>9 DEF Coming, OnWire
  <2>2. answers' \in [Lines -> Nat] /\ OwedAreUnanswered' /\ AnsweredOnce'
    <3>1. Waiting' = Waiting
      BY <1>1, <2>1 DEF Waiting
    <3> QED
      BY <1>1, <2>1, <3>1, SilenceIsSafe
  <2>3. ProxyTypeOK'
    BY <1>1, <1>2, <2>1, <2>2 DEF ProxyInv, ProxyTypeOK
  <2>4. UnsentAreNowhere' /\ WireIsTracked'
    BY <1>1, <1>4, <2>1 DEF ProxyInv, PlacesInv, UnsentAreNowhere, WireIsTracked
  <2> QED
    BY <1>8, <2>2, <2>3, <2>4 DEF ProxyInv, PlacesInv
<1>10. CASE m # Roots
  <2>1. inflight' = inflight \ {m} /\ Answer({m} \ {Initialize}) /\ asked' = asked
    BY <1>3, <1>10
  <2>2. answers' \in [Lines -> Nat] /\ OwedAreUnanswered' /\ AnsweredOnce'
    <3>1. m # Initialize => m \in Owed /\ m \in inflight
      BY <1>4, <1>6, <1>10 DEF Requests, Owed
    <3>2. \A x \in ({m} \ {Initialize}) \cap Requests : answers[x] = 0
      BY <3>1 DEF ProxyInv, OwedAreUnanswered, Waiting
    <3>3. Waiting' \cap Owed \subseteq Waiting \ ({m} \ {Initialize})
      BY <1>1, <1>6, <1>7, <1>10, <2>1 DEF Waiting
    <3>4. ({m} \ {Initialize}) \subseteq Lines /\ ({m} \ {Initialize}) \cap Notes = {} /\ unsent' \subseteq unsent \ ({m} \ {Initialize})
      BY <1>1, <1>6, <1>10
    <3> QED
      BY <2>1, <3>2, <3>3, <3>4, AnsweringIsSafe
  <2>3. ProxyTypeOK'
    BY <1>1, <1>2, <2>1, <2>2 DEF ProxyInv, ProxyTypeOK
  <2>4. UnsentAreNowhere'
    BY <1>1, <1>5, <2>1 DEF ProxyInv, PlacesInv, UnsentAreNowhere, OnWire
  <2>5. OnWire' \cap Owed \subseteq inflight'
    BY <1>4, <1>5, <1>6, <1>10, <2>1 DEF OnWire
  <2>6. WireIsTracked'
    BY <1>1, <1>4, <1>5, <2>5 DEF WireIsTracked
  <2> QED
    BY <1>8, <2>2, <2>3, <2>4, <2>6 DEF ProxyInv, PlacesInv
<1> QED
  BY <1>9, <1>10

(* The daemon is lost: what it owes is served in-process or answered.      *)
LEMMA DaemonLostKeepsInv == ASSUME ProxyInv, DaemonLost PROVE ProxyInv'
<1> USE SequencesAreTyped, EmptyOnes
<1>1. /\ status = "ready" /\ status' = "failed" /\ inflight' = {} /\ local' = local \cup (inflight \cap Calls)
      /\ Answer(AtOnce(inflight)) /\ down' = <<>> /\ up' = <<>> /\ daemonJobs' = {}
      /\ UNCHANGED <<running, pending, draining, unsent, asked>>
  BY DEF DaemonLost, ReserveOrphans, ServeLocally
<1>2. pending = <<>> /\ draining = <<>> /\ local = {} /\ inflight \subseteq Calls \cup Others /\ inflight \cap unsent = {}
  BY <1>1 DEF ProxyInv, ProxyTypeOK, PlacesInv, PlacesFitStatus, UnsentAreNowhere
<1>3. AtOnce(inflight) = inflight \cap Others
  BY <1>2 DEF AtOnce
<1>4. answers' \in [Lines -> Nat] /\ OwedAreUnanswered' /\ AnsweredOnce'
  <2>1. \A x \in AtOnce(inflight) \cap Requests : answers[x] = 0
    BY <1>3 DEF ProxyInv, OwedAreUnanswered, Waiting, Owed
  <2>2. Waiting' \cap Owed \subseteq Waiting \ AtOnce(inflight)
    BY <1>1, <1>2, <1>3, LinesAssumption DEF Waiting, LinesAssumption
  <2>3. AtOnce(inflight) \subseteq Lines /\ AtOnce(inflight) \cap Notes = {} /\ unsent' \subseteq unsent \ AtOnce(inflight)
    BY <1>1, <1>2, <1>3
  <2> QED
    BY <1>1, <2>1, <2>2, <2>3, AnsweringIsSafe
<1>5. ProxyTypeOK'
  BY <1>1, <1>2, <1>4 DEF ProxyInv, ProxyTypeOK
<1>6. NothingTwice' /\ PlacesFitStatus' /\ HeadIsServed' /\ Elements(draining') \cap Statics = {}
  BY <1>1, <1>2 DEF NothingTwice, PlacesFitStatus, HeadIsServed
<1>7. Coming' = {} /\ OnWire' = {}
  BY <1>1 DEF OnWire, Coming
<1>8. UnsentAreNowhere' /\ WireIsTracked'
  BY <1>1, <1>2, <1>7 DEF UnsentAreNowhere, WireIsTracked
<1> QED
  BY <1>4, <1>5, <1>6, <1>8 DEF ProxyInv, PlacesInv

-----------------------------------------------------------------------------
LEMMA ProxyInvHolds == SpecProxy => []ProxyInv
<1>1. ProxyInv /\ [StepProxy]_proxyVars => ProxyInv'
  BY StutterKeepsInv, ReadLineKeepsInv, DaemonReadyKeepsInv, DaemonUnavailableKeepsInv, DrainKeepsInv,
     EngineAnswersKeepsInv, ReadDaemonKeepsInv, DaemonLostKeepsInv, ShutdownKeepsInv, SessionReadsKeepsInv,
     SessionAsksRootsKeepsInv, SessionAnswersKeepsInv DEF StepProxy
<1> QED
  BY <1>1, ProxyInvStarts, PTL DEF SpecProxy

(* proxy.ts:202-361: lines, buffers and counts keep to their types.        *)
THEOREM ProxyTypeCorrect == SpecProxy => []ProxyTypeOK
<1>1. ProxyInv => ProxyTypeOK
  BY DEF ProxyInv
<1> QED
  BY <1>1, ProxyInvHolds, PTL

(* proxy.ts:190-198, 316-348: whatever the host sends and however often    *)
(* the daemon comes late, stays away or is lost, no request is answered    *)
(* twice and no notification is answered.                                  *)
THEOREM RequestsAreAnsweredOnce == SpecProxy => []AnsweredOnce
<1>1. ProxyInv => AnsweredOnce
  BY DEF ProxyInv
<1> QED
  BY <1>1, ProxyInvHolds, PTL
=============================================================================
