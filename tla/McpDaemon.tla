----------------------------- MODULE McpDaemon -----------------------------
(***************************************************************************)
(* The shared MCP daemon of codegraph/src/mcp (daemon.ts, daemon-paths.ts, *)
(* index.ts): launchers probe the project's socket and, when nobody        *)
(* listens, spawn a detached daemon; daemons arbitrate through a pid       *)
(* lockfile, serve the launchers' connections and end themselves by        *)
(* reference count, idle timer, liveness sweep and inactivity backstop.    *)
(* Every file system call that another process can come between is a step  *)
(* of its own.                                                             *)
(***************************************************************************)
EXTENDS Naturals, FiniteSets

CONSTANTS
    Daemons,      \* processes spawned to be the daemon, by pid
    Launchers,    \* "serve --mcp" processes of MCP hosts
    Outdated,     \* launchers of another package version
    Lossy,        \* launchers whose socket close is never signalled (#692)
    MaxTries,     \* TAKEOVER_MAX_RETRIES
    MaxPolls,     \* DAEMON_CONNECT_MAX_RETRIES
    MaxKills,     \* bound: daemons ended by SIGKILL
    NoOne,        \* no process
    Junk          \* lockfile content that decodes to null

ASSUME DaemonAssumption ==
    /\ NoOne \notin Daemons /\ Junk \notin Daemons /\ NoOne # Junk
    /\ Outdated \subseteq Launchers /\ Lossy \subseteq Launchers
    /\ MaxTries \in Nat /\ MaxPolls \in Nat /\ MaxKills \in Nat

VARIABLES
    lock,      \* the pid lockfile: a pid, Junk, or NoOne when it is missing
    sock,      \* the process the socket file leads to, NoOne when missing
    dpc,       \* where each daemon process is
    saw,       \* the pid a candidate found in the lockfile
    tries,     \* rounds of startDaemonProcess
    idle,      \* the idle timer is armed
    awaiting,  \* connections whose client-hello the daemon still reads
    clients,   \* connections with a session
    told,      \* sessions whose client-hello named their pids
    deaf,      \* sessions built on a socket that had already closed
    lpc,       \* where each launcher is
    polls,     \* connection attempts since it spawned a daemon
    peer,      \* the daemon a launcher's connection leads to
    open,      \* the launcher's end of that connection is open
    kills,     \* daemons killed
    raced      \* history: a clear deleted a lock its process did not re-read

files == <<lock, sock, raced>>
daemonVars == <<dpc, saw, tries, idle>>
sessions == <<awaiting, clients, told, deaf>>
launcherVars == <<lpc, polls, peer, open>>
vars == <<files, daemonVars, sessions, launcherVars, kills>>

(* unborn -> acquire -> taken -> clear -> acquire ... (startDaemonProcess),*)
(* acquire -> boot -> listen -> serving -> stopping -> exiting -> gone.    *)
DaemonPc == {"unborn", "acquire", "taken", "reread", "clear", "boot", "listen",
             "serving", "stopping", "exiting", "gone"}
LauncherPc == {"new", "probe", "poll", "daemon", "local", "dead"}

Alive(d) == d \in Daemons /\ dpc[d] \notin {"unborn", "gone"}
Owners == {d \in Daemons : dpc[d] \in {"boot", "listen", "serving", "stopping"}}
Listening(d) == d \in Daemons /\ dpc[d] = "serving"
Connected(d) == {l \in Launchers : peer[l] = d /\ open[l]}

Init ==
    /\ lock \in {NoOne, Junk} /\ sock = NoOne
    /\ dpc = [d \in Daemons |-> "unborn"] /\ saw = [d \in Daemons |-> NoOne]
    /\ tries = [d \in Daemons |-> 0] /\ idle = [d \in Daemons |-> FALSE]
    /\ awaiting = [d \in Daemons |-> {}] /\ clients = [d \in Daemons |-> {}]
    /\ told = {} /\ deaf = {}
    /\ lpc = [l \in Launchers |-> "new"] /\ polls = [l \in Launchers |-> 0]
    /\ peer = [l \in Launchers |-> NoOne] /\ open = [l \in Launchers |-> FALSE]
    /\ kills = 0 /\ raced = FALSE

-----------------------------------------------------------------------------
(* The launcher: MCPServer.start and runProxyWithLocalHandshake.           *)

Start(l) ==
    /\ lpc[l] = "new" /\ lpc' = [lpc EXCEPT ![l] = "probe"]
    /\ UNCHANGED <<files, daemonVars, sessions, polls, peer, open, kills>>

(* connectWithHello reaches a listening daemon.  A hello of another version*)
(* closes the socket and serves the session in-process for good.           *)
Connect(l) ==
    /\ lpc[l] \in {"probe", "poll"} /\ Listening(sock)
    /\ awaiting' = [awaiting EXCEPT ![sock] = @ \cup {l}]
    /\ peer' = [peer EXCEPT ![l] = sock]
    /\ open' = [open EXCEPT ![l] = l \notin Outdated]
    /\ lpc' = [lpc EXCEPT ![l] = IF l \in Outdated THEN "local" ELSE "daemon"]
    /\ UNCHANGED <<files, daemonVars, clients, told, deaf, polls, kills>>

(* Nobody listens: spawn a detached daemon and poll for its bind.          *)
Spawn(l) ==
    /\ lpc[l] = "probe" /\ ~Listening(sock)
    /\ \E d \in Daemons :
           /\ dpc[d] = "unborn" /\ dpc' = [dpc EXCEPT ![d] = "acquire"]
    /\ lpc' = [lpc EXCEPT ![l] = "poll"]
    /\ UNCHANGED <<files, saw, tries, idle, sessions, polls, peer, open, kills>>

(* After the last attempt the proxy serves the session in-process.         *)
PollFails(l) ==
    /\ lpc[l] = "poll" /\ ~Listening(sock)
    /\ IF polls[l] < MaxPolls
       THEN polls' = [polls EXCEPT ![l] = @ + 1] /\ UNCHANGED lpc
       ELSE lpc' = [lpc EXCEPT ![l] = "local"] /\ UNCHANGED polls
    /\ UNCHANGED <<files, daemonVars, sessions, peer, open, kills>>

(* The host goes away; its launcher's watchdog ends the process.           *)
HostExits(l) ==
    /\ lpc[l] \notin {"new", "dead"}
    /\ lpc' = [lpc EXCEPT ![l] = "dead"] /\ open' = [open EXCEPT ![l] = FALSE]
    /\ UNCHANGED <<files, daemonVars, sessions, polls, peer, kills>>

-----------------------------------------------------------------------------
(* The lockfile: startDaemonProcess, tryAcquireDaemonLock and              *)
(* clearStaleDaemonLock.                                                   *)

(* link() of a complete record: atomic, and exclusive.                     *)
Acquire(d) ==
    /\ dpc[d] = "acquire"
    /\ IF lock = NoOne
       THEN lock' = d /\ dpc' = [dpc EXCEPT ![d] = "boot"] /\ UNCHANGED saw
       ELSE /\ saw' = [saw EXCEPT ![d] = lock] /\ UNCHANGED lock
            /\ dpc' = [dpc EXCEPT ![d] = "taken"]
    /\ UNCHANGED <<sock, raced, tries, idle, sessions, launcherVars, kills>>

(* A live holder makes this process redundant.                             *)
Judge(d) ==
    /\ dpc[d] = "taken"
    /\ dpc' = [dpc EXCEPT ![d] = IF Alive(saw[d]) THEN "gone" ELSE "reread"]
    /\ UNCHANGED <<files, saw, tries, idle, sessions, launcherVars, kills>>

(* The next round, or the end of a process that used them up.              *)
Retry(d) ==
    /\ tries' = [tries EXCEPT ![d] = IF @ < MaxTries THEN @ + 1 ELSE @]
    /\ dpc' = [dpc EXCEPT ![d] = IF tries[d] + 1 < MaxTries THEN "acquire" ELSE "gone"]

NeverRefuses(d) == FALSE

(* What clearStaleDaemonLock refuses to delete: a file that names another  *)
(* pid than the one judged dead, or a live one.  A record that decodes to  *)
(* null carries no expectation.                                            *)
Refuses(d) ==
    /\ lock \in Daemons
    /\ \/ saw[d] \in Daemons /\ lock # saw[d]
       \/ Alive(lock)

Reread(d) ==
    /\ dpc[d] = "reread"
    /\ IF lock = NoOne \/ Refuses(d)
       THEN Retry(d) /\ UNCHANGED saw
       ELSE /\ saw' = [saw EXCEPT ![d] = lock] /\ UNCHANGED tries
            /\ dpc' = [dpc EXCEPT ![d] = "clear"]
    /\ UNCHANGED <<files, idle, sessions, launcherVars, kills>>

(* The unlink deletes whatever the path names by now.                      *)
Clear(d) ==
    /\ dpc[d] = "clear"
    /\ lock' = NoOne /\ raced' = (raced \/ lock \notin {saw[d], NoOne})
    /\ Retry(d)
    /\ UNCHANGED <<sock, saw, idle, sessions, launcherVars, kills>>

-----------------------------------------------------------------------------
(* The daemon: start, handleConnection and dropClient.                     *)

(* A stale socket file would make listen fail.                             *)
Boot(d) ==
    /\ dpc[d] = "boot" /\ sock' = NoOne
    /\ dpc' = [dpc EXCEPT ![d] = "listen"]
    /\ UNCHANGED <<lock, raced, saw, tries, idle, sessions, launcherVars, kills>>

(* The bind; EADDRINUSE ends the process, which leaves its lock behind.    *)
Listen(d) ==
    /\ dpc[d] = "listen"
    /\ IF sock = NoOne
       THEN /\ sock' = d /\ dpc' = [dpc EXCEPT ![d] = "serving"]
            /\ idle' = [idle EXCEPT ![d] = TRUE]
       ELSE dpc' = [dpc EXCEPT ![d] = "gone"] /\ UNCHANGED <<sock, idle>>
    /\ UNCHANGED <<lock, raced, saw, tries, sessions, launcherVars, kills>>

(* readClientHello is over: the hello came, the socket closed first, or    *)
(* the wait timed out.  Whatever it was, a session is added, even on a     *)
(* socket that is closed and by a daemon that is stopping.                 *)
AddSession(d, l, hello) ==
    /\ dpc[d] \in {"serving", "stopping"} /\ l \in awaiting[d]
    /\ awaiting' = [awaiting EXCEPT ![d] = @ \ {l}]
    /\ clients' = [clients EXCEPT ![d] = @ \cup {l}]
    /\ told' = IF hello THEN told \cup {l} ELSE told
    /\ deaf' = IF ~hello /\ ~open[l] THEN deaf \cup {l} ELSE deaf
    /\ idle' = [idle EXCEPT ![d] = FALSE]
    /\ UNCHANGED <<files, dpc, saw, tries, launcherVars, kills>>

HelloRead(d, l) == l \notin Outdated /\ AddSession(d, l, TRUE)
HelloMissing(d, l) == AddSession(d, l, FALSE)

DropKeepsTimer(d, gone) ==
    /\ clients' = [clients EXCEPT ![d] = @ \ gone] /\ UNCHANGED idle

(* The idle timer is armed again when the last client goes.                *)
Drop(d, gone) ==
    /\ clients' = [clients EXCEPT ![d] = @ \ gone]
    /\ idle' = [idle EXCEPT ![d] = @ \/ (clients[d] \subseteq gone /\ dpc[d] = "serving")]

SocketCloses(d, l) ==
    /\ dpc[d] \in {"serving", "stopping"} /\ l \in clients[d] \ (deaf \cup Lossy)
    /\ ~open[l] /\ Drop(d, {l})
    /\ UNCHANGED <<files, dpc, saw, tries, awaiting, told, deaf, launcherVars, kills>>

-----------------------------------------------------------------------------
(* Reaping: the idle timer, the liveness sweep and the backstop.           *)

(* peerIsDead: only a client that told its pids can be found dead.         *)
PeerIsDeadOrUnknown(l) == l \notin told \/ lpc[l] = "dead"
PeerIsDead(l) == l \in told /\ lpc[l] = "dead"

Sweep(d) ==
    LET dead == {l \in clients[d] : PeerIsDead(l)} IN
    /\ dpc[d] = "serving" /\ dead # {} /\ Drop(d, dead)
    /\ UNCHANGED <<files, dpc, saw, tries, awaiting, told, deaf, launcherVars, kills>>

(* stop: the sessions' sockets are destroyed, which their proxies notice   *)
(* and serve the rest in-process; closing the server deletes its path.     *)
Stop(d) ==
    /\ dpc' = [dpc EXCEPT ![d] = "stopping"] /\ idle' = [idle EXCEPT ![d] = FALSE]
    /\ clients' = [clients EXCEPT ![d] = {}]
    /\ open' = [l \in Launchers |-> open[l] /\ l \notin clients[d]]
    /\ lpc' = [l \in Launchers |->
                   IF l \in clients[d] /\ lpc[l] = "daemon" THEN "local" ELSE lpc[l]]
    /\ sock' = NoOne
    /\ UNCHANGED <<lock, raced, saw, tries, awaiting, told, deaf, polls, peer, kills>>

(* It looks at the sessions, not at connections whose hello is awaited.    *)
IdleTimeout(d) == dpc[d] = "serving" /\ idle[d] /\ clients[d] = {} /\ Stop(d)

(* No traffic for maxIdleMs while clients are connected: always possible,  *)
(* and certain when none of them lives.                                    *)
Backstop(d) == dpc[d] = "serving" /\ clients[d] # {} /\ Stop(d)
Quiet(d) == \A l \in clients[d] : l \in deaf \/ lpc[l] = "dead"

Signal(d) == dpc[d] = "serving" /\ Stop(d)

(* server.close calls back once every connection has ended; then the lock  *)
(* goes, if it is still this daemon's.                                     *)
Ended(d) == Connected(d) = {} /\ awaiting[d] = {} /\ clients[d] \cap Lossy = {}

ReleaseLock(d) ==
    /\ dpc[d] = "stopping" /\ Ended(d)
    /\ lock' = IF lock = d THEN NoOne ELSE lock
    /\ dpc' = [dpc EXCEPT ![d] = "exiting"]
    /\ UNCHANGED <<sock, raced, saw, tries, idle, sessions, launcherVars, kills>>

(* The last unlink of the socket path, after the lock is gone.             *)
Exit(d) ==
    /\ dpc[d] = "exiting" /\ sock' = NoOne
    /\ dpc' = [dpc EXCEPT ![d] = "gone"]
    /\ clients' = [clients EXCEPT ![d] = {}]
    /\ UNCHANGED <<lock, raced, saw, tries, idle, awaiting, told, deaf, launcherVars, kills>>

(* SIGKILL: lock and socket file stay behind.                              *)
Kill(d) ==
    /\ Alive(d) /\ kills < MaxKills /\ kills' = kills + 1
    /\ dpc' = [dpc EXCEPT ![d] = "gone"] /\ idle' = [idle EXCEPT ![d] = FALSE]
    /\ awaiting' = [awaiting EXCEPT ![d] = {}] /\ clients' = [clients EXCEPT ![d] = {}]
    /\ open' = [l \in Launchers |-> open[l] /\ peer[l] # d]
    /\ lpc' = [l \in Launchers |->
                   IF peer[l] = d /\ lpc[l] = "daemon" THEN "local" ELSE lpc[l]]
    /\ UNCHANGED <<files, saw, tries, told, deaf, polls, peer>>

-----------------------------------------------------------------------------
Launch(l) == Start(l) \/ Connect(l) \/ Spawn(l) \/ PollFails(l) \/ HostExits(l)
Arbitrate(d) == Acquire(d) \/ Judge(d) \/ Reread(d) \/ Clear(d) \/ Boot(d) \/ Listen(d)
Serve(d) == \E l \in Launchers : HelloRead(d, l) \/ HelloMissing(d, l) \/ SocketCloses(d, l)
Reap(d) == Sweep(d) \/ IdleTimeout(d) \/ Backstop(d) \/ Signal(d)
End(d) == ReleaseLock(d) \/ Exit(d) \/ Kill(d)

Next ==
    \/ \E l \in Launchers : Launch(l)
    \/ \E d \in Daemons : Arbitrate(d) \/ Serve(d) \/ Reap(d) \/ End(d)

Spec == Init /\ [][Next]_vars

-----------------------------------------------------------------------------
TypeOK ==
    /\ lock \in Daemons \cup {NoOne, Junk} /\ sock \in Daemons \cup {NoOne}
    /\ dpc \in [Daemons -> DaemonPc] /\ saw \in [Daemons -> Daemons \cup {NoOne, Junk}]
    /\ tries \in [Daemons -> 0 .. MaxTries] /\ idle \in [Daemons -> BOOLEAN]
    /\ awaiting \in [Daemons -> SUBSET Launchers]
    /\ clients \in [Daemons -> SUBSET Launchers]
    /\ told \subseteq Launchers /\ deaf \subseteq Launchers
    /\ lpc \in [Launchers -> LauncherPc] /\ polls \in [Launchers -> 0 .. MaxPolls]
    /\ peer \in [Launchers -> Daemons \cup {NoOne}] /\ open \in [Launchers -> BOOLEAN]
    /\ kills \in 0 .. MaxKills /\ raced \in BOOLEAN

(* daemon.ts:120-124, 403-411: the lock lets one daemon through ("two      *)
(* daemons (two watchers, two writers)" otherwise), in every interleaving  *)
(* of starts, stops and kills but one: a candidate that unlinks after      *)
(* another has cleared and taken the lock it re-read.                      *)
OneDaemonUnlessRaced == raced \/ \A d, e \in Owners : d = e

(* daemon.ts:291-304: the reference count never forgets a live client: a   *)
(* launcher that is served through a daemon is one of its connections.     *)
LiveClientsAreCounted ==
    \A l \in Launchers :
        lpc[l] = "daemon" => l \in awaiting[peer[l]] \cup clients[peer[l]]

(* index.ts:243-244: "a misbehaving daemon must never block a session from *)
(* starting".                                                              *)
NobodyWaits == \A l \in Launchers : lpc[l] \notin {"probe", "poll"}

(* daemon.ts:60-67, 317-328: a daemon does not outlive its clients, even   *)
(* when a close is never signalled or a session was built on a dead        *)
(* socket.  What it does not survive is a lossy connection whose session   *)
(* was added after stop had begun.                                         *)
Stuck(d) == dpc[d] = "stopping" /\ clients[d] \cap Lossy # {}
DaemonsEnd ==
    (\A l \in Launchers : lpc[l] = "dead")
        ~> \A d \in Daemons : dpc[d] \in {"unborn", "gone"} \/ Stuck(d)
=============================================================================
