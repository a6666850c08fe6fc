# A verification development for devrouter

devrouter answers an agent's questions about a code base. Each agent
connection is one Go process that speaks MCP over stdio (`cmd/router`,
`internal/mcp`); all processes share one Redis. The directory `codegraph/` is a
TypeScript program of its own: an engine that parses a repository into a SQLite
graph of symbols, keeps it in step with the files and answers MCP clients
(`codegraph/src`), and an HTTP sidecar that answers the Go process from the same
databases (`codegraph/lib`). An `embedder/` service computes the embeddings, and
external MCP servers can be plugged in as extra sources.

Requests are serial inside a Go process. What runs concurrently there is: the other
processes, the dashboard goroutine of a process, the goroutines of one
request (memory search beside repeat detection, the fan-out to external
sources), and reader goroutines that a timed-out external call leaves behind.
In codegraph it is: the launchers and daemons of one project, the event loop of
each with its timers and promises, the file system under them, parse worker
threads, and the commands a user runs beside a server.

Paths below are relative to the repository, `internal/` unless they say
otherwise.

## Inventory

| Component | State | Operations | Interacts through | What is hard | What makes it correct |
|---|---|---|---|---|---|
| Profile bandit `heuristics/bandit.go` | one experiment per (intent, repository, topic), in memory | Select, Update (promote, discard, rollback), ResetIntent | profiles in Redis, rewards from feedback | the process's memory and Redis change in separate steps; other processes tune the same keys; commands fail | experiments run against the live profile, always end, and only a proven candidate is promoted |
| Picker and profile store `heuristics/picker.go`, `store.go` | live profile per surface, frozen default, history, traces, reward rows | PickWithTopic, Reset, Stats, CurrentProfile(For), EnsureDefault, ... | Redis keys | lazy seeding is a read followed by several writes | the default is written once; the live profile is never lost |
| Topic registry `heuristics/topics.go` | a Redis hash of centroids per (intent, repository) | Resolve, Samples, List | read whole, written by field | the lock is per process, the hash is shared | the cap, sample counts that queries earned, a fallback on failure |
| Source breadth bandit `heuristics/sourcebandit.go` | one experiment per bucket over all sources | SelectAll, Update | explore record of the trace | a reward must find the cell that was explored | as the profile bandit |
| Repeat detector, last-call ring `heuristics/repeat.go`, `lru.go` | recent queries per repository; a ring | DetectRepeat, RecordQuery, Push, MostRecent | feedback join | implicit and explicit reward of one query | a query is credited to what served it |
| Feedback pipeline `router/feedback.go` | none of its own | SubmitFeedback, ResetHeuristics | traces, bandits, anchors, false positives, overlays | several best-effort writes in a row | the reward goes to the profile and bucket of its query |
| Query pipeline `router/router.go` | none across requests | HandleQueryWithPlan | everything | order of topic, profile, repeat and trace steps | the trace tells what was served |
| External transports `mcpsource/transport.go` | subprocess, request ids, handshake flag; HTTP session id | call, listTools | pipes, HTTP | late answers, timeouts, dead or hung servers | every call returns its own answer or an error, in time |
| Source fan-out `router/source_adapters.go` | none | fetchDocSources | transports | fork and join under deadlines | one slow source delays nobody beyond its timeout |
| Memory store `memory/store.go`, `populate.go` | memories, decisions, flow overlays | SaveFile/Func/Flow/Decision, SupersedeDecision, UpdateFlowOverlay | Redis | check then write; two-key updates | an agent's memory is not overwritten by an automatic one |
| False positives `memory/falsepositives.go` | centroid and count per memory | RecordFalsePositive | Redis | read, modify, write | bounded penalty |
| Anchor learner `anchorlearn/` | fire and success counters, observations, discovered suffixes | Decide, RecordObservation, RewardFeedback, RewardMemorySave | Redis | the join of a save to recent observations | successes are credited to anchors that were injected |
| Cross-repository loader `crossrepo/` | a cached snapshot of registry.json | Load | the sidecar's file | the file changes under the snapshot | a repository is found under its name |
| Codegraph daemon and launcher `codegraph/src/mcp/daemon*.ts`, `index.ts` | a pid lockfile, a socket, the connections and timers of a daemon | start or attach, arbitrate, hello, sweep, idle stop | file system, sockets, signals | stale locks judged by several at once, sockets whose close is never signalled, kills | one daemon per project; it serves while anyone uses it and then ends |
| MCP proxy `mcp/proxy.ts`, `session.ts`, `transport.ts` | buffered lines, requests in flight, suppressed replies | route, relay, fall back to an engine of its own | stdin and stdout of the host, the daemon's socket | the daemon comes late, never, or goes away in the middle | each request is answered once |
| MCP engine and tools `mcp/engine.ts`, `tools.ts` | one open index, the promise that opens it, the catch-up gate | open, adopt, retry, roots negotiation, tool calls, stop | sessions of a daemon, the watcher | many callers around one asynchronous open, failures, stop in the middle | one handle; the call that takes the gate down waits for the catch-up sync |
| Index synchronisation `sync/watcher.ts`, `extraction/index.ts`, `utils.ts` | pending files, debounce timer, the file lock | events, flush, sync, index, catch-up | file system, another process's index run | edits during a sync, directories not yet watched, torn reads, stale locks | what is stale is shown as stale and catches up |
| Parse worker pool `extraction/index.ts`, `parse-worker.ts` | the worker, its pending parses, the retry lists | request, recycle, time out, crash, retry | worker threads | late exits of workers that were replaced | every file that parses is indexed from its own text |
| Index database `db/`, with `resolution/index.ts` | files, nodes, edges, unresolved references, a row cache | store, delete, resolve in batches, resolve chains | sync and index runs of two processes | cascades, batches cut by a crash, caches of another process | edges follow what the files say; no reference is lost unaccounted |
| Source extraction `extraction/tree-sitter.ts` | the stack of enclosing symbols | the walk of one syntax tree | the database | push and pop on every path | symbols nest as the text does; each call is found once |
| Reference resolution `resolution/` | name caches, import maps | resolveOne, chains | the database | pre-filter and strategies that must agree; cyclic barrels | imports lead where the exports lead |
| Callback synthesis `resolution/callback-synthesizer.ts` | none | one pass per kind of dynamic call | the database | caps, names that collide across files | registered functions are reached |
| Graph traversal `graph/` | none | walks, callers, impact, paths, hierarchies, cycles, dead code | the database | cycles and depth limits | answers are the nodes the relation reaches |
| Symbol search `db/queries.ts`, `search/` | none | parse, full text, substring, fuzzy, score, filter | the database | limits before filters and scores | an exact hit is found and comes first |
| Installer `installer/`, `sync/git-hooks.ts` | configuration files of eight agents | install, uninstall, upgrade | files the user edits too | order of runs, files shared by agents, documents that do not parse | the user's own settings survive; a run has its effect |
| Codegraph sidecar `codegraph/lib` | registry.json, open databases | index, open, the routes | the Go client, other indexers | whole-file rewrites, torn reads | a registered repository is found; replies hold in its graph |
| Dashboard, prompt builder, telemetry, embedder, MCP loop, CLI of the router | — | read-only or stateless | | | |
| Context builder, other language extractors, framework resolvers, command line of codegraph | — | text, tables and scoring without shared state | | | |

`PROJECT.json` repeats this list with a status per component, and lists under
`hazards` what can go wrong in each, at its line.

## Modules

| Module | What it is |
|---|---|
| `TunedProfile` | what the documentation promises about the intent-global profile: seeded once, then moved one dial step at a time or put back to the frozen default |
| `ProfileBandit` | the profile bandit, the picker and the profile store: processes and dashboard threads around Redis |
| `MCProfileBandit` | values for its constants: three profiles on one dial; what a run that does not ask for the history sees of a state |
| `StdioTransport` | the stdio MCP transport with its leftover reader goroutines; the subprocess is its environment |
| `TopicRegistry`, `MCTopicRegistry` | the topic hash, read and written by racing processes; its symmetry set |
| `MemoryStore` | memories, decisions, overlays, false positives and the schema migration of starting processes |
| `FeedbackLoop` | repeats, `dev_feedback` and the source breadth bandit: how a reward finds what served its query |
| `AnchorLearner` | entry points: what is given, what is counted, what is discovered |
| `McpDaemon` | launchers, daemons, lockfile and socket of one project |
| `McpProxy` | one MCP host, the proxy, and the daemon's session behind a socket |
| `McpEngine` | the shared engine under the sessions and tool calls of one process |
| `IndexSync` | watcher, syncs and index runs of two processes over the files they follow |
| `FileLock` | the lock file that keeps index runs apart |
| `ParsePool` | the parse worker of a full index |
| `CodeIndex` | the database under two writers, with a reading server's row cache |
| `Extraction` | the walk of a syntax tree into symbols and references |
| `ImportText`, `Imports` | what import statements bind; resolution through them |
| `NameMatch`, `Resolver` | resolution by names; the strategies in their order |
| `Synthesis` | edges for dynamic dispatch |
| `BreadthFirst` | the two breadth-first loops over the graph, step by step |
| `Traversal`, `Search` | the other questions about the graph; finding symbols by name |
| `Installer` | configuration files of the agents under install and uninstall |
| `SidecarRegistry`, `SidecarQueries` | the sidecar's registry and connections; the routes it serves |
| `IndexScenes`, `QueryScenes` | the small projects, graphs and tables that the computing modules are checked on, with what is expected of each |
| `MCRouterState` | the topics, memories, rewards and entry points that devrouter processes keep in one Redis, side by side |
| `MCCodegraphService` | the six long-running parts of codegraph side by side, with the fairness of each |
| `MCCodegraphIndex` | the computing parts of codegraph side by side |
| `ProfileBandit_proofs`, `StdioTransport_proofs` | theorems about the module each is named after |
| `CodegraphIndex_proofs` | theorems about `CodeIndex`, `BreadthFirst` and `SidecarRegistry` |
| `RouterState_proofs` | theorems about `MemoryStore`, `FeedbackLoop`, `AnchorLearner` |
| `McpServer_proofs` | theorems about `McpDaemon`, `McpProxy` and `McpEngine` |
| `IndexSync_proofs` | theorems about `IndexSync`, `ParsePool` and `FileLock` |
| `MCRouterState_proofs` | theorems about `TopicRegistry` and about the composition `MCRouterState` |
| `MCCodegraphService_proofs` | theorems about the composition `MCCodegraphService` |

The three composing modules have a variable `part` that says which component a
behaviour is of; the others keep their initial state. A run over them asks
the same of each component as a run of its own would.

### ProfileBandit

One intent, one repository. A *surface* is the intent-global profile
(`Global`) or the bucket of a topic. `current`, `deflt`, `audit` are the
Redis keys `heuristics:current`, `heuristics:default` and the newest entry of
the history; `samples` is the sample count of each topic in the registry;
`served` is what feedback can refer to, the (bucket, profile) of each live
trace. `active[p]` is `Bandit.active` of process `p`, an experiment per
bucket with its samples kept as count and sum, so that
`mean(rewards) > mean(base) + PromotionLift` becomes a product. `job[t]` is where thread `t` stands.

One step is one Redis command with the in-memory work up to the next command.
Requests of a process are serial (`mcp/server.go:62-108`), so a process has
one `job`; a dashboard goroutine calls only `Picker.Stats`, which takes no
`Picker` lock, so it is a thread of its own. A query runs
`QueryTopic` (or `QueryGlobal`), `ReadSamples`, the reads and seeding writes of
`CurrentProfileFor` (`GetHit`, `GetMiss`, `GetGlobal`, `Seed`, `DefaultExists`,
`DefaultMissing`, `FreezeDefault`, `FillBucket`), and `Select` with the trace,
which need no further Redis reply and so belong to the last of them.
`Feedback` is `SubmitFeedback` or the implicit repeat up to
`Bandit.Update`'s verdict, and the writes of the verdict are `Promote`, `RollbackGet`,
`RollbackSet`, `Log`. `Restart` ends a process at any point and starts
another one, which warms the defaults.

`Faults` selects what may go wrong: `"error"` a command that fails without
effect, `"ambiguous"` one that takes effect but whose reply is lost,
`"crash"` a process that ends. An experiment whose promotion was not confirmed is marked `unsaved`: its slot
stays, with its full window, until a later feedback promotes it again (`bandit.go:323-333`). Rewards are inputs: the raw score, the rolling
mean and the weight, in tenths (weights in halves, so a mean is compared in
units of 1/20 and `PromotionLift = 1` is 0.05). The sample count of a topic is that of
one process's `Resolve`; races between processes on the registry are the
subject of `TopicRegistry`.

### StdioTransport

The caller holds the transport's mutex for a whole call, and each source is
called once per request, so there is one `call` at a time. Its deadline is
the context of `fetchDocSources`; `Expire` is the timer, `GiveUp` the
`ctx.Done()` branch. `readers` are the reader goroutines by the id of their request: `GiveUp` leaves
them running. They share one `bufio.Reader` without a lock, a data race: a
line may reach one of them, several, or none (`ReadLine` chooses the set), and the race
may leave the buffer's indices inconsistent (`Panic`). `stdin` and `stdout`
are the pipes with finite room. The subprocess (`Server...`) reads in order, answers each
request at most once, in any order and as late as it likes, sends notifications of
its own, hangs or dies. `abandoned` is a history variable for the properties.

### TopicRegistry

`Load` is the `HGETALL` with everything `Resolve` computes from it, `Persist`
the `HSET`; between them any other process can act. Embeddings are points on
a line and similarity is nearness, which keeps what `Resolve` distinguishes: the
best match, whether it is close enough, the running mean of a centroid.
Labels are left out. `asked` is a history variable: the queries each id has answered.

### MemoryStore

One step is one Redis command or pipeline of one process. `task[p]` is where the process
stands: down, starting (`ReadVersion`, `Wipe`, `DropIndex`, `LookForIndex`, `CreateIndex`,
`StampVersion`), serving, or between two commands of an operation: an automatic save
between its check and its write, a decision between its save and the look for
conflicts, a supersession between its two writes, a false positive between its read and its
write. The two reads and the pipeline of an overlay's update are one step. `memories` keeps who wrote each memory, `decisions` the fields that status and
links are in, `overlay` and `flagged` the counts. `saved`, `overtaken`, `doomed`, `unread`,
`revived`, `notice`, `complaints` and `cut` are history variables; the properties use them to name the cases in which the code does
lose something. Texts, embeddings, text hashes and commit hashes are left out, so a
memory is never stale here.

### FeedbackLoop

A process handles one call at a time: a query (`DetectRepeat`, then the draw of an arm for each source, the
trace, and the two records of the query) or a feedback (the read of the trace or of the last call, the patch of the trace, the
reward row, the update of the experiments and the writes of their verdicts). `Served` has what a query may be
served, as triples: the bucket its trace names, the profile, and the surface the profile is that of, which for a cold
bucket is the intent-global one.
`recent` is the sorted set of recent queries within the look-back window, `traces` the trace hashes, `breadths` and
`frozen` the source bandit's keys, `trials` its experiments in memory. What the mean of an
experiment's rewards is compared with is a choice, as the arithmetic is that of `ProfileBandit`;
windows, strikes, the bounds of `Clip` and the widening of the winner are kept. `posed`, `shown`, `samples`,
`repeats` and `joins` are history variables: what each query was served from,
and which query each feedback named and credited.

### AnchorLearner

`firings`, `wins` and `affinity` are the counters in Redis, in two scopes where the code has two;
successes are kept in halves, because implicit credit is 0.5 and the code reads the sum back as an integer.
`ring` is the process's list of recent queries, `observations` the hash a feedback joins.
`Decide` ranks as `Learner.Decide` does, by score with ties by id, with a share of exploration; which files exist is the constant
`Present`. After the learner's choice comes the probe for the controller of a noun in the query (`FirstController`):
of the first service that has one, appended as a candidate of the pattern `Controller` whose file is that of the suffix
`Noun`. A pattern is discovered in three commands (`AddDiscovered`, `SeedFiring`, `SeedWin`) after the check that it is
not known, and other processes may come between them. `decided`,
`credited`, `stored` and `uncounted` are history variables.

### McpDaemon, McpProxy, McpEngine

`McpDaemon`: `lock` is the pid lockfile (`NoOne`, `Junk` for contents that do not
parse, or a daemon), `sock` the daemon bound to the socket, `dpc` and `lpc` where
each daemon and launcher stands. Every file system call that another process can
come between is a step: reading the lock, unlinking a stale one, exclusive
creation, listen, and the releases at the end. A connection is counted until its
close is signalled; clients in `Lossy` never signal theirs, so that only the sweep
or the inactivity backstop notice that they are gone. `Outdated` launchers send
a hello of another version. `raced` is a history variable: a daemon that starts has unlinked a
lock that is not the one it judged stale.

`McpProxy`: one step is one run of an event handler up to its next await: a line
of the host is routed (`RouteLine`), buffered lines are drained when the daemon
is ready or given up (`DaemonReady`, `DaemonUnavailable`, `Drain`), a line of the
daemon is relayed or suppressed, and the loss of the daemon answers what is in
flight with an error and moves to the local engine. `asked` and
`answers` count, per request, what the host sent and got.

`McpEngine`: what runs between two awaits is a step. `opening` is the promise of the
open that is under way, `handles` the open handles, `catchUp` and `gate` the promise of the
catch-up sync and whether a call may still take it; sessions greet, ask for roots and
wait; calls go through `Resolved`, `TakeGate`, `PassGate`, `Execute`. `TakeGate` takes the gate down and waits;
a call that finds it down goes on, whether the sync has ended or not (disagreements, below).

### IndexSync, FileLock, ParsePool

`IndexSync`: a file's content is the number of the edit that wrote it, which is
also its size and modification time; `disk` is what is there, `rows` what the index
holds (content and stamp apart, as a file is read before it is stat'ed), `pendingFiles` the
pending set of the watcher. Deletions, files in directories not yet
watched, torn reads, crashes between a file's rows and
its record, and a second process's `sync` or `index` under the lock are steps. A directory beyond the cap on
watches, or whose `fs.watch` failed, is `refused`: its files are not marked and get no events. What changes there, or
behind a watch that has died, is `blind` until a sync reads the file. `torn`, `blind`, `crashed` and `skipped` are history
variables that expire: with the next record or write of the file, or with the server's next sync.
`FileLock` splits `acquire` into the check, the unlink, the exclusive creation and the write of the
pid; `slow` records that a lock was taken from a holder that had worked for more than two minutes,
`snatched` that a fresh lock was unlinked, by a look at it before its pid was written or after
it had changed hands.
`ParsePool` has one request at a time, each with a ticket; workers that were
replaced may end late and reject the request of their successor, which then parses on: the next file that it is sent
waits behind (`wjobs`), and may time out, which is not retried. A worker ends by `'exit'`, which is, or by
`'error'` (state `dead`), which is not (`Fails`). `hits` counts the rejections of a file that another worker's end caused,
`cost` the file that timed out behind a slow one, `losses` the workers lost before they had loaded their grammars.

### CodeIndex

A symbol is `<<file, name>>`, a content is what it declares and what it uses. The server
and the command line are the two writers; each stores a file (delete, cascade, insert), then resolves references in batches. A
listed file that cannot be read when its turn comes keeps its rows (`RowsStay`). `missed`, `cut`, `forgotten`, `barren` are history variables for the ways in
which the code lets go of a reference: looked up while no symbol had its name,
turned into an edge that went with its target's file, deferred by a process
that died, left behind a batch that resolved nothing. `foreign` says that
another process than the reading server has written.

### Extraction, ImportText, Imports, NameMatch, Resolver, Synthesis

Pure computations, written as operators over small data: syntax trees whose
node types are reduced to the roles the walk tells apart, import statements as
records, paths as sequences of names, texts as one fact per place where a regular expression of the
code matches. `IndexScenes` holds the small projects, and the properties
state what a reader of the graph relies on, by a definition of its own wherever
there is one (what encloses a symbol by the text's nesting; what an import leads to by the
transitive closure of exports; who may be called by name at all).

### BreadthFirst, Traversal, Search, SidecarQueries, SidecarRegistry, Installer

`BreadthFirst` is `traverseBFS` and `findPath` as one loop over a queue, as they differ in what ends it only. What waits
in `queue` is a *trail*, the nodes and edges on the way from the start: `findPath` keeps all of it, `traverseBFS` its
last node, its last edge and its length, which is the depth. `Visit` takes a trail off whose node is
not visited, `SkipVisited` one whose node is, `FindIt` the one that leads to the node that is
sought; `Follow` follows one edge of the node in hand. `by` is the set of visited nodes with the trail each was visited by,
`listed` the nodes of a traversal's answer. The order of rows of equal priority is a choice. `WalksAreExact`
compares with chains of edges (`Reaches`).

`Traversal` follows the code's recursions (depth-first, callers and callees, impact, hierarchies, cycles), and is compared with
reachability over the edge relation on all graphs of `QueryScenes`. `Search`
keeps the order of limits, filters and scores; BM25 is a number per
row. `SidecarQueries` are the routes over small graphs;
`SidecarRegistry` has the read and the write of `registry.json` by racing
indexers as separate steps, a reader that may see half a file, and the
connection pool. A registry is a function from names to directories: `loadRegistry` and `upsertEntry` go through a map
by name, so a file that they wrote has one row for each name. `registered`, `unseen` and `overlooked`
are history variables: the directories each name was indexed at, the names whose latest entry the upsert in hand does not
know, because it was written after its read or the read found half a file, and the names whose entry an
upsert or its death inside the write has thus removed. `Installer` has one agent of a run per step; a configuration file is a
function from keys or a sequence of lines, and the user may edit between runs.

## Runs

| Run | What it asks | Instance |
|---|---|---|
| `bandit_one` | does an experiment always run against the live profile (`BaseIsLive`), and does the intent-global profile refine `TunedProfile` (`TunedSpec`)? | one process, one topic bucket and the global surface, errors and crashes |
| `bandit_many` | do strikes and full windows end experiments (`ExperimentsEndOnTime`), and is every change of a live profile earned (`LiveMovesAreEarned`), when processes race? | two interchangeable processes, one surface, lost replies and crashes; a `VIEW` leaves out the history |
| `bandit_live` | is the history in step with what is live (`AuditMatchesLive`), is the frozen default there (`FrozenDefaultExists`), does every experiment come to a verdict (`ExperimentConcludes`)? | one process and its dashboard, no failures, fair |
| `bandit_rollback` | *violated*: is a rollback triggered by raw scores below 0.30? | thresholds of the code: 20 samples, 5 base samples, 3 strikes |
| `stdio` | whose answer does a call return (`AnswerIsOwn`), is the handshake in order (`HandshakeFirst`), who is left reading (`LeftoversTimedOut`), do calls and readers end (`CallReturnsUnlessPipeFull`, `ReadersEnd`)? | five requests, pipes of two messages, all faults, fair |
| `stdio_hung` | *violated*: does the timeout bound every call? | six requests, a subprocess that stops reading, fair |
| `stdio_swallowed` | *violated*: does an answer that was read reach its call? | four requests, no faults |
| `topics` | what do processes keep in one Redis: do the cap and the sample counts of topics survive races (`TopicsAreSound`), do memories survive what automatic saves, migrations and crashes do (`MemoriesAreKept`), are rewards and experiments those of the query that earned them (`RewardsFindTheirQuery`), and anchors credited with what was given (`AnchorsAreEarned`)? | two interchangeable processes. Topics: two of them, three embeddings, failing reads and writes. Memories: two files and a flow, two decisions, five operations, one failure or crash. Rewards: two surfaces, one source, two queries, two feedbacks, one failure. Entry points: one service with four suffixes, one of them controllers, two queries, two signals, one failure |
| `topics_load` | *violated*: does a failed read fall back to the intent-global topic? | one process |
| `reward_bucket` | *violated*: is the bucket whose profile served a query the one that is credited? | as `topics`, and a bucket that is cold |
| `codegraph_service` | is there one daemon (`OneDaemonUnlessRaced`) that keeps the clients it has (`LiveClientsAreCounted`); is a request answered once (`AnsweredOnce`), the project opened once (`OpenedOnce`), what is stale shown as stale (`StaleIsFlagged`), the index lock exclusive (`LockExcludes`), each file indexed, from its own text (`FilesAreIndexed`); do daemons end, the index catch up, all work end (`DaemonsEnd`, `IndexCatchesUp`, `WorkEnds`)? | 2 daemons, 2 launchers (one outdated, one with lossy sockets), 1 kill; 2 sessions with 2 calls each, 2 failures; 2 files, 3 edits; 2 lock holders, 1 death; 4 source files, 2 workers, 1 loss |
| `codegraph_index` | do edges follow the files (`EdgesAreCurrent`), are references kept (`ReferencesAreKept`); is extraction faithful, resolution sound, are registered functions reached, do answers fit the graph, is an exact hit found, do users keep their settings, does the registry lead to what was indexed (`RegisteredReposAreFound`)? | 2 paths with 4 texts each, batches of 1; the scenes; trails of up to 3 edges; 2 runs of the installer; 2 indexers with 2 names and 2 roots |

Every property of a passing run is also tried against a plausible bug: a mutant
operator beside the definition it stands for (`...Mutant:` comments), which
makes that property fail.

**Bounds.** Three profiles on one dial are enough for a candidate above and
below a base and for two promotions in a row; `PromotionWindow = 2` and
`MinBaseSamples = 1` make a window that is partly full, full, and full with a
short base; two strikes distinguish the first strike from the last.
`MaxCandidate`, `MaxBase` bound the samples of an experiment, `MaxTraces` the
traces alive when a query starts, `MaxActive` the experiments of a process at a
time. `MaxId`, `PipeRoom`, `LineRoom` allow two calls to time out and a third
to meet both leftovers, and a pipe to fill; that takes a queue of two requests
before the pipe blocks. `MaxTopics = 2` with three embeddings that are
pairwise too far apart forces evictions; `MaxQueries = 4`, `MaxClock = 2`
let an evicted topic be absorbed into and compared by age.

Five tasks (`MaxTasks`) are two starts and three operations, or a start, a save and a restart
beside an automatic save; `MaxMishaps = 1` is one command that fails or one crash, placed
anywhere. Two queries and two feedbacks (`MaxPosed`, `MaxReports`) are enough for a repeat
that is credited twice and a feedback without an id that follows a query of another process. Documents
between 2 and 3, seeded with 2, make both caps bind; `TrialWindow = 1` with two
strikes makes a first sample end an experiment and a second strike roll it back. `RepeatMaxEntries = 2` is a
full history. `RingSize = 1` drops the first of two queries, `MinFires = 2` lies between the
firings of one query and of two, and `MaxAnchors = 2` of three patterns that can be discovered or are static leaves one to explore;
the fourth suffix is the pattern of controllers, which makes three anchors where two are the learner's. `Bounded` keeps
two rewards together with a failure to behaviours of one process; two processes meet in the rest.

In codegraph, two daemons and two launchers meet in every order at the lock, and
`MaxTries = 2` lets a daemon take over a stale lock and try again. `MaxPolls = 0`
drops the launcher's waiting loop, which only delays the fallback. Two sessions with two calls
reach every pair of callers around one open; `MaxFailures = 2` is a failed open and a failed
retry. Three edits are one before, one during and one after a sync. Two plain files, a slow one and a
verbose one (parsed only with its comments stripped) with two workers make a replaced worker end late beside its
successor, reject what that has in hand, and a plain file queue behind it. Four texts per path, batches of one reference
and three jobs make batches that resolve nothing between batches that do. The graphs have at most four
nodes, so a shortest way has at most three edges and `TrailBound = 3` compares with all of them. Where a
limit of the code is too large to reach it is a parameter with a smaller value: `DominantEdges` is 2 instead
of 20, `FtsFloor` (the least number of full-text rows fetched) 3 instead of 100, the caps of synthesis are 3, 3, 2, 2. The cap on
callbacks per channel is never reached. No deadlock is checked because each bound
stops the model where the code goes on.

**Fairness.** `bandit_live`: a process goes on with a request it has begun
(weak fairness of its reads and writes); agents keep asking and keep sending feedback for both
arms, and the draw `rng.Float64() < Epsilon` lands on either side again and
again (strong fairness, as the probability is fixed). No fairness is assumed of
`Reset`, `Stats`, crashes. `stdio`: timers fire, goroutines that can run do run,
and a subprocess that has not stopped reads its input; it need not answer.
`codegraph_service`, per part: processes that are not killed run, and timers (sweep, idle, backstop) fire;
the close of a socket is signalled except for lossy clients (`FairDaemon`). The
connection attempt ends one way or the other, as it has a timeout, and event loops run
(`FairProxy`). Promises settle, the roots request because it has a timeout
(`FairEngine`). The file system delivers the events of watched directories, debounce
timers fire, and a job that was begun is worked on (`FairSync`); a worker answers, crashes
or is timed out (`FairPool`). Nothing is assumed of hosts, users, kills, edits or failures.

## Disagreements the runs show

1. `bandit_rollback` — strikes are counted on the adjusted reward
   (`heuristics/bandit.go:216`), while `docs/heuristics.md:139` and the comments
   at `bandit.go:62`, `128` speak of raw rewards. Once the rolling mean is
   high, three good calls roll the intent back.
2. `stdio_hung` — the write of a request does not know the deadline;
   `router/router.go:66-68` promises that a hung server "can never stall" a response.
   `CallReturnsUnlessPipeFull` is what does hold.
3. `stdio_swallowed` — a timed-out call's reader goroutine stays and eats the
   next answer; `mcpsource/transport.go:530-532` says stdin is closed on timeout.
4. `topics_load` — `loadBucket` tests for an empty result before it tests for an
   error (`heuristics/topics.go:320`), so "any Redis failure" does not fall
   back as `topics.go:137-139` says.
5. `reward_bucket` — a query of a cold topic is served the intent-global profile, and its reward goes to the topic
   bucket (`heuristics/picker.go:171-186`); `docs/heuristics.md:219-222`, `router/feedback.go:143-146` and
   `router/router.go:644-647` say that it goes to "the exact bucket whose profile served". `router.go:546-563` says that a cold
   bucket is credited to warm it up. `RewardsFindTheirQuery` is what does hold: the bucket and profile are those of the trace.

Reading the code for the model showed more, for which there is no run:

- A reset puts back the intent-global profile only. A topic's bucket that has a profile keeps it, and its key has no TTL;
  `heuristics/bandit.go:241-242` says buckets "auto-seed from the (now-default) intent-global on next read",
  `docs/heuristics.md:189-190` that the keys of an evicted topic "age out via their own TTL or get cleared via `dev_heuristics_reset`".
- A process that has read no live profile may store its seed after another process has promoted (`heuristics/store.go:81`), and `promote` does not
  look at what is live (`heuristics/bandit.go:321-326`). So two processes move the live profile by more than the
  "±1 step per try" of `docs/heuristics.md:59-60`. `LiveMovesAreEarned` excepts the late seed by name.
- An agent's memory is lost to an automatic one that was checked before and written after it, and to a wipe by a
  schema version that could not be read, though `memory/populate.go:22` says agent memories are kept.
- `router/router.go:3056` caps service anchors at three; with the controller probe (`3148-3177`) there are four.
- `execute` takes the catch-up gate down before it waits for it (`codegraph/src/mcp/tools.ts:998`), so a second call is served
  while the first waits; `tools.ts:994-997` and `mcp/engine.ts:234-239` say rows of files deleted or edited before the start
  are never served.
- `codegraph/src/sync/watcher.ts:563-570` prefers false positives, but files beyond the cap on watches, or whose directory
  could not be watched, are neither marked nor watched (`322-340`).
- The type hierarchy returns at once for the descendants of the node, which the walk over its ancestors has visited
  (`codegraph/src/graph/traversal.ts:374`), though `353-358` promises both.
- `codegraph/src/db/queries.ts:780-781` says that `kind:` and the caller's kinds are "applied intersection-style"; the code takes their union.
- Results are cut to the limit before `path:` and `name:` filters, so the surplus that is fetched for them is lost.
- `codegraph/src/installer/targets/toml.ts:10-11` and `57-58` keep everything outside our table verbatim; a `[[...]]` table behind it is cut
  with it. A YAML file whose list is a scalar loses that scalar.
- With `GITNEXUS_HOME` alone set and a registry in it, entries are written to `~/.codegraph` and read
  elsewhere (`codegraph/lib/registry.js:32-53`), against `docs/codegraph.md:162` and `231-234`.

## Theorems

`ProfileBandit_proofs`, for any sets of processes, dashboards, buckets and
profiles, any thresholds, bounds and faults (`ConstantsAssumption` only):

- `TypeCorrect`: `Spec => []TypeOK`. `TypeOK` is inductive; its second
  conjunct, that a thread about to write carries a profile, is what makes it so.
- `ExperimentsAreEnded`: `Spec => []ExperimentsEndOnTime`.
- `MovesAreEarned`: `Spec => LiveMovesAreEarned`.
- `BaseStaysLive`: `Spec => []BaseIsLive` for one process without a
  dashboard whose failing commands have no effect. Its invariant
  `SoloInv` adds to `BaseIsLive` that what the process has read of a surface is
  what is there (`ReadsAreCurrent`), and `BasesAreLive` holds while a verdict is being written.
- `ProfilesAreTuned`: under the same assumptions `Spec => TunedSpec`, the refinement of `TunedProfile`;
  each step maps to a seed, a dial step, a return to the default, or a stutter.
- `HistoryTellsLive`: `Spec => []AuditMatchesLive` for one process without
  dashboard and failures; `RecordInv` says which profile a pending entry of the history is of.
- `DefaultsAreFrozen`: `Spec => []FrozenDefaultExists` for any processes and
  dashboards without failures; `ThreadSeeds` says that a thread between the two writes of a seed still carries the profile it will freeze.

`ExperimentsAreEnded` and `MovesAreEarned` rest on the inductive invariant `VerdictInv` (with `TypeOK`): a
process that is promoting holds, in the slot of that bucket, an experiment
with a full window that beat its base and has no third strike (without it
nothing is known about the profile a `Promote` step writes); slots with strikes
or a full window belong to a process that is concluding; and what a rollback or reset
carries is a default. `VerdictsStay` proves a step at a time, separating the
steps that leave slots and verdicts alone (`QuietStep`) from feedback and the verdict's own writes.

`StdioTransport_proofs`, for any pipe sizes, number of requests and faults:

- `TransportTypeCorrect`: `Spec => []TypeOK`.
- `AnswersAreOwn`: `Spec => []AnswerIsOwn`, `ReadersAreAccountedFor`:
  `Spec => []LeftoversTimedOut`, from their conjunction `ReadersInv`.
- `HandshakeComesFirst`: `Spec => []HandshakeFirst`, from `HandshakeInv`:
  the handshake flag is set exactly when the subprocess has been told, or the
  notification is in its input pipe, and every tool call in that pipe stands
  behind the notification. `AppendOrdered` and `TailOrdered` say that writing
  to and reading from the pipe keep that order.

`TypeInv` carries all three: `TypeOK`, room for the next request id
(a call starts only while ids are left, which the increment needs), and that a
call has an id and a result only in the phases that give it one.

`MCRouterState_proofs`, about `TopicRegistry` for any processes, embeddings, radius, cap and faults:

- `RegistryTypeCorrect`: `Spec => []TypeOK`.
- `TopicsStayBelowCap`: `Spec => []CapHolds`.
- `SamplesComeFromQueries`: `Spec => []SamplesAreEarned`.
- `TopicsStaySound`: `Spec => []TopicsAreSound`, the two together as the run asks for them.

`CapHolds` looks at the hash only; `PendingKept` adds what a process is about
to write (an id below the cap, a count its own query makes true), and makes
the conjunction `RegistryInv` inductive. The step that matters is
`NextIdBelowCap`: a registry that is not full and keeps below the cap leaves a
free index below it, by counting, and `nextTopicID` finds the least one.

`McpServer_proofs`, about `McpDaemon` for any launchers, daemons, retries and kills:

- `OneDaemonAtATime`: `Spec => []OneDaemonUnlessRaced`, from `ArbitrationInv`:
  the lock names a daemon that has started (`HolderHasStarted`), what was judged stale is
  gone unless the race happened (`JudgedAreGone`), and a serving daemon holds the lock (`LockIsHeld`).
- `LiveClientsStayCounted`: `Spec => []LiveClientsAreCounted`, from `ServedAreCounted`.
- `DaemonTypeCorrect`.

Of `McpEngine`, for any sessions, calls and number of failures:
`ProjectIsOpenedOnce` (`[]OpenedOnce`) from `OneHandle`, `InitIsAwaited`, `OneStarter`, `CallersAreGreeted`;
`EngineTypeCorrect`.

Of `McpProxy`, for any sets of lines that are disjoint by kind (`LinesAssumption`):
`RequestsAreAnsweredOnce` (`[]AnsweredOnce`) from `PlacesInv`: a request is
in one place only (a buffer, in flight, with the local engine), and
`OwedAreUnanswered`: while it is in one it has no answer; `ProxyTypeCorrect`.

`CodegraphIndex_proofs`, about `CodeIndex` for any paths, texts, batch size and numbers of changes and jobs:
`EdgesStayCurrent` (`[]EdgesAreCurrent`) and `ReferencesStayKept` (`[]ReferencesAreKept`), from
`IndexInv`: the steps of a run are in order (`RunsAreInOrder`), a file's record is the content
its rows came from (`RecordsAreContents`), stored references are uses of it
(`ReferencesAreUses`), and edges start and end in rows that are there.

Of `BreadthFirst`, for any graphs, questions and orders of a node's edges (`WalkAssumption`): `WalksFindTheNearest`,
`SpecWalk => []WalksAreExact`, which is the conjunct of `AnswersFitTheGraph` about these walks. That a path found is
shortest, and that the depth limit cuts off nothing it should not, does not follow from any single step: the argument is
that the queue is sorted by depth and spans two depths at most (`QueueIsSorted`), and that each neighbour
of a visited node has been visited, waits no further than one edge on, or is about to be met (`NeighboursAreSettled`).
From that `NearIsVisited` shows that once everything that waits is more than `n` edges away, all that chains of up to `n`
edges lead to has been visited, by trails no longer than the chains: of the nodes missed take a nearest one, then
its predecessor was not missed, and it would have been settled with it. It is a least-element argument over
`Nat`, so it needs no induction over the graph. The node taken off is thus visited by a shortest trail (`HeadIsShortest`);
`OpenEdges`, `StartIsSettled`, `PathIsFound` and `ListIsKept` complete `WalkInv`.

Of `SidecarRegistry`, for any indexers, names, directories and number of runs: `RegistryFindsRepos`,
`SpecRegistry => []RegisteredReposAreFound`. The property speaks of what is read between upserts; `RegistryInv` must say
what an upsert carries from its read to its write: its copy has the latest entry of every name that is not
`unseen` of it or `overlooked` already, however upserts overlap and die (`LatestIsKnown`). Whatever is in a file, a copy or
an open handle was once written for its name (`FilesAreRegistered`, `ReadsAreRegistered`, `HandlesAreRegistered`).

`IndexSync_proofs`, about `IndexSync` for any files, edits and runs of the command line:

- `SyncTypes`: `SpecSync => []SyncTypeOK`.
- `StaleFilesAreFlagged`: `SpecSync => []StaleIsFlagged`, from `SyncInv`. A file that the
  watcher has flagged stays flagged until a sync has read it again, but a sync reads first and
  writes later, and another process may index in between. So the invariant speaks of what each process
  holds: its reads look back, at a content that was there no later than the present one (`ReadsLookBack`); rows are
  those of the record except between the two writes (`RowsMatchRecords`); and a file that the running flush
  has passed is fresh or has been noticed since (`SyncSettles`). Lock and job go together
  (`LockIsWithJob`), which is what keeps two processes from writing one file.

Of `ParsePool`, for any files and workers: `PoolTypes` and `ParsesAreOwnAndComplete`
(`SpecPool => []FilesAreIndexed`), from `PoolInv`: the ticket in hand belongs to the present worker only
(`TicketIsOwn`), so a late end of a replaced one cannot answer it; what else is queued was rejected
before (`QueuedWereHit`); and each plain file is stored, still to come, rejected once per pass, or lost in one of the two ways
that are not retried (`FilesAreTried`): an `error` event, or a timeout behind a slow file that had been rejected, of which there
is one for each such file.

Of `FileLock`, for any processes and deaths: `LockIsExclusive`
(`[]LockExcludes`) from `FileTells` (the file names who is inside) and
`JudgedAreDead` (whoever was judged is dead, unless it was slow or the lock changed hands); `LockTypeCorrect`.

`RouterState_proofs`, for any processes, failing commands and crashes:

- `MemoriesStayKept`: `SpecMemory => []MemoriesAreKept`, for any files, decisions and
  bound on operations. `MemoryInv` adds what a process carries between two
  commands (`TasksFit`: an automatic save that is about to write has no agent memory below it but an excused one, a count
  about to be written is no more than the complaints, a decision about to be linked is
  listed), that while a migration is due there is nothing to lose unless it was not due
  (`NothingToWipe`), and that links lead to listed decisions (`LinksAreListed`).
- `RewardsKeepFinding`: `SpecFeedback => []RewardsFindTheirQuery`, for any texts, buckets,
  profiles, sources and bounds of breadth. `FeedbackInv` says of every place that a reference to a query
  can be in (recent queries, traces, last calls, the call in hand, rewards) that it carries the
  bucket and profile that query was posed with (`Fits`), and of every experiment
  that it is one document from its base. That a sample is of what was served is asked of
  the trace's bucket and profile, whatever surface the profile is that of. The proofs of the steps are short
  once a longer log of queries is known to keep all of this (`FactsGoOn`).
- `AnchorsStayEarned`: `SpecAnchors => []AnchorsAreEarned`, for any services, suffixes, keywords and sizes.
  Three parts of `AnchorInv` are needed beside the property. A firing that is still to be counted belongs to one process only
  (`RecordersDiffer`), so that firings never outnumber the anchors given: they are at most the pairs of
  query and file that no process has pending (`FiringsAreSpent`, by counting). What is about to be rewarded has
  fired, as a process counts firings before it writes the observation that a feedback joins
  (`WorkFits`, `ObservationsFit`). And `BestAreFew`: `Ahead` is a strict order, by
  cross-multiplied scores and then by ids (`AheadIsAnOrder`), so that fewer than `k + 1` files have less than `k` ahead (`TopOfAnOrder`)
  and the best of a pool that is not empty are not none. The
  controller that the router adds comes on top (`AnchorsExist`: `MaxAnchors + 1` in all). `AnchorAssumption` takes `MaxAnchors` to be at
  least 2, where the code has 3: with one place, an exploration would leave no file that is known to exist.

The parts together, for any values of the constants of all of them:

- `ServiceIsItsParts` (`MCCodegraphService_proofs`): a behaviour of the service is one of each of its six parts,
  `SpecAll => Spec /\ SpecProxy /\ SpecEngine /\ SpecSync /\ SpecLock /\ SpecPool`. A step of one part leaves
  the variables of the others as they are (`StepsAreOfAPart`), so it is a stutter to them.
- `ServiceTypesHold` (`[]TypesOK`) and `ServiceIsSafe` (all seven safety invariants of the run
  `codegraph_service`) follow from it and the theorems of the parts.
- `StateStaysSound` (`MCRouterState_proofs`): `SpecAll => [](TypeOK /\ TopicsAreSound /\ MemoriesAreKept /\
  RewardsFindTheirQuery /\ AnchorsAreEarned)`. Here the parts share one variable, the count of
  mishaps, which a step of any of them may raise. So a behaviour is one of the part that `part` names (for the
  topics, of the registry's in any case), and the state of the others rests where it started,
  where their invariants hold (`AllStart`).

Only model-checked: the liveness properties (`ExperimentConcludes`,
`CallReturnsUnlessPipeFull`, `ReadersEnd`, `DaemonsEnd`, `IndexCatchesUp`,
`WorkEnds`: fairness is out of the proof system's reach), and what recursive operators and folds compute
(`ExtractionIsFaithful`, `ResolutionIsSound`, `DynamicCallsAreFollowed`, `AnswersFitTheGraph` but for `WalksAreExact`,
`SearchAnswers`, `InstallerKeepsFaith`), where the proof would be an induction over
data. For the same reason there is no theorem about the composition `MCCodegraphIndex`: it instantiates the
modules with recursive operators. Its parts do not share variables that both of them change, and `CodeIndex`,
`BreadthFirst` and `SidecarRegistry` are in it unchanged.

## What the properties leave open

The properties are true of the code as it is. Where the code falls short of what one
would wish, the property names the case (beside the disagreements above, which it names as well where it meets them):

- a stale lock that is judged by one daemon and replaced before it unlinks it lets a second
  daemon start (`raced` of `McpDaemon`); the index lock has the same gap (`snatched`), and is also
  taken from a holder that works for over two minutes (`slow`);
- a session whose socket never closes is dropped only by the sweep or the backstop;
- the proxy answers a host's reply to `roots/list` that comes after the daemon
  was lost with an error of its own;
- `doInitialize` does not look at `closed` again after its await, so a stopped engine may open once more;
- a batch of references in which nothing resolves ends the pass, and the rest wait for a later run (`barren`);
- a worker that dies before it has loaded its grammars leaves the index run waiting;
- the fuzzy search is behind a pre-filter that lets nothing through to it; a namespace re-export is not followed;
- a file whose directory the watcher refused is stale and unflagged until a sync reads it (`blind`); that `fs.watch` of the
  root itself fails is not modelled;
- a plain file that waits behind one that was given up may time out, and one whose worker ends by an
  `error` event is lost; neither is retried (`cost`, `hits`);
- two processes that find the same suffix unknown both add it and seed its counters twice;
- a node that a depth-first walk first reaches at its depth limit hides what a shorter way to it would reach;
- names that collide across files join what they should not in the synthesis of callbacks, and its caps cut in no scene;
- an agent's memory that is saved between an automatic save's check and its write is overwritten (`overtaken`), and so
  is one whose source could not be read (`unread`); a schema version that could not be
  read, or that another process is migrating, wipes all memories (`doomed`); a process that ends between dropping and creating an
  index leaves none until the next start (`cut`);
- a superseded decision that is saved again is active again, beside its successor (`revived`); while an
  index is filling, a conflict with what it does not list yet goes unnoticed (`unheard`);
- half a success counts as none where it is read back (`int` in `RedisStore.GetPatternStats`), so a
  discovered pattern that starts with 0.5 does not outrank an unproven static one; an anchor given for
  exploration need not exist, as it is drawn before the files are looked up;
- a trace that holds nothing but a repeat's reward makes an explicit feedback go nowhere, where a missing
  trace makes it fall back to the last call; the fallback credits the process's last query, whichever the agent meant; of more than
  thirty recent queries, repeats are looked for among the oldest thirty of the window;
- `__tests__` at the top of a repository is no test directory; a hook marker without its end is left alone;
- an entry of the sidecar's registry is lost when another command that did not know it writes (`overlooked`), until the next index of
  its repository; with `GITNEXUS_HOME` alone set the property says nothing of the registry, only of the open handles.

## Plan

1. *(done)* Profile bandit with its abstract specification; stdio transport; topic registry.
2. *(done)* Codegraph: daemon, proxy, engine, synchronisation, lock, workers, database,
   extraction, resolution, synthesis, traversal, search, installer, sidecar.
3. *(done)* Proofs: the profile bandit with one process, arbitration, lock, engine, proxy, database.
4. *(done)* Feedback pipeline: traces, the join by query id or by the last-call ring,
   explicit and implicit rewards of one query, the source breadth bandit and its explore record.
5. *(done)* Memory store: automatic and agent memories, decisions that supersede each
   other, flow overlays, false positives, the schema migration.
6. *(done)* Anchor learner: counters, discovery, the recent-query join.
7. The effects of one feedback as one handler, composed of `ProfileBandit`, `FeedbackLoop`,
   `AnchorLearner` and `MemoryStore`, which now each have their own part of it.
8. Source fan-out over transports, with the HTTP transport's session and `matchResponse`.
9. Cross-repository loader and linker; `reward.go`, `profile.go` and packing as pure modules.
10. *(done)* Proofs: staleness of `IndexSync`, own texts of `ParsePool`, the parts of `MCRouterState`, and
    the compositions `MCRouterState` and `MCCodegraphService` from their parts.
11. *(done)* Proofs of state machines inside the computing parts: the racing writers of `SidecarRegistry`, the
    breadth-first loops of the graph.
12. The other walks of `Traversal` as state machines of the same kind, the runs of `Installer`.

## Not modelled

The text that retrieval produces and its ranking, the search for memories with its freshness and
scope, the context builder of codegraph,
embeddings themselves, metrics, the dashboard's pages and the command lines:
stateless, third-party or about wording. The other languages' extractors and the
frameworks' resolvers of codegraph are tables of node types and patterns; `Extraction` and
`Resolver` take what they contribute as data. Schema migrations and statistics of
the database, git-based change detection and ignore rules of the scan, and the older byte-pipe
proxy are left out. `Close` of the stdio transport is called by no path of
the program. The reasons stand in `PROJECT.json` beside each component.
