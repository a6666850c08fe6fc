---------------------------- MODULE MemoryStore ----------------------------
(***************************************************************************)
(* What devrouter processes remember of one repository (internal/memory):  *)
(* file and function memories by path, one flow memory over all files,     *)
(* decisions, the flow's overlay and the false-positive counts, all in     *)
(* Redis; and how a starting process migrates them.  One step is one Redis *)
(* command or pipeline.  Texts, embeddings and commit hashes are left out. *)
(***************************************************************************)
EXTENDS RouterState

CONSTANTS
    Files,         \* files of the repository
    Paths,         \* those with a memory of their own
    Flow,          \* the key of the flow memory
    Names,         \* decisions; all of them overlap and differ in type
    MaxTasks       \* bound: operations and starts

ASSUME MemoryAssumption ==
    Paths \subseteq Files /\ Flow \notin Files /\ Nothing \notin Names /\ MaxTasks \in Nat

Keys == Paths \cup {Flow}
NoDecision == [status |-> "none", supersedes |-> Nothing, by |-> Nothing, listed |-> FALSE]

VARIABLES
    memories,      \* the source of mem:{repo}:file|func|flow:{key}; "" is no such key
    decisions,     \* mem:{repo}:decision:{name}; listed: the field mem_type is set
    overlay,       \* flow:overlay: of the flow
    flagged,       \* mem:fp:{key}, its count
    schema,        \* devrouter:schema_version
    index,         \* one of the RediSearch indexes: missing, filling, ready
    task,          \* what each process is doing
    tasks,
    saved,         \* history: keys an agent saved
    overtaken,     \* history: those saved between an automatic save's check and write
    doomed,        \* history: a wipe was due to a version that was not, or no longer, so
    unread,        \* history: keys whose source was not read by an automatic save
    revived,       \* history: decisions saved again after they were superseded
    notice,        \* history: what the last save of a decision said of conflicts
    complaints,    \* history: false positives reported for each key
    cut            \* history: a migration ended between dropping and creating

store == <<memories, decisions, overlay, flagged, schema, index>>
past == <<saved, overtaken, doomed, unread, revived, notice, complaints, cut>>
memoryVars == <<store, task, tasks, mishaps, past>>

Down == [at |-> "down"]
Serving == [at |-> "serving"]

InitMemory ==
    /\ memories = [k \in Keys |-> ""] /\ decisions = [d \in Names |-> NoDecision]
    /\ overlay = [useful |-> [f \in Files |-> 0], dead |-> [f \in Files |-> 0], total |-> 0]
    /\ flagged = [k \in Keys |-> 0]
    /\ schema \in {"older", "v6"} /\ index = "ready"
    /\ task = [p \in Servers |-> Down] /\ tasks = 0 /\ mishaps = 0
    /\ saved = {} /\ overtaken = {} /\ doomed = FALSE /\ unread = {} /\ revived = {}
    /\ notice = [d \in Names |-> "none"] /\ complaints = [k \in Keys |-> 0] /\ cut = FALSE

Begin == tasks < MaxTasks /\ tasks' = tasks + 1
Go(p, t) == task' = [task EXCEPT ![p] = t]
About(p, at) == task[p].at = at

-----------------------------------------------------------------------------
(* NewStore: ensureIndexes.                                                *)

(* A version that cannot be read is taken for an older one.                *)
ReadVersion(p) ==
    /\ About(p, "down") /\ Begin
    /\ \/ Go(p, [at |-> IF schema = "v6" THEN "look" ELSE "wipe", anew |-> schema # "v6"])
          /\ UNCHANGED mishaps
       \/ Fail /\ Go(p, [at |-> "wipe", anew |-> TRUE])
    /\ doomed' = (doomed \/ (schema = "v6" /\ mishaps' # mishaps))
    /\ UNCHANGED <<store, saved, overtaken, unread, revived, notice, complaints, cut>>

(* deleteKeysByPattern, which stops at the first SCAN that fails.  The     *)
(* pattern "mem:*:file:*" matches the false-positive keys as well.         *)
Wipe(p) ==
    /\ About(p, "wipe") /\ Go(p, [task[p] EXCEPT !.at = "drop"])
    /\ \E left \in SUBSET (Keys \cup Names) :
           /\ IF left = {} THEN UNCHANGED mishaps ELSE Fail
           /\ memories' = [k \in Keys |-> IF k \in left THEN memories[k] ELSE ""]
           /\ flagged' = [k \in Keys |-> IF k \in left THEN flagged[k] ELSE 0]
           /\ decisions' = [d \in Names |-> IF d \in left THEN decisions[d] ELSE NoDecision]
    /\ UNCHANGED <<overlay, schema, index, tasks, past>>

DropIndex(p) ==
    /\ About(p, "drop") /\ Go(p, [task[p] EXCEPT !.at = "look"])
    /\ index' = "missing"
    /\ UNCHANGED <<memories, decisions, overlay, flagged, schema, tasks, mishaps, past>>

Exists == index # "missing"

(* FT.INFO: an index that is there is kept.                                *)
LookForIndex(p) ==
    /\ About(p, "look")
    /\ \/ Exists /\ Go(p, IF task[p].anew THEN [at |-> "stamp"] ELSE Serving)
          /\ UNCHANGED mishaps
       \/ ~Exists /\ Go(p, [task[p] EXCEPT !.at = "create"]) /\ UNCHANGED mishaps
       \/ Exists /\ Fail /\ Go(p, [task[p] EXCEPT !.at = "create"])
    /\ UNCHANGED <<store, tasks, past>>

(* FT.CREATE of an index that exists is an error, which ends the process.  *)
(* Redis fills the index in the background.                                *)
CreateIndex(p) ==
    /\ About(p, "create")
    /\ \/ ~Exists /\ index' = "filling" /\ cut' = FALSE
          /\ Go(p, IF task[p].anew THEN [at |-> "stamp"] ELSE Serving) /\ UNCHANGED mishaps
       \/ Exists /\ Go(p, Down) /\ UNCHANGED <<index, mishaps, cut>>
       \/ ~Exists /\ Fail /\ Go(p, Down) /\ cut' = TRUE /\ UNCHANGED index
    /\ UNCHANGED <<memories, decisions, overlay, flagged, schema, tasks, saved,
                   overtaken, doomed, unread, revived, notice, complaints>>

IndexIsFilled ==
    /\ index = "filling" /\ index' = "ready"
    /\ UNCHANGED <<memories, decisions, overlay, flagged, schema, task, tasks, mishaps, past>>

(* The error of the SET is ignored.                                        *)
StampVersion(p) ==
    /\ About(p, "stamp") /\ Go(p, Serving)
    /\ \/ schema' = "v6" /\ UNCHANGED mishaps
       \/ Fail /\ UNCHANGED schema
    /\ doomed' = (doomed \/ schema' # "v6")
    /\ UNCHANGED <<memories, decisions, overlay, flagged, index, tasks, saved, overtaken,
                   unread, revived, notice, complaints, cut>>

-----------------------------------------------------------------------------
(* SaveFile, SaveFunc and SaveFlow for an agent: one HSET.                 *)
WipeIsDue == \E q \in Servers : About(q, "wipe")

SaveAgent(p, k) ==
    /\ About(p, "serving") /\ Begin
    /\ memories' = [memories EXCEPT ![k] = "agent"]
    /\ saved' = saved \cup {k} /\ unread' = unread \ {k}
    /\ overtaken' = IF \E q \in Servers : About(q, "embed") /\ task[q].key = k
                    THEN overtaken \cup {k} ELSE overtaken \ {k}
    /\ doomed' = (doomed \/ WipeIsDue)
    /\ UNCHANGED <<decisions, overlay, flagged, schema, index, task, mishaps, revived,
                   notice, complaints, cut>>

(* Populate: every path of the repository; each is skipped if an agent has *)
(* saved it, which is looked up before the embedding is computed.  A read  *)
(* that fails tells no agent.                                              *)
Populate(p) ==
    /\ About(p, "serving") /\ Begin /\ Go(p, [at |-> "populate", todo |-> Paths])
    /\ UNCHANGED <<store, mishaps, past>>

EndPopulate(p) ==
    /\ About(p, "populate") /\ task[p].todo = {} /\ Go(p, Serving)
    /\ UNCHANGED <<store, tasks, mishaps, past>>

(* Mutant: what has complaints is taken for worthless.                     *)
SkipsAgentsMutant(k) == memories[k] = "agent" /\ flagged[k] = 0

SkipsAgents(k) == memories[k] = "agent"

CheckSource(p, k) ==
    /\ About(p, "populate") /\ k \in task[p].todo
    /\ LET rest == task[p].todo \ {k}
           embed == Go(p, [at |-> "embed", key |-> k, todo |-> rest]) IN
       \/ SkipsAgents(k) /\ Go(p, [at |-> "populate", todo |-> rest]) /\ UNCHANGED <<mishaps, unread>>
       \/ ~SkipsAgents(k) /\ embed /\ UNCHANGED <<mishaps, unread>>
       \/ SkipsAgents(k) /\ Fail /\ embed /\ unread' = unread \cup {k}
    /\ UNCHANGED <<store, tasks, saved, overtaken, doomed, revived, notice, complaints, cut>>

WriteAuto(p) ==
    /\ About(p, "embed") /\ Go(p, [at |-> "populate", todo |-> task[p].todo])
    /\ memories' = [memories EXCEPT ![task[p].key] = "auto"]
    /\ UNCHANGED <<decisions, overlay, flagged, schema, index, tasks, mishaps, past>>

-----------------------------------------------------------------------------
(* SaveDecision writes every field, then lists what is indexed to warn of  *)
(* conflicts.                                                              *)
SaveDecision(p, d) ==
    /\ About(p, "serving") /\ Begin /\ Go(p, [at |-> "listing", name |-> d])
    /\ decisions' = [decisions EXCEPT ![d] =
           [status |-> "active", supersedes |-> Nothing, by |-> Nothing, listed |-> TRUE]]
    /\ revived' = IF decisions[d].status = "superseded" THEN revived \cup {d} ELSE revived
    /\ notice' = [notice EXCEPT ![d] = "pending"]
    /\ doomed' = (doomed \/ WipeIsDue)
    /\ UNCHANGED <<memories, overlay, flagged, schema, index, mishaps, saved, overtaken,
                   unread, complaints, cut>>

Listed == {d \in Names : decisions[d].listed}

ListConflicts(p) ==
    /\ About(p, "listing") /\ Go(p, Serving)
    /\ LET d == task[p].name IN
       \/ notice' = [notice EXCEPT ![d] =
              IF index # "ready" THEN "unheard" ELSE IF Listed \ {d} = {} THEN "clear" ELSE "warned"]
          /\ UNCHANGED mishaps
       \/ Fail /\ notice' = [notice EXCEPT ![d] = "unheard"]
    /\ UNCHANGED <<store, tasks, saved, overtaken, doomed, unread, revived, complaints, cut>>

(* SupersedeDecision: both must exist; the old one is marked first.        *)
Supersede(p, old, new) ==
    /\ About(p, "serving") /\ Begin
    /\ decisions[old] # NoDecision /\ decisions[new] # NoDecision
    /\ Go(p, [at |-> "retire", old |-> old, new |-> new])
    /\ UNCHANGED <<store, mishaps, past>>

RetireOld(p) ==
    /\ About(p, "retire")
    /\ \/ Go(p, [task[p] EXCEPT !.at = "relate"])
          /\ decisions' = [decisions EXCEPT ![task[p].old].status = "superseded",
                                            ![task[p].old].by = task[p].new]
          /\ revived' = revived \ {task[p].old} /\ UNCHANGED mishaps
       \/ Fail /\ Go(p, Serving) /\ UNCHANGED <<decisions, revived>>
    /\ UNCHANGED <<memories, overlay, flagged, schema, index, tasks, saved, overtaken,
                   doomed, unread, notice, complaints, cut>>

RelateNew(p) ==
    /\ About(p, "relate") /\ Go(p, Serving)
    /\ \/ decisions' = [decisions EXCEPT ![task[p].new].supersedes = task[p].old]
          /\ UNCHANGED mishaps
       \/ Fail /\ UNCHANGED decisions
    /\ UNCHANGED <<memories, overlay, flagged, schema, index, tasks, past>>

-----------------------------------------------------------------------------
(* SubmitFeedback's effects on the memories: the files the agent read, of  *)
(* which some may be unknown; the memories its query was given; whether it *)
(* had to look further; the flow it names.                                 *)
Owned(k) == IF memories[k] = "" THEN {} ELSE IF k = Flow THEN Files ELSE {k}

Feedback(p, read, given, further, success, named) ==
    /\ About(p, "serving") /\ Begin
    /\ Go(p, [at |-> "flag", read |-> read, clean |-> success /\ ~further, named |-> named,
              todo |-> IF further /\ read # {} THEN {k \in given : Owned(k) \cap read = {}} ELSE {}])
    /\ UNCHANGED <<store, mishaps, past>>

(* RecordFalsePositive: the count is read, and written back one higher.    *)
ReadCount(p, k) ==
    /\ About(p, "flag") /\ k \in task[p].todo
    /\ LET after == [task[p] EXCEPT !.todo = @ \ {k}] IN
       \/ Go(p, [at |-> "count", key |-> k, count |-> flagged[k] + 1, after |-> after])
          /\ complaints' = [complaints EXCEPT ![k] = @ + 1] /\ UNCHANGED mishaps
       \/ Fail /\ Go(p, after) /\ UNCHANGED complaints
    /\ UNCHANGED <<store, tasks, saved, overtaken, doomed, unread, revived, notice, cut>>

WriteCount(p) ==
    /\ About(p, "count") /\ Go(p, task[p].after)
    /\ \/ flagged' = [flagged EXCEPT ![task[p].key] = task[p].count] /\ UNCHANGED mishaps
       \/ Fail /\ UNCHANGED flagged
    /\ UNCHANGED <<memories, decisions, overlay, schema, index, tasks, past>>

(* UpdateFlowOverlay, if the flow exists (its two reads and the pipeline   *)
(* are taken together): a file that was read was useful, one that was not  *)
(* is dead weight only if the task succeeded without looking further.  If  *)
(* the flow's files cannot be read, the event alone is counted.            *)
UpdateOverlay(p) ==
    /\ About(p, "flag") /\ task[p].todo = {} /\ Go(p, Serving)
    /\ IF task[p].named /\ memories[Flow] # ""
       THEN LET more(counts, counted) == [f \in Files |-> counts[f] + (IF counted[f] THEN 1 ELSE 0)]
                useful == [f \in Files |-> f \in task[p].read] IN
            \/ overlay' = [useful |-> more(overlay.useful, useful),
                           dead |-> more(overlay.dead,
                                         [f \in Files |-> ~useful[f] /\ task[p].clean]),
                           total |-> overlay.total + 1]
               /\ UNCHANGED mishaps
            \/ Fail /\ UNCHANGED overlay
            \/ Fail /\ overlay' = [overlay EXCEPT !.total = @ + 1]
       ELSE UNCHANGED <<overlay, mishaps>>
    /\ UNCHANGED <<memories, decisions, flagged, schema, index, tasks, past>>

-----------------------------------------------------------------------------
(* The vector search of a query finds a memory at some distance (in        *)
(* hundredths).  dropBelowFloor, applyFPPenalties and dropBelowFloor again *)
(* keep it unless its complaints, of which three count, resemble the query *)
(* and push it past the floor of 0.60.  A sum of exactly that is past it:  *)
(* in float64 0.4 + 0.2 > 0.6.                                             *)
Smaller(x, y) == IF x < y THEN x ELSE y
Resembles(sim) == sim >= 70
Recalled(k, distance, sim) ==
    /\ distance <= 60
    /\ flagged[k] > 0 /\ Resembles(sim) =>
           30 * distance + 2 * Smaller(flagged[k], 3) * sim < 1800

-----------------------------------------------------------------------------
(* A count that nothing refreshes for two weeks goes; a process ends.      *)
Expire(k) ==
    /\ flagged[k] # 0 /\ flagged' = [flagged EXCEPT ![k] = 0]
    /\ UNCHANGED <<memories, decisions, overlay, schema, index, task, tasks, mishaps, past>>

Crash(p) ==
    /\ task[p] # Down /\ Fail /\ Go(p, Down)
    /\ notice' = IF About(p, "listing") THEN [notice EXCEPT ![task[p].name] = "unheard"] ELSE notice
    /\ cut' = (cut \/ (~Exists /\ (About(p, "look") \/ About(p, "create"))))
    /\ UNCHANGED <<store, tasks, saved, overtaken, doomed, unread, revived, complaints>>

StepMemory ==
    \/ \E p \in Servers :
           \/ ReadVersion(p) \/ Wipe(p) \/ DropIndex(p) \/ LookForIndex(p) \/ CreateIndex(p)
           \/ StampVersion(p) \/ Populate(p) \/ EndPopulate(p) \/ WriteAuto(p)
           \/ \E k \in Keys : SaveAgent(p, k) \/ CheckSource(p, k) \/ ReadCount(p, k)
           \/ \E d \in Names : SaveDecision(p, d) \/ \E e \in Names : Supersede(p, e, d)
           \/ ListConflicts(p) \/ RetireOld(p) \/ RelateNew(p)
           \/ \E read \in SUBSET Files, given \in SUBSET saved, further, success, named \in BOOLEAN :
                  Feedback(p, read, given, further, success, named)
           \/ WriteCount(p) \/ UpdateOverlay(p) \/ Crash(p)
    \/ IndexIsFilled
    \/ \E k \in Keys : Expire(k)

SpecMemory == InitMemory /\ [][StepMemory]_memoryVars

-----------------------------------------------------------------------------
MemoryTypeOK ==
    /\ memories \in [Keys -> {"", "auto", "agent"}]
    /\ decisions \in [Names -> [status : {"none", "active", "superseded"}, listed : BOOLEAN,
                                supersedes : Names \cup {Nothing}, by : Names \cup {Nothing}]]
    /\ schema \in {"older", "v6"} /\ index \in {"missing", "filling", "ready"}
    /\ flagged \in [Keys -> Nat] /\ complaints \in [Keys -> Nat]
    /\ saved \subseteq Keys /\ overtaken \subseteq Keys /\ unread \subseteq Keys

(* What store.go:370-385 and 446-468 leave of populate.go:22 ("never       *)
(* overwrites source=agent entries"): an agent's memory is lost in three   *)
(* ways only.  It was saved between an automatic save's check and write;   *)
(* that check could not be read; or a starting process took the schema for *)
(* an older one while others served.  Feedback, complaints and decisions   *)
(* never cost one.                                                         *)
AgentMemoriesSurvive ==
    doomed \/ \A k \in saved \ (overtaken \cup unread) : memories[k] = "agent"

(* A decision that says what it replaces replaces nothing that is active,  *)
(* however two writes of a process that dies between them fall, unless the *)
(* old one was saved again since.                                          *)
SupersededStaysSo ==
    doomed \/ \A d, e \in Listed :
        decisions[d].supersedes = e /\ e \notin revived => decisions[e].status = "superseded"

(* Of two decisions in conflict, at least one save was told of the other,  *)
(* though both may be saved at the same time.                              *)
ConflictsAreNoticed ==
    doomed \/ \A d, e \in Listed :
        d # e => notice[d] # "clear" \/ notice[e] # "clear"

(* Searches find an index, unless a process is on its way to make one or   *)
(* ended on it; several may be migrating.                                  *)
IndexComesBack == Exists \/ cut \/ \E p \in Servers : About(p, "look") \/ About(p, "create")

(* falsepositives.go:155-164: whatever updates of its count are lost or    *)
(* expire, a memory is withheld for complaints only, a borderline one for  *)
(* three of them, and a nearer one never.                                  *)
GrudgesAreBounded ==
    \A k \in Keys :
        /\ flagged[k] <= complaints[k]
        /\ \A sim \in {0, 70, 100} :
               /\ Recalled(k, 39, sim)
               /\ ~Recalled(k, 40, sim) => complaints[k] >= 3
               /\ ~Recalled(k, 60, sim) => complaints[k] > 0

(* No file of a flow is counted more often than feedback came.             *)
OverlayAddsUp == \A f \in Files : overlay.useful[f] + overlay.dead[f] <= overlay.total

MemoriesAreKept ==
    /\ MemoryTypeOK /\ AgentMemoriesSurvive /\ SupersededStaysSo /\ ConflictsAreNoticed
    /\ IndexComesBack /\ GrudgesAreBounded /\ OverlayAddsUp
=============================================================================
