----------------------------- MODULE CodeIndex ------------------------------
(***************************************************************************)
(* The database of codegraph (db/queries.ts) under its two writers: what a *)
(* sync and a full index store of a file (extraction/index.ts), the        *)
(* resolution of references into edges (resolution/index.ts, index.ts),    *)
(* and the row cache of a reading server.  One symbol of a file is the     *)
(* pair <<file, name>>; the references of a file come from its file node.  *)
(***************************************************************************)
EXTENDS Naturals, FiniteSets

CONSTANTS
    Paths,         \* source files
    Texts,         \* contents: [defs: set of names, uses: set of names]
    Chained,       \* names of chained calls, which the second pass resolves
    BatchSize,     \* references per batch of a full index
    MaxChanges,    \* bound: edits and deletions
    MaxJobs        \* bound: syncs, indexes and clearings

Writers == {"server", "cli"}
Missing == [defs |-> {}, uses |-> {}, there |-> FALSE]
Text(t) == [defs |-> t.defs, uses |-> t.uses, there |-> TRUE]
Contents == {Missing} \cup {Text(t) : t \in Texts}

VARIABLES
    source,        \* the files on disk
    record,        \* files table: the content a file was indexed with
    nodes,         \* nodes table
    edges,         \* edges table: [from: file, to: node]
    refs,          \* unresolved_refs: <<file, name>>
    cache,         \* the server's nodeCache
    run,           \* the run that holds the file lock
    deferred,      \* its deferredChainRefs
    changes, jobs,
    missed,        \* history: references dropped while no symbol had their name
    cut,           \* history: references whose edge went with its target's file
    forgotten,     \* history: deferred references of a process that died
    barren,        \* history: references left by a batch that resolved nothing
    foreign        \* history: another process than the server wrote

tables == <<record, nodes, edges, refs>>
history == <<missed, cut, forgotten, barren, foreign>>
indexVars == <<source, tables, cache, run, deferred, changes, jobs, history>>

NoRun == [by |-> "none", kind |-> "sync", at |-> "off", todo |-> {}, touched |-> {}]

InitIndex ==
    /\ source \in [Paths -> {Text(t) : t \in Texts}] /\ record = [f \in Paths |-> Missing]
    /\ nodes = {} /\ edges = {} /\ refs = {} /\ cache = {} /\ run = NoRun
    /\ deferred = {} /\ changes = 0 /\ jobs = 0
    /\ missed = {} /\ cut = {} /\ forgotten = {} /\ barren = {} /\ foreign = FALSE

-----------------------------------------------------------------------------
(* Files change; a server reads nodes through its cache.                   *)
Change(f) ==
    /\ changes < MaxChanges /\ changes' = changes + 1
    /\ \E c \in Contents \ {source[f]} : source' = [source EXCEPT ![f] = c]
    /\ UNCHANGED <<tables, cache, run, deferred, jobs, history>>

GetNodeById(n) ==
    /\ n \in nodes \ cache /\ cache' = cache \cup {n}
    /\ UNCHANGED <<source, tables, run, deferred, changes, jobs, history>>

-----------------------------------------------------------------------------
(* sync and indexAll: the lock is taken and the files are looked at.       *)
StartRun(p, kind) ==
    /\ run = NoRun /\ jobs < MaxJobs /\ jobs' = jobs + 1
    /\ LET new == {f \in Paths : source[f].there /\ source[f] # record[f]}
           gone == {f \in Paths : record[f].there /\ ~source[f].there} IN
       run' = [by |-> p, kind |-> kind, at |-> "store", touched |-> new,
               todo |-> IF kind = "sync" THEN new \cup gone ELSE new]
    /\ UNCHANGED <<source, tables, cache, deferred, changes, history>>

(* deleteFile deletes the nodes of a file, and by cascade every edge that  *)
(* starts or ends in it and its references.  The caches of other processes *)
(* keep the nodes.                                                         *)
UncutEdges(f) == {e \in edges : e.from # f}
CascadedEdges(f) == {e \in edges : e.from # f /\ e.to[1] # f}

Without(f, pairs) == {r \in pairs : r[1] # f}
Evicted(f) == IF run.by = "server" THEN Without(f, cache) ELSE cache
CutBy(f) == {<<e.from, e.to[2]>> : e \in {e \in edges : e.to[1] = f /\ e.from # f}}

(* storeExtractionResult of a file the run has listed, deleteFile of one   *)
(* it has found gone.  A listed file that cannot be read by now keeps its  *)
(* rows, and so does one whose content was indexed.                        *)
ContentRead(f) == IF f \in run.touched THEN source[f] ELSE Missing
RowsStay(f) == ContentRead(f) = record[f] \/ (f \in run.touched /\ ~ContentRead(f).there)

StoreFile(f) ==
    /\ run.at = "store" /\ f \in run.todo
    /\ run' = [run EXCEPT !.todo = @ \ {f}]
    /\ IF RowsStay(f)
       THEN UNCHANGED <<tables, cache, missed, cut, forgotten, barren, foreign>>
       ELSE /\ nodes' = Without(f, nodes) \cup {<<f, d>> : d \in ContentRead(f).defs}
            /\ edges' = CascadedEdges(f)
            /\ refs' = Without(f, refs) \cup {<<f, u>> : u \in ContentRead(f).uses}
            /\ record' = [record EXCEPT ![f] = ContentRead(f)]
            /\ cache' = Evicted(f)
            /\ cut' = Without(f, cut) \cup CutBy(f)
            /\ missed' = Without(f, missed) /\ forgotten' = Without(f, forgotten)
            /\ barren' = Without(f, barren)
            /\ foreign' = (foreign \/ run.by = "cli")
    /\ UNCHANGED <<source, deferred, changes, jobs>>

(* Resolution runs only if files were added or modified.                   *)
EndStore ==
    /\ run.at = "store" /\ run.todo = {}
    /\ run' = IF run.touched = {} THEN NoRun ELSE [run EXCEPT !.at = "resolve"]
    /\ UNCHANGED <<source, tables, cache, deferred, changes, jobs, history>>

-----------------------------------------------------------------------------
Candidates(r) == {n \in nodes : n[2] = r[2]}
Resolvable(batch) == {r \in batch : r[2] \notin Chained /\ Candidates(r) # {}}

(* createEdges and insertEdges of a batch: any candidate may be the one.   *)
Link(batch) ==
    \E pick \in [batch -> nodes] :
        /\ \A r \in batch : pick[r] \in Candidates(r)
        /\ edges' = edges \cup {[from |-> r[1], to |-> pick[r]] : r \in batch}

(* resolveAll: chains are deferred.                                        *)
Try(batch) ==
    /\ Link(Resolvable(batch))
    /\ deferred' = deferred \cup {r \in batch : r[2] \in Chained}

(* resolveAndPersist of a sync: only the references of changed files, and  *)
(* only those resolved leave the table.                                    *)
RowsOfResolvedNodes(done) == {r \in refs : \A d \in done : d[1] # r[1]}
ResolvedRows(done) == refs \ done

ResolveScoped ==
    /\ run.at = "resolve" /\ run.kind = "sync"
    /\ LET batch == {r \in refs : r[1] \in run.touched} IN
       /\ Try(batch) /\ refs' = ResolvedRows(Resolvable(batch))
    /\ run' = [run EXCEPT !.at = "chains"]
    /\ UNCHANGED <<source, record, nodes, cache, changes, jobs, history>>

(* resolveAndPersistBatched: resolved and unresolved references leave the  *)
(* table; a batch that resolves nothing is taken for the last.             *)
ResolveBatch ==
    /\ run.at = "resolve" /\ run.kind = "index" /\ refs # {}
    /\ \E batch \in SUBSET refs :
           /\ Cardinality(batch) = IF Cardinality(refs) < BatchSize THEN Cardinality(refs) ELSE BatchSize
           /\ Try(batch) /\ refs' = refs \ batch
           /\ missed' = missed \cup {r \in batch : r[2] \notin Chained /\ Candidates(r) = {}}
           /\ IF Resolvable(batch) = {}
              THEN barren' = barren \cup (refs \ batch) /\ run' = [run EXCEPT !.at = "chains"]
              ELSE UNCHANGED <<barren, run>>
    /\ UNCHANGED <<source, record, nodes, cache, changes, jobs, cut, forgotten, foreign>>

EndBatches ==
    /\ run.at = "resolve" /\ run.kind = "index" /\ refs = {}
    /\ run' = [run EXCEPT !.at = "chains"]
    /\ UNCHANGED <<source, tables, cache, deferred, changes, jobs, history>>

(* resolveChainedCallsViaConformance: its references stay where they are.  *)
ResolveChains ==
    /\ run.at = "chains" /\ run' = NoRun /\ deferred' = {}
    /\ LET found == {r \in deferred : Candidates(r) # {}} IN
       Link(found) /\ missed' = missed \cup (deferred \ (found \cup refs))
    /\ UNCHANGED <<source, record, nodes, refs, cache, changes, jobs, cut, forgotten, barren, foreign>>

(* "codegraph index --force" clears the tables before it asks for the lock.*)
ClearIndex ==
    /\ jobs < MaxJobs /\ jobs' = jobs + 1
    /\ record' = [f \in Paths |-> Missing] /\ nodes' = {} /\ edges' = {} /\ refs' = {}
    /\ missed' = {} /\ cut' = {} /\ forgotten' = {} /\ barren' = {} /\ foreign' = TRUE
    /\ deferred' = {}
    /\ UNCHANGED <<source, cache, run, changes>>

(* The process dies between two transactions.                              *)
RunDies ==
    /\ run # NoRun /\ run' = NoRun /\ deferred' = {}
    /\ forgotten' = forgotten \cup (deferred \ refs)
    /\ cache' = IF run.by = "server" THEN {} ELSE cache
    /\ UNCHANGED <<source, tables, changes, jobs, missed, cut, barren, foreign>>

StepIndex ==
    \/ \E f \in Paths : Change(f) \/ StoreFile(f)
    \/ \E n \in nodes : GetNodeById(n)
    \/ \E p \in Writers, kind \in {"sync", "index"} : StartRun(p, kind)
    \/ EndStore \/ ResolveScoped \/ ResolveBatch \/ EndBatches \/ ResolveChains
    \/ ClearIndex \/ RunDies

SpecIndex == InitIndex /\ [][StepIndex]_indexVars

-----------------------------------------------------------------------------
(* queries.ts:399-410 and the cascades of schema.sql: however runs, edits, *)
(* clearings and deaths interleave, an edge leads from a file whose        *)
(* indexed content uses the name to a symbol that is in the index.         *)
EdgesAreCurrent ==
    \A e \in edges : e.to \in nodes /\ e.to[2] \in record[e.from].uses

(* resolution/index.ts:805-836: a reference of the indexed content has its *)
(* edge or waits in the table, unless a full index dropped it while nothing*)
(* had its name, its target's file was indexed again, or its process died  *)
(* with it in hand.                                                        *)
UsesAreAccounted ==
    \A f \in Paths : \A u \in record[f].uses :
        \/ <<f, u>> \in refs \cup deferred \cup missed \cup cut \cup forgotten
        \/ \E e \in edges : e.from = f /\ e.to[2] = u

(* queries.ts:399-410: the server answers from rows that exist, as long as *)
(* no other process writes.                                                *)
CacheIsCurrent == foreign \/ cache \subseteq nodes

(* No reference of an indexed file is lost without a cause on record, and  *)
(* a server's row cache shows no symbol its own runs have deleted          *)
(* (resolveAndPersistBatched, QueryBuilder.deleteNodesByFile).             *)
ReferencesAreKept == UsesAreAccounted /\ CacheIsCurrent
=============================================================================
