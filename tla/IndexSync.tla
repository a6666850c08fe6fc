----------------------------- MODULE IndexSync ------------------------------
(***************************************************************************)
(* How the index of codegraph follows the files: the watcher of a server   *)
(* (sync/watcher.ts), its catch-up sync, a "codegraph sync" or "codegraph  *)
(* index" in another process, the file lock between them, and the          *)
(* reconciliation of extraction/index.ts.  A file's content is the number  *)
(* of the edit that wrote it, 0 when it is absent; an edit's number is     *)
(* also its (size, mtime) stamp.                                           *)
(***************************************************************************)
EXTENDS Naturals, FiniteSets

CONSTANTS
    Files,         \* source files
    Nested,        \* those in the one subdirectory
    Unfit,         \* edits that leave a file too large or unparseable
    MaxEdits,      \* bound: edits
    MaxRuns        \* bound: runs of the command line

ASSUME SyncAssumption ==
    Files # {} /\ Nested \subseteq Files /\ MaxEdits \in Nat \ {0} /\ MaxRuns \in Nat

Procs == {"server", "cli"}

VARIABLES
    disk,          \* content of each file
    edits,         \* edits so far
    sub,           \* the subdirectory exists
    tracked,       \* file records: [content, stamp], content 0 for no record
    rows,          \* the contents whose nodes are in the database
    indexLock,     \* the file lock
    watch,         \* the server's watch on the subdirectory: none, live, dead, refused
    events,        \* files with an undelivered file system event
    dirEvent,      \* the creation of the subdirectory is undelivered
    pendingFiles,  \* files with a change that no sync has settled
    late,          \* those last seen after the sync in progress began
    timer,         \* the debounce timer is armed
    flushing,      \* syncing: a flush awaits its sync
    catching,      \* the catch-up sync: off, queued, done
    job,           \* the running job of each process
    runs,          \* command line runs so far
    torn,          \* history: files indexAll recorded with a stamp newer than their content
    skipped,       \* history: the catch-up sync was refused the lock, and no sync since
    blind,         \* history: files changed where no watch sees, not recorded since
    crashed        \* history: files whose writer died before their record, not written since

world == <<disk, edits, sub>>
db == <<tracked, rows, torn, blind, crashed>>
watcher == <<watch, events, dirEvent, pendingFiles, late, timer, flushing, catching>>
syncVars == <<world, db, watcher, indexLock, job, runs, skipped>>

Idle == [kind |-> "none", at |-> "off", todo |-> {}, file |-> CHOOSE f \in Files : TRUE,
         content |-> 0, stamp |-> 0]
NoRecord == [content |-> 0, stamp |-> 0]
Holder == Procs \cup {"free", "dead"}

InitSync ==
    /\ disk = [f \in Files |-> IF f \in Nested THEN 0 ELSE 1] /\ edits = 1 /\ sub = FALSE
    /\ tracked = [f \in Files |-> [content |-> disk[f], stamp |-> disk[f]]]
    /\ rows = [f \in Files |-> {disk[f]} \ {0}]
    /\ indexLock = "free" /\ watch = "none" /\ events = {} /\ dirEvent = FALSE
    /\ pendingFiles = {} /\ late = {} /\ timer = FALSE /\ flushing = FALSE /\ catching = "off"
    /\ job = [p \in Procs |-> Idle] /\ runs = 0
    /\ torn = {} /\ skipped = FALSE /\ blind = {} /\ crashed = {}

Watching == catching # "off"
Seen(f) == Watching /\ (f \in Nested => watch = "live")
Unseen(f) == Watching /\ ~Seen(f)
Present == {f \in Nested : disk[f] # 0}

-----------------------------------------------------------------------------
(* The world: edits, removals, and a subdirectory that goes and comes.     *)
Edit(f) ==
    /\ edits < MaxEdits /\ edits' = edits + 1 /\ (f \in Nested => sub)
    /\ disk' = [disk EXCEPT ![f] = edits + 1]
    /\ events' = IF Seen(f) THEN events \cup {f} ELSE events
    /\ blind' = IF Unseen(f) /\ watch \in {"dead", "refused"} THEN blind \cup {f} ELSE blind
    /\ UNCHANGED <<sub, tracked, rows, torn, crashed, watch, dirEvent, pendingFiles, late, timer, flushing,
                   catching, indexLock, job, runs, skipped>>

Remove(f) ==
    /\ edits < MaxEdits /\ edits' = edits + 1 /\ disk[f] # 0
    /\ disk' = [disk EXCEPT ![f] = 0]
    /\ events' = IF Seen(f) THEN events \cup {f} ELSE events
    /\ blind' = IF Unseen(f) THEN blind \cup {f} ELSE blind
    /\ UNCHANGED <<sub, tracked, rows, torn, crashed, watch, dirEvent, pendingFiles, late, timer, flushing,
                   catching, indexLock, job, runs, skipped>>

(* The watch of a directory that is deleted stays in dirWatchers.          *)
RemoveDirectory ==
    /\ sub /\ edits < MaxEdits /\ edits' = edits + 1 /\ sub' = FALSE
    /\ disk' = [f \in Files |-> IF f \in Nested THEN 0 ELSE disk[f]]
    /\ events' = events \cup {f \in Present : Seen(f)}
    /\ blind' = blind \cup {f \in Present : Unseen(f)}
    /\ watch' = CASE watch = "live" -> "dead" [] watch = "refused" -> "none" [] OTHER -> watch
    /\ UNCHANGED <<tracked, rows, torn, crashed, dirEvent, pendingFiles, late, timer, flushing, catching,
                   indexLock, job, runs, skipped>>

MakeDirectory ==
    /\ ~sub /\ sub' = TRUE /\ dirEvent' = Watching
    /\ UNCHANGED <<disk, edits, db, watch, events, pendingFiles, late, timer, flushing, catching,
                   indexLock, job, runs, skipped>>

-----------------------------------------------------------------------------
(* The watcher.                                                            *)

(* The engine watches first and then starts the catch-up sync.  Beyond the *)
(* cap on watches, or when fs.watch fails, a directory stays without one.  *)
StartWatching ==
    /\ catching = "off" /\ catching' = "queued"
    /\ IF sub THEN watch' \in {"live", "refused"} ELSE watch' = "none"
    /\ UNCHANGED <<world, db, events, dirEvent, pendingFiles, late, timer, flushing, indexLock, job, runs,
                   skipped>>

(* handleChange and scheduleSync.                                          *)
Note(fs) ==
    /\ pendingFiles' = pendingFiles \cup fs /\ late' = IF flushing THEN late \cup fs ELSE late
    /\ timer' = (timer \/ fs # {})

HandleChange(f) ==
    /\ f \in events /\ events' = events \ {f} /\ Note({f})
    /\ UNCHANGED <<world, db, watch, dirEvent, flushing, catching, indexLock, job, runs, skipped>>

WatchTreeOnly == watch' = "live" /\ Note({}) /\ UNCHANGED blind

(* watchTree of a new directory: one that is still in dirWatchers is       *)
(* skipped, and one that is refused a watch is left with what is in it;    *)
(* otherwise the files already in it count as changed.                     *)
WatchTree ==
    \/ watch = "none" /\ watch' = "live" /\ Note(Present) /\ UNCHANGED blind
    \/ /\ watch = "none" /\ watch' = "refused" /\ blind' = blind \cup Present
       /\ UNCHANGED <<pendingFiles, late, timer>>
    \/ watch # "none" /\ UNCHANGED <<watch, pendingFiles, late, timer, blind>>

HandleDirEvent ==
    /\ dirEvent /\ dirEvent' = FALSE
    /\ IF sub THEN WatchTree ELSE UNCHANGED <<watch, pendingFiles, late, timer, blind>>
    /\ UNCHANGED <<world, tracked, rows, torn, crashed, events, flushing, catching, indexLock, job, runs,
                   skipped>>

(* The timer fires; during a sync that is all.                             *)
Flush ==
    /\ timer /\ timer' = FALSE
    /\ IF flushing THEN UNCHANGED <<flushing, late>> ELSE flushing' = TRUE /\ late' = {}
    /\ UNCHANGED <<world, db, watch, events, dirEvent, pendingFiles, catching, indexLock, job, runs,
                   skipped>>

(* The end of a flush: what was seen before it began is no longer pending, *)
(* unless the lock was refused; what is pending is tried again.            *)
AllFlushSettled(ok) == pendingFiles' = IF ok THEN {} ELSE pendingFiles

FlushSettled(ok) == pendingFiles' = IF ok THEN pendingFiles \cap late ELSE pendingFiles

Settle(ok) ==
    /\ flushing' = FALSE /\ FlushSettled(ok)
    /\ timer' = (timer \/ pendingFiles' # {}) /\ late' = {}

-----------------------------------------------------------------------------
(* Jobs.  A server's syncs follow each other through its mutex.            *)

Begin(p, kind) == job' = [job EXCEPT ![p] = [Idle EXCEPT !.kind = kind, !.at = "lock"]]

BeginCatchUp ==
    /\ catching = "queued" /\ job["server"] = Idle /\ Begin("server", "catchup")
    /\ catching' = "done"
    /\ UNCHANGED <<world, db, watch, events, dirEvent, pendingFiles, late, timer, flushing, indexLock,
                   runs, skipped>>

BeginWatchSync ==
    /\ flushing /\ job["server"] = Idle /\ Begin("server", "sync")
    /\ UNCHANGED <<world, db, watcher, indexLock, runs, skipped>>

BeginRun ==
    /\ runs < MaxRuns /\ job["cli"] = Idle /\ runs' = runs + 1
    /\ \E kind \in {"sync", "index"} : Begin("cli", kind)
    /\ UNCHANGED <<world, db, watcher, indexLock, skipped>>

Finish(p, ok) ==
    /\ job' = [job EXCEPT ![p] = Idle]
    /\ IF p = "server" /\ job[p].kind = "sync"
       THEN Settle(ok) ELSE UNCHANGED <<flushing, pendingFiles, timer, late>>
    /\ skipped' = CASE job[p].kind = "catchup" /\ ~ok -> TRUE
                    [] p = "server" /\ job[p].kind = "sync" /\ ok -> FALSE
                    [] OTHER -> skipped

(* FileLock.acquire: a dead process's lock is taken over.                  *)
Lock(p) ==
    /\ job[p].at = "lock"
    /\ IF indexLock \in {"free", "dead"}
       THEN /\ indexLock' = p /\ job' = [job EXCEPT ![p].at = "scan"]
            /\ UNCHANGED <<flushing, pendingFiles, timer, late, skipped>>
       ELSE Finish(p, FALSE) /\ UNCHANGED indexLock
    /\ UNCHANGED <<world, db, watch, events, dirEvent, catching, runs>>

(* What a sync has to index: a file without a record, or one whose stamp   *)
(* and content both differ from it.                                        *)
Changed(f) ==
    /\ disk[f] # 0
    /\ \/ tracked[f].content = 0
       \/ tracked[f].stamp # disk[f] /\ tracked[f].content # disk[f]

(* The reconcile of a sync: records of missing files are deleted with      *)
(* their rows.  A full index lists what is there and deletes nothing.      *)
Scan(p) ==
    /\ job[p].at = "scan"
    /\ LET gone == {f \in Files : tracked[f].content # 0 /\ disk[f] = 0} IN
       IF job[p].kind = "index"
       THEN /\ job' = [job EXCEPT ![p].at = "files", ![p].todo = {f \in Files : disk[f] # 0}]
            /\ UNCHANGED db
       ELSE /\ job' = [job EXCEPT ![p].at = "files", ![p].todo = {f \in Files : Changed(f)}]
            /\ tracked' = [f \in Files |-> IF f \in gone THEN NoRecord ELSE tracked[f]]
            /\ rows' = [f \in Files |-> IF f \in gone THEN {} ELSE rows[f]]
            /\ torn' = torn \ gone /\ blind' = blind \ gone /\ crashed' = crashed \ gone
    /\ UNCHANGED <<world, watcher, indexLock, runs, skipped>>

(* The first of the two file system calls: indexFile asks for the stamp    *)
(* first, the batch reader of indexAll for the content.                    *)
ReadFirst(p, f) ==
    LET j == job[p] IN
    /\ j.at = "files" /\ f \in j.todo
    /\ job' = [job EXCEPT ![p] =
                   [kind |-> j.kind, todo |-> j.todo \ {f}, file |-> f,
                    at |-> IF disk[f] = 0 THEN "files" ELSE "second",
                    content |-> IF j.kind = "index" THEN disk[f] ELSE 0,
                    stamp |-> IF j.kind = "index" THEN 0 ELSE disk[f]]]
    /\ UNCHANGED <<world, db, watcher, indexLock, runs, skipped>>

ReadSecond(p) ==
    /\ job[p].at = "second"
    /\ job' = [job EXCEPT
                   ![p].at = IF disk[job[p].file] = 0 THEN "files" ELSE "store",
                   ![p].content = IF job[p].kind = "index" THEN @ ELSE disk[job[p].file],
                   ![p].stamp = IF job[p].kind = "index" THEN disk[job[p].file] ELSE @]
    /\ UNCHANGED <<world, db, watcher, indexLock, runs, skipped>>

(* storeExtractionResult up to the record: nothing is stored of a file     *)
(* that cannot be extracted, or whose content is the recorded one; what    *)
(* was recorded is deleted before the new rows come.                       *)
InsertRows(p) ==
    LET f == job[p].file IN
    /\ job[p].at = "store"
    /\ IF job[p].content \in Unfit \/ tracked[f].content = job[p].content
       THEN job' = [job EXCEPT ![p].at = "files"] /\ UNCHANGED <<tracked, rows, crashed>>
       ELSE /\ job' = [job EXCEPT ![p].at = "record"]
            /\ tracked' = [tracked EXCEPT ![f] = NoRecord]
            /\ rows' = [rows EXCEPT ![f] = (IF tracked[f].content = 0 THEN @ ELSE {})
                                                \cup {job[p].content}]
            /\ crashed' = IF tracked[f].content = 0 THEN crashed ELSE crashed \ {f}
    /\ UNCHANGED <<world, torn, blind, watcher, indexLock, runs, skipped>>

UpsertFile(p) ==
    LET f == job[p].file IN
    /\ job[p].at = "record" /\ job' = [job EXCEPT ![p].at = "files"]
    /\ tracked' = [tracked EXCEPT ![f] = [content |-> job[p].content, stamp |-> job[p].stamp]]
    /\ torn' = IF job[p].kind = "index" /\ job[p].stamp > job[p].content
               THEN torn \cup {f} ELSE torn \ {f}
    /\ blind' = IF job[p].content = disk[f] THEN blind \ {f} ELSE blind
    /\ UNCHANGED <<world, rows, crashed, watcher, indexLock, runs, skipped>>

(* FileLock.release: only the lock of one's own.                           *)
Release(p) ==
    /\ job[p].at = "files" /\ job[p].todo = {} /\ Finish(p, TRUE)
    /\ indexLock' = IF indexLock = p THEN "free" ELSE indexLock
    /\ UNCHANGED <<world, db, watch, events, dirEvent, catching, runs>>

(* The command line is interrupted.                                        *)
CrashRun ==
    /\ job["cli"] # Idle /\ job' = [job EXCEPT !["cli"] = Idle]
    /\ indexLock' = IF indexLock = "cli" THEN "dead" ELSE indexLock
    /\ crashed' = IF job["cli"].at = "record" THEN crashed \cup {job["cli"].file} ELSE crashed
    /\ UNCHANGED <<world, tracked, rows, torn, blind, watcher, runs, skipped>>

-----------------------------------------------------------------------------
StepWorld ==
    \/ \E f \in Files : Edit(f) \/ Remove(f)
    \/ RemoveDirectory \/ MakeDirectory

StepWatcher ==
    \/ StartWatching \/ HandleDirEvent \/ Flush \/ BeginCatchUp \/ BeginWatchSync
    \/ \E f \in Files : HandleChange(f)

Work(p) ==
    \/ Lock(p) \/ Scan(p) \/ ReadSecond(p) \/ InsertRows(p) \/ UpsertFile(p) \/ Release(p)
    \/ \E f \in Files : ReadFirst(p, f)

StepSync == StepWorld \/ StepWatcher \/ BeginRun \/ CrashRun \/ \E p \in Procs : Work(p)

SpecSync == InitSync /\ [][StepSync]_syncVars

-----------------------------------------------------------------------------
Jobs == [kind : {"none", "sync", "index", "catchup"},
         at : {"off", "lock", "scan", "files", "second", "store", "record"},
         todo : SUBSET Files, file : Files, content : 0 .. MaxEdits, stamp : 0 .. MaxEdits]

SyncTypeOK ==
    /\ disk \in [Files -> 0 .. MaxEdits] /\ edits \in 1 .. MaxEdits /\ sub \in BOOLEAN
    /\ tracked \in [Files -> [content : 0 .. MaxEdits, stamp : 0 .. MaxEdits]]
    /\ rows \in [Files -> SUBSET (1 .. MaxEdits)] /\ indexLock \in Holder
    /\ watch \in {"none", "live", "dead", "refused"} /\ events \subseteq Files /\ dirEvent \in BOOLEAN
    /\ pendingFiles \subseteq Files /\ late \subseteq Files /\ timer \in BOOLEAN
    /\ flushing \in BOOLEAN /\ catching \in {"off", "queued", "done"}
    /\ job \in [Procs -> Jobs] /\ runs \in 0 .. MaxRuns
    /\ torn \cup blind \cup crashed \subseteq Files /\ skipped \in BOOLEAN

Fresh(f) == rows[f] = {disk[f]} \ {0}

(* What the code cannot follow, for as long as it cannot: a file that      *)
(* indexAll recorded with the stamp of an edit it did not read, until it   *)
(* is recorded again; rows whose writer died before the record, until they *)
(* are written over; a catch-up sync that found the lock taken, until the  *)
(* server's next sync; a file that cannot be extracted; and what changed   *)
(* in a directory without a watch - one beyond the cap (watcher.ts:325),   *)
(* one that came back after its watch had died, a deletion in a new one    *)
(* not yet watched - until a sync reads the file again.                    *)
BeyondReach(f) ==
    f \in torn \cup blind \cup crashed \/ skipped \/ disk[f] \in Unfit

(* watcher.ts:563-570: "We prefer false positives over false negatives     *)
(* (shown fresh, actually stale)": while the server watches and its        *)
(* catch-up is over, a file whose rows are not those of its content is     *)
(* pending, about to be noticed, or beyond its reach.                      *)
StaleIsFlagged ==
    \A f \in Files :
        \/ Fresh(f) \/ BeyondReach(f)
        \/ ~Watching \/ catching = "queued" \/ job["server"].kind = "catchup"
        \/ f \in pendingFiles \cup events \/ (f \in Nested /\ dirEvent)

(* extraction/index.ts:1417-1425: edits, additions and deletions reach the *)
(* index once they stop, whoever else indexes or dies, but for what is     *)
(* beyond its reach.                                                       *)
IndexCatchesUp ==
    (Watching /\ edits = MaxEdits) ~> (\A f \in Files : Fresh(f) \/ BeyondReach(f))
=============================================================================
