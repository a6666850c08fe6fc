-------------------------- MODULE IndexSync_proofs --------------------------
(***************************************************************************)
(* Proofs about the work on codegraph's index: IndexSync and ParsePool, for*)
(* any files, edits, runs of the command line and workers, and FileLock,   *)
(* for any processes and deaths.                                           *)
(***************************************************************************)
EXTENDS IndexSync, ParsePool, FileLock, FiniteSetTheorems, WellFoundedInduction, TLAPS

(* The lock is with whoever has got past it, so they are not two.          *)
InLock == {"scan", "files", "second", "store", "record"}
LockIsWithJob == \A p \in Procs : job[p].at \in InLock => indexLock = p

(* What was read of a file was there: no later than what is there now.     *)
ReadsLookBack ==
    /\ \A f \in Files :
           /\ disk[f] <= edits /\ tracked[f].content <= edits
           /\ disk[f] # 0 => tracked[f].content <= disk[f]
    /\ \A p \in Procs :
           job[p].at \in {"second", "store", "record"} =>
               /\ job[p].content <= edits
               /\ disk[job[p].file] # 0 => job[p].content <= disk[job[p].file]
               /\ job[p].at # "second" \/ job[p].kind = "index" => job[p].content # 0
               /\ job[p].stamp <= edits
               /\ job[p].kind # "index" =>
                      IF job[p].at = "second"
                      THEN disk[job[p].file] # 0 => job[p].stamp <= disk[job[p].file]
                      ELSE job[p].stamp <= job[p].content

(* A record whose stamp is newer than its content is known as torn.        *)
TornIsKnown == \A f \in Files : f \notin torn => tracked[f].stamp <= tracked[f].content

(* The rows of a file are those of its record, unless it is being written. *)
Recording(f) == \E p \in Procs : job[p].at = "record" /\ job[p].file = f

RowsMatchRecords ==
    /\ \A f \in Files : f \in crashed \/ Recording(f) \/ rows[f] = {tracked[f].content} \ {0}
    /\ \A p \in Procs : job[p].at = "record" =>
           /\ tracked[job[p].file] = NoRecord
           /\ job[p].file \in crashed \/ rows[job[p].file] = {job[p].content}

(* A directory that is there has a watch, or was refused one, or the event *)
(* that gives it one is to come.                                           *)
WatchIsComing == Watching /\ sub /\ watch = "none" => dirEvent

(* Before the server watches there is nothing that it could have noticed;  *)
(* the syncs it runs are those of a flush and the one to catch up.         *)
JobsAreOrdered ==
    /\ ~Watching => events \cup pendingFiles = {} /\ ~dirEvent /\ ~timer /\ ~flushing
    /\ job["server"].kind # "none" => Watching
    /\ job["server"].kind = "sync" => flushing
    /\ job["server"].kind # "index" /\ job["cli"].kind # "catchup"
    /\ \A p \in Procs : job[p].at \in InLock \cup {"lock"} => job[p].kind # "none"
    /\ late \subseteq pendingFiles

(* A new file in a new directory, which the watch to come will find.       *)
Found(f) == f \in Nested /\ dirEvent /\ watch = "none" /\ sub /\ disk[f] # 0

Excused == ~Watching \/ catching = "queued" \/ job["server"].kind = "catchup"
Flagged(f) == f \in pendingFiles \cup events \/ Found(f)

(* What the next store of a file mends, and what is known of a file: that  *)
(* it may have changed since it was read.                                  *)
Marked(f) == f \in torn \cup crashed \/ disk[f] \in Unfit
Noted(f) == skipped \/ f \in blind \/ Flagged(f)
Noticed(f) == Marked(f) \/ Noted(f)

(* What is stale is flagged, and so is what another process has read that  *)
(* is there no longer.                                                     *)
StaleIsNoticed == Excused \/ \A f \in Files : Fresh(f) \/ Noticed(f)

Held(j) == j.at \in {"store", "record"} \/ (j.at = "second" /\ j.kind = "index")

ReadsAreNoticed ==
    LET j == job["cli"] IN Held(j) => Excused \/ j.content = disk[j.file] \/ Noted(j.file)

(* A sync of the server leaves a file that has not changed since its flush *)
(* began fresh, or still has it before it.                                 *)
SinceRead(f) ==
    \/ f \in blind \cup events \/ Found(f)
    \/ f \in IF job["server"].kind = "sync" THEN late ELSE pendingFiles

Since(f) == Marked(f) \/ SinceRead(f)

InHand(f) ==
    LET j == job["server"] IN
    disk[f] # 0 /\ (f \in j.todo \/ (f = j.file /\ (j.at = "second" \/ (j.at = "store" /\ j.content = disk[f]))))

SyncSettles ==
    LET j == job["server"] IN
    /\ j.at \in InLock \ {"scan"} => \A f \in Files : Fresh(f) \/ Since(f) \/ InHand(f)
    /\ j.at \in {"store", "record"} => j.content = disk[j.file] \/ SinceRead(j.file)

SyncInv ==
    /\ SyncTypeOK /\ LockIsWithJob /\ ReadsLookBack /\ TornIsKnown /\ RowsMatchRecords
    /\ WatchIsComing /\ JobsAreOrdered /\ StaleIsNoticed /\ ReadsAreNoticed /\ SyncSettles

-----------------------------------------------------------------------------
(* ParsePool.  The parse in hand has a ticket of its own.                  *)
Pending == [file |-> subject, ticket |-> ticket, bare |-> pass = "strip"]

TicketIsOwn ==
    /\ nextTicket # 0 /\ ticket < nextTicket /\ (asking = "parsing" <=> ticket # 0)
    /\ \A w \in Workers : \A j \in wjobs[w] :
           /\ j.ticket # 0 /\ j.ticket < nextTicket
           /\ j.ticket = ticket => w = worker /\ j = Pending

(* There is a worker while one is asked for, and none that is gone or that *)
(* loads its grammars was sent anything.                                   *)
WorkerIsReady ==
    /\ asking # "idle" => worker # 0
    /\ worker # 0 => wst[worker] \in IF asking = "spawning" THEN {"loading", "gone"} ELSE {"ready", "dead"}
    /\ \A w \in Workers : wst[w] \in {"loading", "gone"} => wjobs[w] = {}

(* What is before the parse in hand was hit in the main loop, and has cost *)
(* no other file yet; a retry has a worker of its own.                     *)
Behind(j) == pass = "main" => hits[j.file] > 0 /\ j.file \notin todo /\ cost[j.file] = "none"

QueuedWereHit ==
    /\ pass = "main" => \A f \in todo : cost[f] = "none"
    /\ worker # 0 => \A j \in wjobs[worker] : j.ticket = ticket \/ Behind(j)
    /\ pass # "main" /\ asking # "idle" => \A j \in wjobs[worker] : j.ticket = ticket

(* The passes, in their order.                                             *)
PassNumber == CASE pass = "main" -> 0 [] pass = "retry" -> 1 [] pass = "strip" -> 2 [] OTHER -> 3

(* A file that parses is indexed, or still to parse and rejected once in   *)
(* each pass before, or rejected in this one too; or lost in the first, to *)
(* an "error" event or behind a slow one.                                  *)
Stored(f) == result[f] = f /\ f \notin todo \cup again
Awaiting(f) == f \in todo /\ f \notin again /\ hits[f] = PassNumber
Rejected(f) == f \in again /\ f \notin todo /\ hits[f] = PassNumber + 1
Lost(f) ==
    /\ f \notin todo \cup again
    /\ \/ result[f] = "error" /\ hits[f] > 0
       \/ result[f] = "timeout" /\ \E s \in Slow : cost[s] = f /\ hits[s] > 0

FilesAreTried ==
    /\ asking # "idle" => subject \in todo /\ pass # "end"
    /\ \A f \in Sources : hits[f] <= IF f \in todo \/ pass = "end" THEN PassNumber ELSE PassNumber + 1
    /\ \A f \in Plain : Stored(f) \/ Awaiting(f) \/ Rejected(f) \/ Lost(f)

PoolInv == PoolTypeOK /\ ParseIsOwn /\ TicketIsOwn /\ WorkerIsReady /\ QueuedWereHit /\ FilesAreTried

-----------------------------------------------------------------------------
LEMMA IdleIsJob == Idle \in Jobs
BY SyncAssumption DEF SyncAssumption, Idle, Jobs

LEMMA BegunIsJob ==
    ASSUME SyncTypeOK, NEW p \in Procs, NEW kind \in {"sync", "index", "catchup"}, Begin(p, kind)
    PROVE  /\ job' \in [Procs -> Jobs] /\ \A q \in Procs : q # p => job'[q] = job[q]
           /\ job'[p].kind = kind /\ job'[p].at = "lock"
<1>1. [Idle EXCEPT !.kind = kind, !.at = "lock"] \in Jobs
  BY IdleIsJob DEF Jobs
<1>2. /\ [Idle EXCEPT !.kind = kind, !.at = "lock"].kind = kind
      /\ [Idle EXCEPT !.kind = kind, !.at = "lock"].at = "lock"
  BY DEF Idle
<1> QED
  BY <1>1, <1>2 DEF Begin, SyncTypeOK

LEMMA ReadFirstJob ==
    ASSUME SyncTypeOK, NEW p \in Procs, NEW f \in Files, ReadFirst(p, f)
    PROVE  /\ job' \in [Procs -> Jobs] /\ \A q \in Procs : q # p => job'[q] = job[q]
           /\ job'[p].kind = job[p].kind /\ job'[p].file = f /\ job'[p].todo = job[p].todo \ {f}
           /\ job'[p].at = IF disk[f] = 0 THEN "files" ELSE "second"
           /\ job'[p].content = IF job[p].kind = "index" THEN disk[f] ELSE 0
           /\ job'[p].stamp = IF job[p].kind = "index" THEN 0 ELSE disk[f]
<1>1. disk[f] \in 0 .. MaxEdits /\ 0 \in 0 .. MaxEdits /\ job \in [Procs -> Jobs] /\ job[p] \in Jobs
  BY SyncAssumption DEF SyncTypeOK, SyncAssumption
<1>2. job' \in [Procs -> Jobs]
  BY <1>1 DEF ReadFirst, Jobs
<1> QED
  BY <1>1, <1>2 DEF ReadFirst

LEMMA SyncTypesStart == InitSync => SyncTypeOK
<1> SUFFICES ASSUME InitSync PROVE SyncTypeOK
  OBVIOUS
<1>1. disk \in [Files -> 0 .. MaxEdits] /\ edits \in 1 .. MaxEdits /\ 0 \in 0 .. MaxRuns
  BY SyncAssumption DEF InitSync, SyncAssumption
<1>2. tracked \in [Files -> [content : 0 .. MaxEdits, stamp : 0 .. MaxEdits]]
  BY <1>1 DEF InitSync
<1>3. rows \in [Files -> SUBSET (1 .. MaxEdits)]
  BY <1>1, SyncAssumption DEF InitSync, SyncAssumption
<1> QED
  BY <1>1, <1>2, <1>3, IdleIsJob DEF InitSync, SyncTypeOK, Holder

(* A step that touches nothing but its job.                                *)
LEMMA JobTypes ==
    ASSUME SyncTypeOK, job' \in [Procs -> Jobs],
           UNCHANGED <<world, db, watcher, indexLock, runs, skipped>>
    PROVE  SyncTypeOK'
<1>1. /\ UNCHANGED <<disk, edits, sub>> /\ UNCHANGED <<tracked, rows, torn, blind, crashed>>
      /\ UNCHANGED <<watch, events, dirEvent, pendingFiles, late, timer, flushing, catching>>
  BY DEF world, db, watcher
<1> QED
  BY <1>1 DEF SyncTypeOK

LEMMA SyncTypesAreKept == ASSUME SyncTypeOK, ReadsLookBack, [StepSync]_syncVars PROVE SyncTypeOK'
<1> USE DEF SyncTypeOK, Holder, Procs
<1>1. ASSUME StepWorld PROVE SyncTypeOK'
  <2>1. ASSUME NEW f \in Files, Edit(f) PROVE SyncTypeOK'
    BY <2>1, SyncAssumption DEF Edit, SyncAssumption
  <2>2. ASSUME NEW f \in Files, Remove(f) PROVE SyncTypeOK'
    BY <2>2, SyncAssumption DEF Remove, SyncAssumption
  <2>3. CASE RemoveDirectory
    <3>1. disk' \in [Files -> 0 .. MaxEdits] /\ edits' \in 1 .. MaxEdits
      BY <2>3, SyncAssumption DEF RemoveDirectory, SyncAssumption
    <3>2. events' \subseteq Files /\ blind' \subseteq Files
      BY <2>3, SyncAssumption DEF RemoveDirectory, SyncAssumption, Present
    <3>3. watch' \in {"none", "live", "dead", "refused"}
      BY <2>3 DEF RemoveDirectory
    <3> QED
      BY <2>3, <3>1, <3>2, <3>3 DEF RemoveDirectory
  <2>4. CASE MakeDirectory
    BY <2>4, SyncAssumption DEF MakeDirectory, SyncAssumption, db, Watching
  <2> QED
    BY <1>1, <2>1, <2>2, <2>3, <2>4 DEF StepWorld
<1>2. ASSUME StepWatcher PROVE SyncTypeOK'
  <2>1. CASE StartWatching
    BY <2>1 DEF StartWatching, world, db
  <2>2. CASE HandleDirEvent
    <3>1. Present \subseteq Files
      BY SyncAssumption DEF Present, SyncAssumption
    <3>2. CASE WatchTree
      BY <2>2, <3>1, <3>2 DEF HandleDirEvent, WatchTree, Note, world
    <3>3. CASE UNCHANGED <<watch, pendingFiles, late, timer, blind>>
      BY <2>2, <3>3 DEF HandleDirEvent, world
    <3> QED
      BY <2>2, <3>2, <3>3 DEF HandleDirEvent
  <2>3. CASE Flush
    BY <2>3 DEF Flush, world, db
  <2>4. CASE BeginCatchUp
    BY <2>4, BegunIsJob DEF BeginCatchUp, world, db
  <2>5. CASE BeginWatchSync
    BY <2>5, BegunIsJob DEF BeginWatchSync, world, db, watcher
  <2>6. ASSUME NEW f \in Files, HandleChange(f) PROVE SyncTypeOK'
    BY <2>6 DEF HandleChange, Note, world, db
  <2> QED
    BY <1>2, <2>1, <2>2, <2>3, <2>4, <2>5, <2>6 DEF StepWatcher
<1>3. CASE BeginRun
  BY <1>3, BegunIsJob, SyncAssumption DEF BeginRun, world, db, watcher, SyncAssumption
<1>4. CASE CrashRun
  <2>1. job["cli"].file \in Files
    BY DEF Jobs
  <2> QED
    BY <1>4, <2>1, IdleIsJob DEF CrashRun, world, watcher
<1>5. ASSUME NEW p \in Procs, Work(p) PROVE SyncTypeOK'
  <2>1. job[p] \in Jobs
    OBVIOUS
  <2>2. CASE Lock(p)
    <3>1. job' \in [Procs -> Jobs]
      <4>1. job' = [job EXCEPT ![p].at = "scan"] \/ job' = [job EXCEPT ![p] = Idle]
        BY <2>2 DEF Lock, Finish
      <4> QED
        BY <2>1, <4>1, IdleIsJob DEF Jobs
    <3>2. /\ UNCHANGED <<disk, edits, sub, blind, tracked, rows, torn, crashed>>
          /\ UNCHANGED <<watch, events, dirEvent, catching, runs>>
      BY <2>2 DEF Lock, world, db
    <3>3. /\ indexLock' \in Holder /\ skipped' \in BOOLEAN
          /\ pendingFiles' \subseteq Files /\ late' \subseteq Files
          /\ timer' \in BOOLEAN /\ flushing' \in BOOLEAN
      BY <2>2 DEF Lock, Finish, Settle, FlushSettled
    <3> QED
      BY <3>1, <3>2, <3>3
  <2>3. CASE Scan(p)
    <3>1. job' \in [Procs -> Jobs]
      BY <2>1, <2>3 DEF Scan, Jobs
    <3>2. NoRecord \in [content : 0 .. MaxEdits, stamp : 0 .. MaxEdits]
      BY SyncAssumption DEF NoRecord, SyncAssumption
    <3> QED
      BY <2>3, <3>1, <3>2 DEF Scan, world, db, watcher
  <2>4. ASSUME NEW f \in Files, ReadFirst(p, f) PROVE SyncTypeOK'
    <3>1. job' \in [Procs -> Jobs]
      BY <2>4, ReadFirstJob
    <3>2. UNCHANGED <<world, db, watcher, indexLock, runs, skipped>>
      BY <2>4 DEF ReadFirst
    <3> QED
      BY <3>1, <3>2, JobTypes
  <2>5. CASE ReadSecond(p)
    <3>1. job' \in [Procs -> Jobs]
      <4> DEFINE d == disk[job[p].file]
                 k == [job[p] EXCEPT !.at = IF d = 0 THEN "files" ELSE "store",
                                     !.content = IF job[p].kind = "index" THEN @ ELSE d,
                                     !.stamp = IF job[p].kind = "index" THEN d ELSE @]
      <4>1. d \in 0 .. MaxEdits
        BY <2>1 DEF Jobs
      <4>2. job' = [job EXCEPT ![p] = k]
        BY <2>5 DEF ReadSecond
      <4> HIDE DEF d
      <4>3. k \in Jobs
        BY <2>1, <4>1 DEF Jobs
      <4> HIDE DEF k
      <4> QED
        BY <4>2, <4>3
    <3>2. UNCHANGED <<world, db, watcher, indexLock, runs, skipped>>
      BY <2>5 DEF ReadSecond
    <3> QED
      BY <3>1, <3>2, JobTypes
  <2>6. CASE InsertRows(p)
    <3>1. job' \in [Procs -> Jobs] /\ job[p].file \in Files
      <4>1. job' = [job EXCEPT ![p].at = "files"] \/ job' = [job EXCEPT ![p].at = "record"]
        BY <2>6 DEF InsertRows
      <4> QED
        BY <2>1, <4>1 DEF Jobs
    <3>2. NoRecord \in [content : 0 .. MaxEdits, stamp : 0 .. MaxEdits]
      BY SyncAssumption DEF NoRecord, SyncAssumption
    <3>3. job[p].content \in 1 .. MaxEdits
      BY <2>1, <2>6 DEF InsertRows, Jobs, ReadsLookBack
    <3>4. tracked' \in [Files -> [content : 0 .. MaxEdits, stamp : 0 .. MaxEdits]]
      BY <2>6, <3>1, <3>2 DEF InsertRows
    <3>5. rows' \in [Files -> SUBSET (1 .. MaxEdits)]
      BY <2>6, <3>1, <3>3 DEF InsertRows
    <3>6. /\ UNCHANGED <<disk, edits, sub, blind, torn, watch, events, dirEvent, pendingFiles, late,
                         timer, flushing, catching, indexLock, runs, skipped>>
          /\ crashed' \subseteq crashed
      BY <2>6 DEF InsertRows, world, watcher
    <3> QED
      BY <3>1, <3>4, <3>5, <3>6
  <2>7. CASE UpsertFile(p)
    <3>1. job' \in [Procs -> Jobs] /\ job[p].file \in Files
      BY <2>1, <2>7 DEF UpsertFile, Jobs
    <3>2. [content |-> job[p].content, stamp |-> job[p].stamp] \in [content : 0 .. MaxEdits, stamp : 0 .. MaxEdits]
      BY <2>1 DEF Jobs
    <3>3. tracked' \in [Files -> [content : 0 .. MaxEdits, stamp : 0 .. MaxEdits]]
      BY <2>7, <3>1, <3>2 DEF UpsertFile
    <3>4. torn' \cup blind' \cup crashed' \subseteq Files
      BY <2>7, <3>1 DEF UpsertFile
    <3>5. UNCHANGED <<disk, edits, sub, rows, watch, events, dirEvent, pendingFiles, late, timer,
                      flushing, catching, indexLock, runs, skipped>>
      BY <2>7 DEF UpsertFile, world, watcher
    <3> QED
      BY <3>1, <3>3, <3>4, <3>5
  <2>8. CASE Release(p)
    <3>1. job' \in [Procs -> Jobs]
      BY <2>8, IdleIsJob DEF Release, Finish
    <3> QED
      BY <2>8, <3>1 DEF Release, Finish, Settle, FlushSettled, world, db
  <2> QED
    BY <1>5, <2>2, <2>3, <2>4, <2>5, <2>6, <2>7, <2>8 DEF Work
<1>6. CASE UNCHANGED syncVars
  BY <1>6 DEF syncVars, world, db, watcher
<1> QED
  BY <1>1, <1>2, <1>3, <1>4, <1>5, <1>6 DEF StepSync

-----------------------------------------------------------------------------
(* What each kind of step leaves alone.                                    *)
LEMMA WorldFrame ==
    ASSUME StepWorld
    PROVE  /\ tracked' = tracked /\ rows' = rows /\ torn' = torn /\ crashed' = crashed
           /\ blind \subseteq blind' /\ pendingFiles' = pendingFiles /\ late' = late /\ timer' = timer
           /\ flushing' = flushing /\ catching' = catching
           /\ indexLock' = indexLock /\ job' = job /\ skipped' = skipped
<1> DEFINE Rest == /\ UNCHANGED <<tracked, rows, torn, crashed, pendingFiles, late, timer, flushing>>
                   /\ UNCHANGED <<catching, indexLock, job, skipped>> /\ blind \subseteq blind'
<1>1. ASSUME NEW f \in Files, Edit(f) PROVE Rest
  BY <1>1 DEF Edit
<1>2. ASSUME NEW f \in Files, Remove(f) PROVE Rest
  BY <1>2 DEF Remove
<1>3. ASSUME RemoveDirectory \/ MakeDirectory PROVE Rest
  BY <1>3 DEF RemoveDirectory, MakeDirectory, db
<1> QED
  BY <1>1, <1>2, <1>3 DEF StepWorld

LEMMA WatchFrame ==
    ASSUME SyncTypeOK, StepWatcher
    PROVE  /\ disk' = disk /\ edits' = edits /\ sub' = sub /\ blind \subseteq blind'
           /\ tracked' = tracked /\ rows' = rows /\ torn' = torn /\ crashed' = crashed
           /\ indexLock' = indexLock /\ skipped' = skipped /\ job'["cli"] = job["cli"]
<1>1. UNCHANGED <<world, tracked, rows, torn, crashed, indexLock, skipped>> /\ blind \subseteq blind'
  <2>1. CASE HandleDirEvent
    BY <2>1 DEF HandleDirEvent, WatchTree
  <2> QED
    BY <2>1 DEF StepWatcher, StartWatching, HandleChange, Flush, BeginCatchUp, BeginWatchSync, watcher, db
<1>2. job'["cli"] = job["cli"]
  <2>1. CASE job' = job
    BY <2>1
  <2>2. CASE BeginCatchUp \/ BeginWatchSync
    BY <2>2, BegunIsJob DEF BeginCatchUp, BeginWatchSync, Procs
  <2> QED
    BY <2>1, <2>2 DEF StepWatcher, StartWatching, HandleDirEvent, HandleChange, Flush
<1> QED
  BY <1>1, <1>2 DEF world

LEMMA WorkFrame ==
    ASSUME SyncTypeOK, NEW p \in Procs, Work(p)
    PROVE  /\ disk' = disk /\ edits' = edits /\ sub' = sub
           /\ watch' = watch /\ events' = events /\ dirEvent' = dirEvent /\ catching' = catching
           /\ \A q \in Procs \ {p} : job'[q] = job[q]
           /\ job'[p].kind = job[p].kind \/ job'[p] = Idle
           /\ skipped => skipped' \/ (p = "server" /\ Release(p))
<1> USE DEF world, db, watcher
<1>1. job \in [Procs -> Jobs] /\ job[p] \in Jobs
  BY DEF SyncTypeOK
<1>2. /\ disk' = disk /\ edits' = edits /\ sub' = sub
      /\ watch' = watch /\ events' = events /\ dirEvent' = dirEvent /\ catching' = catching
  BY DEF Work, Lock, Scan, ReadFirst, ReadSecond, InsertRows, UpsertFile, Release
<1>3. skipped => skipped' \/ (p = "server" /\ Release(p))
  <2>1. CASE Lock(p)
    BY <2>1 DEF Lock, Finish
  <2>2. CASE Release(p)
    BY <2>2 DEF Release, Finish
  <2> QED
    BY <2>1, <2>2 DEF Work, Scan, ReadFirst, ReadSecond, InsertRows, UpsertFile
<1>4. /\ \A q \in Procs \ {p} : job'[q] = job[q]
      /\ job'[p].kind = job[p].kind \/ job'[p] = Idle
  <2>1. CASE Lock(p)
    BY <1>1, <2>1 DEF Lock, Finish, Jobs
  <2>2. CASE Scan(p)
    BY <1>1, <2>2 DEF Scan, Jobs
  <2>3. ASSUME NEW f \in Files, ReadFirst(p, f)
        PROVE  (\A q \in Procs \ {p} : job'[q] = job[q]) /\ job'[p].kind = job[p].kind
    BY <2>3, ReadFirstJob
  <2>4. CASE ReadSecond(p)
    BY <1>1, <2>4 DEF ReadSecond, Jobs
  <2>5. CASE InsertRows(p)
    BY <1>1, <2>5 DEF InsertRows, Jobs
  <2>6. CASE UpsertFile(p)
    BY <1>1, <2>6 DEF UpsertFile, Jobs
  <2>7. CASE Release(p)
    BY <1>1, <2>7 DEF Release, Finish
  <2> QED
    BY <2>1, <2>2, <2>3, <2>4, <2>5, <2>6, <2>7 DEF Work
<1> QED
  BY <1>2, <1>3, <1>4

(* Two processes are never past the lock at once.                          *)
LEMMA OneInLock ==
    ASSUME LockIsWithJob, NEW p \in Procs, NEW q \in Procs, job[p].at \in InLock, job[q].at \in InLock
    PROVE  p = q
BY DEF LockIsWithJob

-----------------------------------------------------------------------------
LEMMA LockIsKept ==
    ASSUME SyncTypeOK, LockIsWithJob, StepSync PROVE LockIsWithJob'
<1> USE DEF LockIsWithJob, InLock
<1>0. job \in [Procs -> Jobs] /\ "free" \notin Procs /\ "dead" \notin Procs /\ Idle.at = "off"
  BY DEF SyncTypeOK, Procs, Idle
<1>1. CASE StepWorld
  BY <1>1, WorldFrame
<1>2. CASE StepWatcher
  <2>1. CASE job' = job
    BY <1>2, <2>1, WatchFrame
  <2>2. CASE BeginCatchUp
    BY <1>2, <2>2, WatchFrame, BegunIsJob DEF BeginCatchUp, Procs
  <2>3. CASE BeginWatchSync
    BY <1>2, <2>3, WatchFrame, BegunIsJob DEF BeginWatchSync, Procs
  <2> QED
    BY <1>2, <2>1, <2>2, <2>3 DEF StepWatcher, StartWatching, HandleDirEvent, HandleChange, Flush
<1>3. CASE BeginRun
  BY <1>3, BegunIsJob DEF BeginRun, Procs
<1>4. CASE CrashRun
  BY <1>0, <1>4 DEF CrashRun
<1>5. ASSUME NEW p \in Procs, Work(p) PROVE LockIsWithJob'
  <2>0. \A q \in Procs \ {p} : job'[q] = job[q]
    BY <1>5, WorkFrame
  <2>1. CASE Lock(p)
    <3>1. CASE indexLock \in {"free", "dead"}
      BY <1>0, <2>0, <2>1, <3>1 DEF Lock
    <3>2. CASE indexLock \notin {"free", "dead"}
      <4>1. job'[p].at = "off" /\ indexLock' = indexLock
        BY <1>0, <2>1, <3>2 DEF Lock, Finish
      <4> QED
        BY <2>0, <4>1
    <3> QED
      BY <3>1, <3>2
  <2>2. CASE Release(p)
    BY <1>0, <2>0, <2>2 DEF Release, Finish
  <2>3. CASE indexLock' = indexLock /\ job[p].at \in InLock
    BY <2>0, <2>3
  <2> QED
    BY <1>5, <2>1, <2>2, <2>3 DEF Work, Scan, ReadFirst, ReadSecond, InsertRows, UpsertFile
<1> QED
  BY <1>1, <1>2, <1>3, <1>4, <1>5 DEF StepSync

(* How a job goes on.                                                      *)
LEMMA JobSteps ==
    ASSUME SyncTypeOK, NEW p \in Procs
    PROVE  LET j == job[p]
               k == job'[p]
           IN
           /\ Lock(p) => k = Idle \/ (k.at = "scan" /\ k.kind = j.kind)
           /\ Scan(p) => /\ j.at = "scan" /\ k.at = "files" /\ k.kind = j.kind
                         /\ k.todo = {f \in Files : IF j.kind = "index" THEN disk[f] # 0 ELSE Changed(f)}
           /\ ReadSecond(p) =>
                  /\ j.at = "second" /\ k.at = IF disk[j.file] = 0 THEN "files" ELSE "store"
                  /\ k.kind = j.kind /\ k.todo = j.todo /\ k.file = j.file
                  /\ k.content = IF j.kind = "index" THEN j.content ELSE disk[j.file]
                  /\ k.stamp = IF j.kind = "index" THEN disk[j.file] ELSE j.stamp
           /\ InsertRows(p) =>
                  /\ j.at = "store" /\ k.at \in {"files", "record"} /\ k.kind = j.kind
                  /\ k.todo = j.todo /\ k.file = j.file /\ k.content = j.content /\ k.stamp = j.stamp
           /\ UpsertFile(p) =>
                  /\ j.at = "record" /\ k.at = "files" /\ k.kind = j.kind /\ k.todo = j.todo
           /\ Release(p) => j.at = "files" /\ j.todo = {} /\ k = Idle
<1> USE DEF SyncTypeOK, Jobs
<1>1. Lock(p) => job'[p] = Idle \/ (job'[p].at = "scan" /\ job'[p].kind = job[p].kind)
  BY DEF Lock, Finish
<1>2. Scan(p) => /\ job[p].at = "scan" /\ job'[p].at = "files" /\ job'[p].kind = job[p].kind
                 /\ job'[p].todo = {f \in Files : IF job[p].kind = "index" THEN disk[f] # 0 ELSE Changed(f)}
  BY DEF Scan
<1>3. ReadSecond(p) =>
          /\ job[p].at = "second"
          /\ job'[p].at = IF disk[job[p].file] = 0 THEN "files" ELSE "store"
          /\ job'[p].kind = job[p].kind /\ job'[p].todo = job[p].todo /\ job'[p].file = job[p].file
          /\ job'[p].content = IF job[p].kind = "index" THEN job[p].content ELSE disk[job[p].file]
          /\ job'[p].stamp = IF job[p].kind = "index" THEN disk[job[p].file] ELSE job[p].stamp
  BY DEF ReadSecond
<1>4. InsertRows(p) =>
          /\ job[p].at = "store" /\ job'[p].at \in {"files", "record"} /\ job'[p].kind = job[p].kind
          /\ job'[p].todo = job[p].todo /\ job'[p].file = job[p].file
          /\ job'[p].content = job[p].content /\ job'[p].stamp = job[p].stamp
  BY DEF InsertRows
<1>5. UpsertFile(p) =>
          /\ job[p].at = "record" /\ job'[p].at = "files" /\ job'[p].kind = job[p].kind
          /\ job'[p].todo = job[p].todo
  BY DEF UpsertFile
<1>6. Release(p) => job[p].at = "files" /\ job[p].todo = {} /\ job'[p] = Idle
  BY DEF Release, Finish
<1> QED
  BY <1>1, <1>2, <1>3, <1>4, <1>5, <1>6

(* A job of the other process, or of none, is as it was.                   *)
LEMMA OtherJobs ==
    ASSUME SyncTypeOK
    PROVE  /\ StepWorld \/ StartWatching \/ HandleDirEvent \/ Flush \/ (\E f \in Files : HandleChange(f))
                  => job' = job
           /\ BeginCatchUp => /\ job["server"] = Idle /\ job'["cli"] = job["cli"]
                              /\ job'["server"].at = "lock" /\ job'["server"].kind = "catchup"
           /\ BeginWatchSync => /\ job["server"] = Idle /\ job'["cli"] = job["cli"]
                                /\ job'["server"].at = "lock" /\ job'["server"].kind = "sync"
           /\ BeginRun => /\ job["cli"] = Idle /\ job'["server"] = job["server"]
                          /\ job'["cli"].at = "lock" /\ job'["cli"].kind \in {"sync", "index"}
           /\ CrashRun => job'["cli"] = Idle /\ job'["server"] = job["server"]
<1>1. StepWorld => job' = job
  BY WorldFrame
<1>2. StartWatching \/ HandleDirEvent \/ Flush \/ (\E f \in Files : HandleChange(f)) => job' = job
  BY DEF StartWatching, HandleDirEvent, Flush, HandleChange
<1>3. BeginCatchUp => /\ job["server"] = Idle /\ job'["cli"] = job["cli"]
                      /\ job'["server"].at = "lock" /\ job'["server"].kind = "catchup"
  BY BegunIsJob DEF BeginCatchUp, Procs
<1>4. BeginWatchSync => /\ job["server"] = Idle /\ job'["cli"] = job["cli"]
                        /\ job'["server"].at = "lock" /\ job'["server"].kind = "sync"
  BY BegunIsJob DEF BeginWatchSync, Procs
<1>5. BeginRun => /\ job["cli"] = Idle /\ job'["server"] = job["server"]
                  /\ job'["cli"].at = "lock" /\ job'["cli"].kind \in {"sync", "index"}
  BY BegunIsJob DEF BeginRun, Procs
<1>6. CrashRun => job'["cli"] = Idle /\ job'["server"] = job["server"]
  BY DEF CrashRun, SyncTypeOK, Procs
<1> QED
  BY <1>1, <1>2, <1>3, <1>4, <1>5, <1>6

-----------------------------------------------------------------------------
LEMMA TornStaysKnown ==
    ASSUME SyncTypeOK, ReadsLookBack, TornIsKnown, StepSync PROVE TornIsKnown'
<1> USE DEF TornIsKnown
<1>0. 0 <= 0 /\ NoRecord.stamp = 0 /\ NoRecord.content = 0
  BY DEF NoRecord
<1>1. CASE StepWorld
  BY <1>1, WorldFrame
<1>2. CASE StepWatcher
  BY <1>2, WatchFrame
<1>3. CASE BeginRun \/ CrashRun
  BY <1>3 DEF BeginRun, CrashRun, db
<1>4. ASSUME NEW p \in Procs, Work(p) PROVE TornIsKnown'
  <2>0. job[p] \in Jobs /\ tracked \in [Files -> [content : 0 .. MaxEdits, stamp : 0 .. MaxEdits]]
    BY DEF SyncTypeOK
  <2>1. CASE Scan(p)
    <3>1. \A f \in Files : tracked'[f] = NoRecord \/ (tracked'[f] = tracked[f] /\ (f \in torn => f \in torn'))
      BY <2>1, <2>0 DEF Scan, db
    <3> QED
      BY <1>0, <3>1
  <2>2. CASE InsertRows(p)
    BY <1>0, <2>0, <2>2 DEF InsertRows
  <2>3. CASE UpsertFile(p)
    <3>1. job[p].content \in Nat /\ job[p].stamp \in Nat /\ job[p].file \in Files
      BY <2>0, SyncAssumption DEF Jobs, SyncAssumption
    <3>2. job[p].kind # "index" => job[p].stamp <= job[p].content
      BY <2>3 DEF UpsertFile, ReadsLookBack
    <3>3. ASSUME NEW f \in Files, f \notin torn' PROVE tracked'[f].stamp <= tracked'[f].content
      <4>1. CASE f = job[p].file
        BY <2>0, <2>3, <3>1, <3>2, <3>3, <4>1 DEF UpsertFile
      <4>2. CASE f # job[p].file
        BY <2>0, <2>3, <3>3, <4>2 DEF UpsertFile
      <4> QED
        BY <4>1, <4>2
    <3> QED
      BY <3>3
  <2> QED
    BY <1>4, <2>1, <2>2, <2>3 DEF Work, Lock, ReadFirst, ReadSecond, Release, db
<1> QED
  BY <1>1, <1>2, <1>3, <1>4 DEF StepSync

LEMMA WatchStillComes ==
    ASSUME SyncTypeOK, WatchIsComing, StepSync PROVE WatchIsComing'
<1> USE DEF WatchIsComing, Watching
<1>1. ASSUME NEW f \in Files, Edit(f) \/ Remove(f) PROVE WatchIsComing'
  BY <1>1 DEF Edit, Remove
<1>2. CASE RemoveDirectory \/ MakeDirectory
  BY <1>2 DEF RemoveDirectory, MakeDirectory
<1>3. CASE StepWatcher
  BY <1>3 DEF StepWatcher, StartWatching, HandleDirEvent, WatchTree, HandleChange, Flush, BeginCatchUp,
              BeginWatchSync, world, watcher
<1>4. CASE BeginRun \/ CrashRun
  BY <1>4 DEF BeginRun, CrashRun, world, watcher
<1>5. ASSUME NEW p \in Procs, Work(p) PROVE WatchIsComing'
  BY <1>5, WorkFrame
<1> QED
  BY <1>1, <1>2, <1>3, <1>4, <1>5 DEF StepSync, StepWorld

LEMMA ReadsStillLookBack ==
    ASSUME SyncTypeOK, SyncTypeOK', ReadsLookBack, StepSync PROVE ReadsLookBack'
<1> DEFINE Kept(f) == /\ disk[f] <= edits /\ tracked[f].content <= edits
                      /\ disk[f] # 0 => tracked[f].content <= disk[f]
           Read(p) == job[p].at \in {"second", "store", "record"} =>
                          /\ job[p].content <= edits
                          /\ disk[job[p].file] # 0 => job[p].content <= disk[job[p].file]
                          /\ job[p].at # "second" \/ job[p].kind = "index" => job[p].content # 0
                          /\ job[p].stamp <= edits
                          /\ job[p].kind # "index" =>
                                 IF job[p].at = "second"
                                 THEN disk[job[p].file] # 0 => job[p].stamp <= disk[job[p].file]
                                 ELSE job[p].stamp <= job[p].content
<1>0. /\ disk \in [Files -> Nat] /\ edits \in Nat
      /\ tracked \in [Files -> [content : Nat, stamp : Nat]]
      /\ \A p \in Procs : job[p].file \in Files /\ job[p].content \in Nat /\ job[p].stamp \in Nat
  BY SyncAssumption DEF SyncTypeOK, Jobs, SyncAssumption
<1>a. (\A f \in Files : Kept(f)) /\ \A p \in Procs : Read(p)
  BY DEF ReadsLookBack
<1>b. SUFFICES (\A f \in Files : Kept(f)') /\ \A p \in Procs : Read(p)'
  BY DEF ReadsLookBack
<1>1. ASSUME StepWorld PROVE (\A f \in Files : Kept(f)') /\ \A p \in Procs : Read(p)'
  <2>1. \A f \in Files : edits <= edits' /\ disk'[f] \in {disk[f], 0, edits'} /\ edits' \in Nat
    <3>1. ASSUME NEW g \in Files, Edit(g) \/ Remove(g)
          PROVE  \A f \in Files : edits <= edits' /\ disk'[f] \in {disk[f], 0, edits'} /\ edits' \in Nat
      BY <1>0, <3>1 DEF Edit, Remove
    <3>2. CASE RemoveDirectory
      BY <1>0, <3>2 DEF RemoveDirectory
    <3>3. CASE MakeDirectory
      BY <1>0, <3>3 DEF MakeDirectory
    <3> QED
      BY <1>1, <3>1, <3>2, <3>3 DEF StepWorld
  <2>2. tracked' = tracked /\ job' = job
    BY <1>1, WorldFrame
  <2>3. ASSUME NEW f \in Files PROVE Kept(f)'
    BY <1>0, <1>a, <2>1, <2>2
  <2>4. ASSUME NEW p \in Procs PROVE Read(p)'
    <3>1. job[p].file \in Files /\ job[p].content \in Nat /\ job[p].stamp \in Nat /\ Read(p)
      BY <1>0, <1>a
    <3> QED
      BY <1>0, <2>1, <2>2, <3>1
  <2> QED
    BY <2>3, <2>4
<1>2. ASSUME StepWatcher \/ BeginRun \/ CrashRun
      PROVE  (\A f \in Files : Kept(f)') /\ \A p \in Procs : Read(p)'
  <2>1. disk' = disk /\ edits' = edits /\ tracked' = tracked
    BY <1>2, WatchFrame DEF BeginRun, CrashRun, world, db
  <2>2. ASSUME NEW p \in Procs PROVE job'[p] = job[p] \/ job'[p].at \in {"lock", "off"}
    BY <1>2, OtherJobs DEF StepWatcher, Procs, Idle
  <2> QED
    BY <1>a, <2>1, <2>2
<1>3. ASSUME NEW p \in Procs, Work(p) PROVE (\A f \in Files : Kept(f)') /\ \A q \in Procs : Read(q)'
  <2>1. disk' = disk /\ edits' = edits /\ \A q \in Procs \ {p} : job'[q] = job[q]
    BY <1>3, WorkFrame
  <2>2. \A f \in Files : Kept(f)'
    <3>0. NoRecord.content = 0
      BY DEF NoRecord
    <3>1. CASE tracked' = tracked
      BY <1>a, <2>1, <3>1
    <3>2. CASE Scan(p) \/ InsertRows(p)
      <4>1. \A f \in Files : tracked'[f].content \in {0, tracked[f].content}
        BY <1>0, <3>0, <3>2 DEF Scan, InsertRows, db
      <4> QED
        BY <1>0, <1>a, <2>1, <4>1
    <3>3. CASE UpsertFile(p)
      <4>1. /\ job[p].at = "record" /\ job[p].file \in Files
            /\ \A f \in Files : tracked'[f].content =
                   IF f = job[p].file THEN job[p].content ELSE tracked[f].content
        BY <1>0, <3>3 DEF UpsertFile
      <4>2. Read(p)
        BY <1>a
      <4> QED
        BY <1>0, <1>a, <2>1, <4>1, <4>2
    <3> QED
      BY <1>3, <3>1, <3>2, <3>3 DEF Work, Lock, ReadFirst, ReadSecond, Release, db
  <2>3. Read(p)'
    <3>0. Read(p) /\ 0 <= edits /\ \A f \in Files : disk[f] <= edits /\ 0 <= disk[f] /\ disk[f] <= disk[f]
      BY <1>0, <1>a
    <3>1. CASE Lock(p) \/ Scan(p) \/ UpsertFile(p) \/ Release(p)
      <4>1. job'[p] = Idle \/ job'[p].at \in {"scan", "files"}
        BY <3>1, JobSteps
      <4> QED
        BY <4>1 DEF Idle
    <3>2. ASSUME NEW f \in Files, ReadFirst(p, f) PROVE Read(p)'
      BY <2>1, <3>0, <3>2, ReadFirstJob
    <3>3. CASE ReadSecond(p)
      BY <1>0, <2>1, <3>0, <3>3, JobSteps
    <3>4. CASE InsertRows(p)
      BY <1>0, <2>1, <3>0, <3>4, JobSteps
    <3> QED
      BY <1>3, <3>1, <3>2, <3>3, <3>4 DEF Work
  <2> QED
    BY <1>a, <2>1, <2>2, <2>3
<1> QED
  BY <1>1, <1>2, <1>3 DEF StepSync

LEMMA JobsStayOrdered ==
    ASSUME SyncTypeOK, JobsAreOrdered, StepSync PROVE JobsAreOrdered'
<1> USE DEF JobsAreOrdered, Watching
<1>0. Idle.kind = "none" /\ Idle.at = "off" /\ "server" \in Procs /\ "cli" \in Procs
  BY DEF Idle, Procs
<1>1. CASE StepWorld
  <2>1. ~Watching => events' = {} /\ ~dirEvent'
    BY <1>1 DEF StepWorld, Edit, Remove, RemoveDirectory, MakeDirectory, Seen
  <2> QED
    BY <1>1, <2>1, WorldFrame
<1>2. CASE StepWatcher
  <2>1. CASE StartWatching
    BY <2>1, OtherJobs DEF StartWatching
  <2>2. CASE HandleDirEvent
    BY <2>2, OtherJobs DEF HandleDirEvent, WatchTree, Note
  <2>3. CASE Flush
    BY <2>3, OtherJobs DEF Flush
  <2>4. CASE BeginCatchUp
    BY <1>0, <2>4, OtherJobs DEF BeginCatchUp, InLock, Procs
  <2>5. CASE BeginWatchSync
    BY <1>0, <2>5, OtherJobs DEF BeginWatchSync, InLock, Procs, watcher
  <2>6. ASSUME NEW f \in Files, HandleChange(f) PROVE JobsAreOrdered'
    BY <2>6, OtherJobs DEF HandleChange, Note
  <2> QED
    BY <1>2, <2>1, <2>2, <2>3, <2>4, <2>5, <2>6 DEF StepWatcher
<1>3. CASE BeginRun
  BY <1>0, <1>3, OtherJobs DEF BeginRun, InLock, Procs, watcher
<1>4. CASE CrashRun
  BY <1>0, <1>4, OtherJobs DEF CrashRun, InLock, Procs, watcher
<1>5. ASSUME NEW p \in Procs, Work(p) PROVE JobsAreOrdered'
  <2>0. /\ events' = events /\ dirEvent' = dirEvent /\ catching' = catching
        /\ \A q \in Procs \ {p} : job'[q] = job[q]
        /\ job'[p].kind = job[p].kind \/ job'[p] = Idle
    BY <1>5, WorkFrame
  <2>1. /\ job'["server"].kind # "none" => Watching
        /\ job'["server"].kind # "index" /\ job'["cli"].kind # "catchup"
    BY <1>0, <2>0
  <2>2. \A q \in Procs : job'[q].at \in InLock \cup {"lock"} => job'[q].kind # "none"
    <3>1. job[p].at \in InLock \cup {"lock"} /\ job[p] \in Jobs
      BY <1>5 DEF Work, Lock, Scan, ReadFirst, ReadSecond, InsertRows, UpsertFile, Release, InLock,
                  SyncTypeOK
    <3> QED
      BY <1>0, <2>0, <3>1 DEF InLock
  <2>3. CASE Lock(p) \/ Release(p)
    <3>1. CASE UNCHANGED <<flushing, pendingFiles, timer, late>>
      BY <1>0, <2>0, <2>1, <2>2, <3>1
    <3>2. ASSUME NEW ok \in BOOLEAN, p = "server", job[p].kind = "sync", Settle(ok), job'[p] = Idle
          PROVE  JobsAreOrdered'
      BY <1>0, <2>0, <2>1, <2>2, <3>2 DEF Settle, FlushSettled, Procs
    <3>3. \E ok \in BOOLEAN : Finish(p, ok) \/ UNCHANGED <<flushing, pendingFiles, timer, late>>
      BY <2>3 DEF Lock, Release
    <3>4. ASSUME NEW ok \in BOOLEAN, Finish(p, ok) PROVE JobsAreOrdered'
      <4>1. job'[p] = Idle
        BY <3>4 DEF Finish, SyncTypeOK
      <4> QED
        BY <3>1, <3>2, <3>4, <4>1 DEF Finish
    <3> QED
      BY <3>1, <3>3, <3>4
  <2>4. CASE UNCHANGED watcher
    BY <2>0, <2>1, <2>2, <2>4, <1>0 DEF watcher
  <2> QED
    BY <1>5, <2>3, <2>4 DEF Work, Scan, ReadFirst, ReadSecond, InsertRows, UpsertFile
<1> QED
  BY <1>1, <1>2, <1>3, <1>4, <1>5 DEF StepSync

(* Past the lock, nobody else is.                                          *)
LEMMA OthersWait ==
    ASSUME LockIsWithJob, NEW p \in Procs, job[p].at \in InLock
    PROVE  \A q \in Procs \ {p} : job[q].at \notin InLock
BY DEF LockIsWithJob

LEMMA RowsStillMatch ==
    ASSUME SyncTypeOK, LockIsWithJob, ReadsLookBack, RowsMatchRecords, StepSync
    PROVE  RowsMatchRecords'
<1> DEFINE Own(f) == f \in crashed \/ rows[f] = {tracked[f].content} \ {0}
           Half(p) == /\ tracked[job[p].file] = NoRecord
                      /\ job[p].file \in crashed \/ rows[job[p].file] = {job[p].content}
<1>0. job \in [Procs -> Jobs] /\ NoRecord.content = 0 /\ Idle.at = "off" /\ "cli" \in Procs
  BY DEF SyncTypeOK, NoRecord, Idle, Procs
<1>a. /\ \A f \in Files : Recording(f) \/ Own(f)
      /\ \A q \in Procs : job[q].at = "record" => Half(q)
  BY DEF RowsMatchRecords
<1>b. ASSUME rows' = rows, tracked' = tracked, crashed' = crashed,
             \A p \in Procs : \/ job'[p] = job[p]
                              \/ job[p].at # "record" /\ job'[p].at # "record"
      PROVE  RowsMatchRecords'
  BY <1>b DEF RowsMatchRecords, Recording
<1>1. CASE StepWorld
  BY <1>1, <1>b, WorldFrame
<1>2. CASE StepWatcher
  <2>1. \A p \in Procs : \/ job'[p] = job[p]
                         \/ job[p].at # "record" /\ job'[p].at # "record"
    BY <1>0, <1>2, OtherJobs DEF StepWatcher, Procs
  <2> QED
    BY <1>2, <2>1, <1>b, WatchFrame
<1>3. CASE BeginRun
  <2>1. \A p \in Procs : \/ job'[p] = job[p]
                         \/ job[p].at # "record" /\ job'[p].at # "record"
    BY <1>0, <1>3, OtherJobs DEF Procs
  <2> QED
    BY <1>3, <2>1, <1>b DEF BeginRun, db
<1>4. CASE CrashRun
  <2>1. /\ rows' = rows /\ tracked' = tracked /\ crashed \subseteq crashed'
        /\ job["cli"].at = "record" => job["cli"].file \in crashed'
    BY <1>4 DEF CrashRun
  <2>2. \A p \in Procs : p = "cli" \/ job'[p] = job[p]
    BY <1>4, OtherJobs DEF Procs
  <2>3. job'["cli"].at = "off"
    BY <1>0, <1>4, OtherJobs
  <2>4. \A f \in Files : Recording(f)' \/ Own(f)'
    BY <1>a, <2>1, <2>2, <2>3 DEF Recording
  <2>5. \A q \in Procs : job'[q].at = "record" => Half(q)'
    BY <1>a, <2>1, <2>2, <2>3
  <2> QED
    BY <2>4, <2>5 DEF RowsMatchRecords
<1>5. ASSUME NEW p \in Procs, Work(p) PROVE RowsMatchRecords'
  <2>0. (\A q \in Procs \ {p} : job'[q] = job[q]) /\ job[p] \in Jobs
    BY <1>0, <1>5, WorkFrame
  <2>1. CASE Lock(p) \/ Release(p)
    <3>1. job[p].at # "record" /\ job'[p].at # "record"
      BY <1>0, <2>1, JobSteps DEF Lock, Release
    <3>2. rows' = rows /\ tracked' = tracked /\ crashed' = crashed
      BY <2>1 DEF Lock, Release, db
    <3> QED
      BY <1>b, <2>0, <3>1, <3>2
  <2>2. ASSUME ReadSecond(p) \/ \E f \in Files : ReadFirst(p, f) PROVE RowsMatchRecords'
    <3>1. job[p].at # "record" /\ job'[p].at # "record"
      BY <2>2, JobSteps, ReadFirstJob DEF ReadFirst
    <3>2. rows' = rows /\ tracked' = tracked /\ crashed' = crashed
      BY <2>2 DEF ReadSecond, ReadFirst, db
    <3> QED
      BY <1>b, <2>0, <3>1, <3>2
  <2>3. CASE Scan(p)
    <3>1. \A q \in Procs : job[q].at # "record" /\ job'[q].at # "record"
      BY <2>0, <2>3, OthersWait, JobSteps DEF InLock
    <3>2. \A f \in Files : \/ /\ rows'[f] = rows[f] /\ tracked'[f] = tracked[f]
                              /\ f \in crashed => f \in crashed'
                           \/ rows'[f] = {} /\ tracked'[f] = NoRecord
      BY <2>3 DEF Scan, db, SyncTypeOK
    <3>3. \A f \in Files : Own(f)
      BY <1>a, <3>1 DEF Recording
    <3>4. \A f \in Files : Own(f)'
      BY <1>0, <3>2, <3>3
    <3> QED
      BY <3>1, <3>4 DEF RowsMatchRecords
  <2>4. CASE InsertRows(p)
    <3>0. job[p].at = "store" /\ job[p].file \in Files
      BY <2>0, <2>4 DEF InsertRows, Jobs
    <3>1. \A q \in Procs : job[q].at # "record" /\ (q # p => job'[q].at # "record")
      BY <2>0, <3>0, OthersWait DEF InLock
    <3>2. \A f \in Files : Own(f)
      BY <1>a, <3>1 DEF Recording
    <3>3. CASE tracked' = tracked /\ rows' = rows /\ crashed' = crashed /\ job'[p].at = "files"
      BY <1>b, <2>0, <3>1, <3>3
    <3>4. ASSUME job' = [job EXCEPT ![p].at = "record"],
                 tracked' = [tracked EXCEPT ![job[p].file] = NoRecord],
                 rows' = [rows EXCEPT ![job[p].file] =
                              (IF tracked[job[p].file].content = 0 THEN @ ELSE {}) \cup {job[p].content}],
                 crashed' = IF tracked[job[p].file].content = 0 THEN crashed ELSE crashed \ {job[p].file}
          PROVE  RowsMatchRecords'
      <4>1. job'[p].at = "record" /\ job'[p].file = job[p].file /\ job'[p].content = job[p].content
        BY <1>0, <2>0, <3>4 DEF Jobs
      <4>2. /\ \A f \in Files \ {job[p].file} : /\ rows'[f] = rows[f] /\ tracked'[f] = tracked[f]
                                                /\ f \in crashed => f \in crashed'
            /\ tracked'[job[p].file] = NoRecord
        BY <3>0, <3>4 DEF SyncTypeOK
      <4>3. job[p].file \in crashed' \/ rows'[job[p].file] = {job[p].content}
        <5>1. tracked[job[p].file].content = 0 => job[p].file \in crashed \/ rows[job[p].file] = {}
          BY <3>0, <3>2
        <5>2. rows'[job[p].file] =
                  (IF tracked[job[p].file].content = 0 THEN rows[job[p].file] ELSE {}) \cup {job[p].content}
          BY <3>0, <3>4 DEF SyncTypeOK
        <5> QED
          BY <3>4, <5>1, <5>2
      <4>4. ASSUME NEW f \in Files PROVE Recording(f)' \/ Own(f)'
        <5>1. CASE f = job[p].file
          BY <4>1, <5>1 DEF Recording
        <5>2. CASE f # job[p].file
          <6>1. f \in crashed \/ rows[f] = {tracked[f].content} \ {0}
            BY <3>2
          <6>2. rows'[f] = rows[f] /\ tracked'[f] = tracked[f] /\ (f \in crashed => f \in crashed')
            BY <4>2, <5>2
          <6>3. f \in crashed' \/ rows'[f] = {tracked'[f].content} \ {0}
            BY <6>1, <6>2
          <6> QED
            BY <6>3
        <5> QED
          BY <5>1, <5>2
      <4>5. \A q \in Procs : job'[q].at = "record" => Half(q)'
        BY <3>1, <4>1, <4>2, <4>3
      <4> QED
        BY <4>4, <4>5 DEF RowsMatchRecords
    <3>5. job' = [job EXCEPT ![p].at = "files"] => job'[p].at = "files"
      BY <1>0, <2>0 DEF Jobs
    <3> QED
      BY <2>4, <3>3, <3>4, <3>5 DEF InsertRows
  <2>5. CASE UpsertFile(p)
    <3>0. job[p].at = "record" /\ job[p].file \in Files /\ job'[p].at = "files"
      BY <2>0, <2>5, JobSteps DEF Jobs
    <3>1. \A q \in Procs : job'[q].at # "record" /\ (q # p => job[q].at # "record")
      BY <2>0, <3>0, OthersWait DEF InLock
    <3>2. /\ \A f \in Files \ {job[p].file} : rows'[f] = rows[f] /\ tracked'[f] = tracked[f]
          /\ rows'[job[p].file] = rows[job[p].file] /\ crashed' = crashed
          /\ tracked'[job[p].file].content = job[p].content
      BY <3>0, <2>5 DEF UpsertFile, SyncTypeOK
    <3>3. job[p].content # 0
      BY <3>0 DEF ReadsLookBack
    <3>4. Half(p) /\ \A f \in Files \ {job[p].file} : Own(f)
      BY <1>a, <3>0, <3>1 DEF Recording
    <3>5. \A f \in Files : Own(f)'
      BY <3>2, <3>3, <3>4
    <3> QED
      BY <3>1, <3>5 DEF RowsMatchRecords
  <2> QED
    BY <1>5, <2>1, <2>2, <2>3, <2>4, <2>5 DEF Work
<1> QED
  BY <1>1, <1>2, <1>3, <1>4, <1>5 DEF StepSync

-----------------------------------------------------------------------------
(* What the world does to a file while the server watches, an event tells, *)
(* the watch to come will find, or no watch sees.                          *)
LEMMA WorldIsSeen ==
    ASSUME SyncTypeOK, WatchIsComing, StepWorld, Watching, NEW f \in Files,
           disk'[f] # disk[f] \/ f \in events \cup blind \/ Found(f)
    PROVE  f \in events' \cup blind' \/ Found(f)'
<1> USE DEF Found, Seen, Unseen, WatchIsComing
<1>0. /\ disk \in [Files -> 0 .. MaxEdits] /\ edits \in Nat /\ watch \in {"none", "live", "dead", "refused"}
      /\ sub \in BOOLEAN /\ dirEvent \in BOOLEAN
  BY SyncAssumption DEF SyncTypeOK, SyncAssumption
<1>1. ASSUME NEW g \in Files, Edit(g) PROVE f \in events' \cup blind' \/ Found(f)'
  <2>1. /\ disk' = [disk EXCEPT ![g] = edits + 1] /\ edits + 1 # 0 /\ watch' = watch /\ sub' = sub
        /\ dirEvent' = dirEvent /\ (g \in Nested => sub)
        /\ events' = IF Seen(g) THEN events \cup {g} ELSE events
        /\ blind' = IF Unseen(g) /\ watch \in {"dead", "refused"} THEN blind \cup {g} ELSE blind
    BY <1>0, <1>1 DEF Edit
  <2> QED
    BY <1>0, <2>1
<1>2. ASSUME NEW g \in Files, Remove(g) PROVE f \in events' \cup blind' \/ Found(f)'
  BY <1>0, <1>2 DEF Remove
<1>3. CASE RemoveDirectory
  <2>1. disk'[f] = IF f \in Nested THEN 0 ELSE disk[f]
    BY <1>3 DEF RemoveDirectory
  <2>2. f \in Nested /\ disk[f] # 0 => f \in events' \cup blind'
    BY <1>3 DEF RemoveDirectory, Present
  <2>3. events \subseteq events' /\ blind \subseteq blind'
    BY <1>3 DEF RemoveDirectory
  <2> QED
    BY <2>1, <2>2, <2>3
<1>4. CASE MakeDirectory
  BY <1>4 DEF MakeDirectory, db
<1> QED
  BY <1>1, <1>2, <1>3, <1>4 DEF StepWorld

(* What the watcher takes from an event or finds is pending, and late if a *)
(* flush is on its way; what it finds but cannot watch is known.           *)
LEMMA NotesAreKept ==
    ASSUME SyncTypeOK, HandleDirEvent \/ Flush \/ (\E g \in Files : HandleChange(g)), NEW f \in Files
    PROVE  /\ f \in events \/ Found(f) =>
                  \/ f \in events' \cup blind' \/ Found(f)'
                  \/ f \in pendingFiles' /\ (flushing => f \in late')
           /\ f \in pendingFiles => f \in pendingFiles'
           /\ flushing => flushing' /\ (f \in late => f \in late')
           /\ catching' = catching
<1>1. CASE HandleDirEvent
  <2>1. CASE WatchTree
    <3>1. Found(f) => f \in Present
      BY DEF Found, Present
    <3>2. events' = events /\ flushing' = flushing /\ catching' = catching
      BY <1>1 DEF HandleDirEvent
    <3>3. CASE watch = "none" /\ Note(Present)
      BY <3>1, <3>2, <3>3 DEF Note
    <3>4. CASE blind' = blind \cup Present /\ UNCHANGED <<pendingFiles, late, timer>>
      BY <3>1, <3>2, <3>4
    <3>5. CASE watch # "none" /\ UNCHANGED <<watch, pendingFiles, late, timer, blind>>
      BY <3>2, <3>5 DEF Found
    <3> QED
      BY <2>1, <3>3, <3>4, <3>5 DEF WatchTree
  <2>2. CASE ~sub /\ UNCHANGED <<watch, pendingFiles, late, timer, blind>>
    BY <1>1, <2>2 DEF HandleDirEvent, Found
  <2> QED
    BY <1>1, <2>1, <2>2 DEF HandleDirEvent
<1>2. CASE Flush
  BY <1>2 DEF Flush, Found, world
<1>3. ASSUME NEW g \in Files, HandleChange(g)
      PROVE  /\ f \in events \/ Found(f) =>
                    \/ f \in events' \cup blind' \/ Found(f)'
                    \/ f \in pendingFiles' /\ (flushing => f \in late')
             /\ f \in pendingFiles => f \in pendingFiles'
             /\ flushing => flushing' /\ (f \in late => f \in late')
             /\ catching' = catching
  BY <1>3 DEF HandleChange, Note, Found, world
<1> QED
  BY <1>1, <1>2, <1>3

(* Of the steps of a job only the end of a flush touches what is pending.  *)
LEMMA PendingIsKept ==
    ASSUME SyncTypeOK, NEW p \in Procs, Work(p), ~(p = "server" /\ Release(p))
    PROVE  /\ pendingFiles' = pendingFiles
           /\ job'[p].kind = job[p].kind => flushing' = flushing /\ late' = late
<1>1. CASE Lock(p)
  <2>1. CASE indexLock \in {"free", "dead"}
    BY <1>1, <2>1 DEF Lock
  <2>2. CASE indexLock \notin {"free", "dead"}
    <3>1. pendingFiles' = pendingFiles
      BY <1>1, <2>2 DEF Lock, Finish, Settle, FlushSettled
    <3>2. job'[p].kind = "none"
      BY <1>1, <2>2 DEF Lock, Finish, SyncTypeOK, Idle
    <3> QED
      BY <1>1, <2>2, <3>1, <3>2 DEF Lock, Finish
  <2> QED
    BY <2>1, <2>2
<1>2. CASE Release(p)
  BY <1>2 DEF Release, Finish, Procs
<1>3. CASE UNCHANGED watcher
  BY <1>3 DEF watcher
<1> QED
  BY <1>1, <1>2, <1>3 DEF Work, Scan, ReadFirst, ReadSecond, InsertRows, UpsertFile

(* Until a flush ends, what is noted stays so, and what changes is too,    *)
(* unless a sync reads what no watch has seen.                             *)
LEMMA NotedIsKept ==
    ASSUME SyncTypeOK, WatchIsComing, StepSync, Watching, ~Release("server"), NEW f \in Files,
           Noted(f) \/ disk'[f] # disk[f]
    PROVE  Noted(f)' \/ f \in blind \ blind'
<1> USE DEF Noted, Flagged
<1>1. CASE StepWorld
  <2>1. disk'[f] # disk[f] \/ f \in events \cup blind \/ Found(f) => Noted(f)'
    BY <1>1, WorldIsSeen
  <2>2. skipped' = skipped /\ pendingFiles' = pendingFiles
    BY <1>1, WorldFrame
  <2> QED
    BY <2>1, <2>2
<1>2. CASE StepWatcher
  <2>0. disk' = disk /\ blind \subseteq blind' /\ skipped' = skipped
    BY <1>2, WatchFrame
  <2>1. CASE HandleDirEvent \/ Flush \/ (\E g \in Files : HandleChange(g))
    BY <2>0, <2>1, NotesAreKept
  <2>2. CASE BeginCatchUp \/ BeginWatchSync
    BY <2>0, <2>2 DEF BeginCatchUp, BeginWatchSync, Found, world, watcher
  <2> QED
    BY <1>2, <2>1, <2>2 DEF StepWatcher, StartWatching, Watching
<1>3. CASE BeginRun \/ CrashRun
  BY <1>3 DEF BeginRun, CrashRun, Found, world, watcher, db
<1>4. ASSUME NEW p \in Procs, Work(p) PROVE Noted(f)' \/ f \in blind \ blind'
  <2>1. pendingFiles' = pendingFiles
    BY <1>4, PendingIsKept
  <2> QED
    BY <1>4, <2>1, WorkFrame DEF Found
<1> QED
  BY <1>1, <1>2, <1>3, <1>4 DEF StepSync

(* The catch-up sync is over when it ends, or it has been refused the lock.*)
LEMMA CatchUpEnds ==
    ASSUME SyncTypeOK, JobsAreOrdered, StepSync, Excused, ~Excused'
    PROVE  skipped' \/ (Release("server") /\ job["server"].kind = "catchup")
<1> USE DEF Excused, Watching
<1>0. "server" \in Procs /\ "cli" \in Procs /\ "server" # "cli"
  BY DEF Procs
<1>1. CASE StepWorld
  BY <1>1, WorldFrame
<1>2. CASE StepWatcher
  <2>1. CASE StartWatching
    BY <2>1 DEF StartWatching
  <2>2. CASE HandleDirEvent \/ Flush \/ (\E g \in Files : HandleChange(g))
    BY <2>2, OtherJobs DEF HandleDirEvent, Flush, HandleChange
  <2>3. CASE BeginCatchUp
    BY <2>3, OtherJobs
  <2>4. CASE BeginWatchSync
    BY <2>4, OtherJobs DEF BeginWatchSync, Idle, watcher
  <2> QED
    BY <1>2, <2>1, <2>2, <2>3, <2>4 DEF StepWatcher
<1>3. CASE BeginRun \/ CrashRun
  BY <1>3, OtherJobs DEF BeginRun, CrashRun, watcher
<1>4. ASSUME NEW p \in Procs, Work(p)
      PROVE  skipped' \/ (Release("server") /\ job["server"].kind = "catchup")
  <2>1. catching' = catching /\ (p # "server" => job'["server"] = job["server"])
    BY <1>0, <1>4, WorkFrame
  <2>2. p = "server" /\ job["server"].kind = "catchup" /\ job'["server"].kind # "catchup"
    BY <2>1
  <2>3. CASE Lock(p)
    BY <2>2, <2>3 DEF Lock, Finish, SyncTypeOK, Jobs
  <2>4. CASE Release(p)
    BY <2>2, <2>4
  <2>5. ASSUME NEW f \in Files, ReadFirst(p, f) PROVE FALSE
    BY <2>2, <2>5, ReadFirstJob
  <2> QED
    BY <1>4, <2>2, <2>3, <2>4, <2>5, JobSteps DEF Work
<1> QED
  BY <1>1, <1>2, <1>3, <1>4 DEF StepSync

(* A sync of the server that ends leaves nothing stale unnoticed.          *)
LEMMA FlushLeavesNothing ==
    ASSUME SyncTypeOK, JobsAreOrdered, SyncSettles, Release("server"), NEW f \in Files
    PROVE  Fresh(f)' \/ Noticed(f)'
<1>0. /\ job["server"].at = "files" /\ job["server"].todo = {} /\ Finish("server", TRUE)
      /\ disk' = disk /\ blind' = blind /\ sub' = sub /\ tracked' = tracked /\ rows' = rows /\ torn' = torn
      /\ crashed' = crashed /\ watch' = watch /\ events' = events /\ dirEvent' = dirEvent
  BY DEF Release, world, db
<1>1. Fresh(f) \/ Since(f)
  BY <1>0 DEF SyncSettles, InHand, InLock
<1>2. Fresh(f) => Fresh(f)'
  BY <1>0 DEF Fresh
<1>3. Marked(f) \/ f \in blind \cup events \/ Found(f) => Noticed(f)'
  BY <1>0 DEF Marked, Noticed, Noted, Flagged, Found
<1>4. CASE job["server"].kind = "sync"
  <2>1. f \in late => f \in pendingFiles'
    BY <1>0, <1>4 DEF Finish, Settle, FlushSettled, JobsAreOrdered
  <2> QED
    BY <1>1, <1>2, <1>3, <1>4, <2>1 DEF Since, SinceRead, Noticed, Noted, Flagged
<1>5. CASE job["server"].kind # "sync"
  <2>1. pendingFiles' = pendingFiles
    BY <1>0, <1>5 DEF Finish
  <2> QED
    BY <1>1, <1>2, <1>3, <1>5, <2>1 DEF Since, SinceRead, Noticed, Noted, Flagged
<1> QED
  BY <1>4, <1>5

(* What a step does to what is stored and known of a file: nothing; or a   *)
(* scan finds it gone; or a process stores what it has read of it.         *)
LeftAlone(f) ==
    /\ rows'[f] = rows[f] /\ (f \in torn => f \in torn')
    /\ (f \in crashed => f \in crashed') /\ (f \in blind => f \in blind')

Gone(f) == rows'[f] = {} /\ disk[f] = 0 /\ disk' = disk

Written(p, f) ==
    /\ job[p].at \in {"store", "record"} /\ job[p].file = f /\ disk' = disk /\ job[p].content # 0
    /\ rows'[f] = {job[p].content} \/ f \in crashed'
    /\ job[p].content # disk[f] => (f \in blind => f \in blind')

LEMMA InsertStores ==
    ASSUME SyncTypeOK, LockIsWithJob, ReadsLookBack, RowsMatchRecords, NEW p \in Procs, InsertRows(p)
    PROVE  \/ /\ \A f \in Files : LeftAlone(f)
              /\ job[p].content \in Unfit \/ tracked[job[p].file].content = job[p].content
           \/ /\ \A f \in Files : f = job[p].file \/ LeftAlone(f)
              /\ Written(p, job[p].file)
<1> DEFINE f == job[p].file
<1>0. job[p] \in Jobs /\ disk' = disk /\ f \in Files /\ job[p].at = "store"
  BY DEF SyncTypeOK, Jobs, InsertRows, world
<1>1. \A q \in Procs : job[q].at # "record"
  BY <1>0, OthersWait DEF InLock
<1>2. f \in crashed \/ rows[f] = {tracked[f].content} \ {0}
  BY <1>0, <1>1 DEF RowsMatchRecords, Recording
<1>3. torn' = torn /\ blind' = blind /\ job[p].content # 0
  BY <1>0 DEF InsertRows, ReadsLookBack
<1>4. CASE /\ rows' = rows /\ crashed' = crashed
           /\ job[p].content \in Unfit \/ tracked[f].content = job[p].content
  BY <1>3, <1>4 DEF LeftAlone
<1>5. ASSUME rows' = [rows EXCEPT ![f] = (IF tracked[f].content = 0 THEN @ ELSE {}) \cup {job[p].content}],
             crashed' = IF tracked[f].content = 0 THEN crashed ELSE crashed \ {f}
      PROVE  Written(p, f) /\ \A g \in Files : g = f \/ LeftAlone(g)
  <2>1. rows'[f] = (IF tracked[f].content = 0 THEN rows[f] ELSE {}) \cup {job[p].content}
    BY <1>0, <1>5 DEF SyncTypeOK
  <2>2. rows'[f] = {job[p].content} \/ f \in crashed'
    BY <1>2, <1>5, <2>1
  <2>3. Written(p, f)
    BY <1>0, <1>3, <2>2 DEF Written
  <2>4. \A g \in Files : g = f \/ LeftAlone(g)
    BY <1>3, <1>5 DEF LeftAlone, SyncTypeOK
  <2> QED
    BY <2>3, <2>4
<1> QED
  BY <1>4, <1>5 DEF InsertRows

LEMMA WorkStores ==
    ASSUME SyncTypeOK, LockIsWithJob, ReadsLookBack, RowsMatchRecords, NEW p \in Procs, Work(p),
           NEW f \in Files
    PROVE  LeftAlone(f) \/ Gone(f) \/ Written(p, f)
<1>0. job[p] \in Jobs /\ disk' = disk /\ job[p].file \in Files
  BY WorkFrame DEF SyncTypeOK, Jobs
<1>1. CASE Scan(p)
  BY <1>0, <1>1 DEF Scan, db, SyncTypeOK, LeftAlone, Gone
<1>2. CASE InsertRows(p)
  BY <1>2, InsertStores
<1>3. CASE UpsertFile(p)
  <2>0. job[p].at = "record" /\ rows' = rows /\ crashed' = crashed /\ job[p].content # 0
    BY <1>3 DEF UpsertFile, ReadsLookBack
  <2>1. CASE f # job[p].file
    BY <1>3, <2>0, <2>1 DEF UpsertFile, LeftAlone
  <2>2. CASE f = job[p].file
    <3>1. f \in crashed \/ rows[f] = {job[p].content}
      BY <2>0, <2>2 DEF RowsMatchRecords
    <3>2. job[p].content # disk[f] => blind' = blind
      BY <1>3, <2>2 DEF UpsertFile
    <3> QED
      BY <1>0, <2>0, <2>2, <3>1, <3>2 DEF Written
  <2> QED
    BY <2>1, <2>2
<1>4. ASSUME UNCHANGED db PROVE LeftAlone(f)
  BY <1>4 DEF db, LeftAlone
<1> QED
  BY <1>1, <1>2, <1>3, <1>4 DEF Work, Lock, ReadFirst, ReadSecond, Release

LEMMA StepStores ==
    ASSUME SyncTypeOK, LockIsWithJob, ReadsLookBack, RowsMatchRecords, StepSync, NEW f \in Files
    PROVE  LeftAlone(f) \/ Gone(f) \/ \E p \in Procs : Written(p, f)
<1>1. CASE StepWorld \/ StepWatcher
  BY <1>1, WorldFrame, WatchFrame DEF LeftAlone
<1>2. CASE BeginRun \/ CrashRun
  BY <1>2 DEF BeginRun, CrashRun, db, LeftAlone
<1> QED
  BY <1>1, <1>2, WorkStores DEF StepSync

LEMMA StaleStaysNoticed == ASSUME SyncInv, StepSync PROVE StaleIsNoticed'
<1> USE DEF SyncInv
<1> SUFFICES ASSUME ~Excused', NEW f \in Files PROVE Fresh(f)' \/ Noticed(f)'
  BY DEF StaleIsNoticed
<1>1. CASE Release("server")
  BY <1>1, FlushLeavesNothing
<1>2. CASE Excused /\ ~Release("server")
  BY <1>2, CatchUpEnds DEF Noticed, Noted
<1>3. CASE ~Excused /\ ~Release("server")
  <2>0. Watching
    BY <1>3 DEF Excused
  <2>1. Noted(f) \/ disk'[f] # disk[f] => Noted(f)' \/ f \in blind \ blind'
    BY <1>3, <2>0, NotedIsKept
  <2>2. CASE LeftAlone(f)
    <3>1. CASE disk'[f] = disk[f]
      <4>1. Fresh(f) => Fresh(f)'
        BY <2>2, <3>1 DEF Fresh, LeftAlone
      <4>2. Marked(f) => Marked(f)'
        BY <2>2, <3>1 DEF Marked, LeftAlone
      <4> QED
        BY <1>3, <2>1, <2>2, <4>1, <4>2 DEF StaleIsNoticed, Noticed, LeftAlone
    <3>2. CASE disk'[f] # disk[f]
      BY <2>1, <2>2, <3>2 DEF Noticed, LeftAlone
    <3> QED
      BY <3>1, <3>2
  <2>3. CASE Gone(f)
    BY <2>3 DEF Gone, Fresh
  <2>4. ASSUME NEW p \in Procs, Written(p, f) PROVE Fresh(f)' \/ Noticed(f)'
    <3>1. CASE job[p].content = disk[f]
      BY <2>4, <3>1 DEF Written, Fresh, Noticed, Marked
    <3>2. CASE job[p].content # disk[f]
      <4>1. Noted(f)
        <5>1. CASE p = "cli"
          <6>1. Held(job["cli"]) /\ job["cli"].file = f /\ job["cli"].content # disk[f]
            BY <2>4, <3>2, <5>1 DEF Written, Held
          <6> QED
            BY <1>3, <6>1 DEF ReadsAreNoticed
        <5>2. CASE p = "server"
          <6>1. job["server"].kind = "sync"
            BY <1>3, <2>4, <5>2 DEF JobsAreOrdered, InLock, Excused, SyncTypeOK, Jobs, Written
          <6>2. SinceRead(f)
            BY <2>4, <3>2, <5>2 DEF SyncSettles, Written
          <6> QED
            BY <6>1, <6>2 DEF SinceRead, Noted, Flagged, JobsAreOrdered
        <5> QED
          BY <5>1, <5>2 DEF Procs
      <4>2. Noted(f) => Noticed(f)'
        BY <2>1, <2>4, <3>2 DEF Written, Noticed
      <4> QED
        BY <4>1, <4>2
    <3> QED
      BY <3>1, <3>2
  <2> QED
    BY <2>2, <2>3, <2>4, StepStores
<1> QED
  BY <1>1, <1>2, <1>3

(* Another process cannot touch the database while one has the lock.       *)
LEMMA OthersLeaveTheDatabase ==
    ASSUME SyncTypeOK, LockIsWithJob, NEW p \in Procs, job[p].at \in InLock, StepSync, ~Work(p)
    PROVE  /\ rows' = rows /\ torn' = torn /\ blind \subseteq blind' /\ crashed \subseteq crashed'
           /\ job'[p] = job[p] \/ (p = "cli" /\ job'[p] = Idle)
<1>0. Idle.at = "off" /\ Procs = {"server", "cli"}
  BY DEF Procs, Idle
<1>1. CASE StepWorld
  BY <1>1, WorldFrame
<1>2. CASE StepWatcher
  BY <1>0, <1>2, WatchFrame, OtherJobs DEF StepWatcher, InLock
<1>3. CASE BeginRun \/ CrashRun
  <2>1. rows' = rows /\ torn' = torn /\ blind' = blind /\ crashed \subseteq crashed'
    BY <1>3 DEF BeginRun, CrashRun, db
  <2> QED
    BY <1>0, <1>3, <2>1, OtherJobs DEF InLock
<1>4. ASSUME NEW q \in Procs, Work(q) PROVE UNCHANGED db /\ job'[p] = job[p]
  <2>1. job[q].at \notin InLock /\ q # p
    BY <1>4, OneInLock
  <2>2. Lock(q)
    BY <1>4, <2>1 DEF Work, Scan, ReadFirst, ReadSecond, InsertRows, UpsertFile, Release, InLock
  <2> QED
    BY <1>4, <2>1, <2>2, WorkFrame DEF Lock
<1> QED
  BY <1>1, <1>2, <1>3, <1>4 DEF StepSync, db

LEMMA ReadsStayNoticed == ASSUME SyncInv, SyncTypeOK', StepSync PROVE ReadsAreNoticed'
<1> USE DEF SyncInv
<1> DEFINE j == job["cli"]
<1> SUFFICES ASSUME ~Excused', Held(j') PROVE j'.content = disk'[j'.file] \/ Noted(j.file)'
  BY DEF ReadsAreNoticed, Held
<1>0. /\ "server" \in Procs /\ "cli" \in Procs /\ "server" # "cli" /\ Idle.at = "off"
      /\ j.file \in Files /\ j'.file \in Files /\ j \in Jobs
  BY DEF Procs, Idle, SyncTypeOK, Jobs
<1>1. \/ j' = j /\ ~Work("cli")
      \/ ReadSecond("cli") \/ InsertRows("cli") \/ \E f \in Files : ReadFirst("cli", f)
  <2>1. CASE Work("cli")
    BY <1>0, <2>1, JobSteps DEF Work, Held
  <2>2. CASE ~Work("cli")
    <3>1. CASE StepWorld \/ StepWatcher
      BY <2>2, <3>1, WorldFrame, WatchFrame
    <3>2. CASE BeginRun \/ CrashRun
      BY <1>0, <3>2, OtherJobs DEF Held
    <3>3. CASE Work("server")
      BY <1>0, <2>2, <3>3, WorkFrame
    <3> QED
      BY <2>2, <3>1, <3>2, <3>3 DEF StepSync, Procs
  <2> QED
    BY <2>1, <2>2
<1>2. CASE j' = j /\ ~Work("cli")
  <2>0. j.at \in InLock
    BY <1>2 DEF Held, InLock
  <2>1. ~Release("server") /\ blind \subseteq blind'
    BY <1>0, <1>2, <2>0, OthersWait, OthersLeaveTheDatabase DEF InLock, Release
  <2>2. CASE Excused
    BY <2>1, <2>2, CatchUpEnds DEF Noted
  <2>3. CASE ~Excused
    <3> DEFINE f == j.file
    <3>1. f \in Files /\ f' = f
      BY <1>0, <1>2
    <3>2. Noted(f) \/ disk'[f] # disk[f] => Noted(f)'
      <4>1. Noted(f) \/ disk'[f] # disk[f] =>
                (f \in blind \ blind') \/ skipped' \/ f \in blind' \cup pendingFiles' \cup events'
                \/ (f \in Nested /\ dirEvent' /\ watch' = "none" /\ sub' /\ disk'[f] # 0)
        <5> HIDE DEF f
        <5>1. Watching
          BY <2>3 DEF Excused
        <5> QED
          BY <1>2, <2>1, <3>1, <5>1, NotedIsKept DEF Noted, Flagged, Found
      <4> QED
        BY <2>1, <3>1, <4>1 DEF Noted, Flagged, Found
    <3>3. j.content = disk[f] \/ Noted(f)
      BY <1>2, <2>3 DEF ReadsAreNoticed
    <3> QED
      BY <1>2, <3>2, <3>3
  <2> QED
    BY <2>2, <2>3
<1>3. ASSUME NEW f \in Files, ReadFirst("cli", f) PROVE j'.content = disk'[j'.file]
  <2>1. disk' = disk
    BY <1>3 DEF ReadFirst, world
  <2>2. j'.kind = "index" \/ disk[f] = 0
    BY <1>0, <1>3, ReadFirstJob DEF Held
  <2> QED
    BY <1>0, <1>3, <2>1, <2>2, ReadFirstJob DEF Held
<1>4. CASE ReadSecond("cli") \/ InsertRows("cli")
  <2>1. /\ disk' = disk /\ UNCHANGED <<watcher, skipped, sub, blind>> /\ job'["server"] = job["server"]
    BY <1>0, <1>4, WorkFrame DEF ReadSecond, InsertRows, world, db, Work
  <2>2. CASE Held(j)
    <3>1. j'.file = j.file /\ j'.content = j.content
      BY <1>0, <1>4, <2>2, JobSteps DEF Held
    <3>2. ~Excused
      BY <2>1 DEF Excused, Watching, watcher
    <3>3. j.content = disk[j.file] \/ Noted(j.file)
      BY <2>2, <3>2 DEF ReadsAreNoticed
    <3> QED
      BY <2>1, <3>1, <3>3 DEF Noted, Flagged, Found, watcher
  <2>3. CASE ~Held(j)
    BY <1>0, <1>4, <2>1, <2>3, JobSteps DEF Held
  <2> QED
    BY <2>2, <2>3
<1> QED
  BY <1>1, <1>2, <1>3, <1>4

(* While a job of the server goes on, what has changed since the flush     *)
(* began is before it.                                                     *)
LEMMA SinceIsKept ==
    ASSUME SyncTypeOK, WatchIsComing, JobsAreOrdered, StepSync, ~Release("server"),
           job["server"].kind # "none", job'["server"].kind = job["server"].kind,
           NEW f \in Files, SinceRead(f) \/ disk'[f] # disk[f]
    PROVE  SinceRead(f)' \/ f \in blind \ blind'
<1> USE DEF SinceRead
<1>0. Watching /\ (job["server"].kind = "sync" => flushing) /\ "server" \in Procs
  BY DEF JobsAreOrdered, Procs
<1>1. CASE StepWorld
  <2>1. disk'[f] # disk[f] \/ f \in events \cup blind \/ Found(f) => SinceRead(f)'
    BY <1>0, <1>1, WorldIsSeen
  <2>2. job' = job /\ pendingFiles' = pendingFiles /\ late' = late
    BY <1>1, WorldFrame
  <2> QED
    BY <2>1, <2>2
<1>2. CASE StepWatcher
  <2>0. disk' = disk /\ blind \subseteq blind'
    BY <1>2, WatchFrame
  <2>1. CASE HandleDirEvent \/ Flush \/ (\E g \in Files : HandleChange(g))
    BY <1>0, <2>0, <2>1, NotesAreKept
  <2>2. CASE BeginCatchUp \/ BeginWatchSync
    BY <2>2, OtherJobs DEF Idle
  <2> QED
    BY <1>0, <1>2, <2>1, <2>2 DEF StepWatcher, StartWatching, Watching
<1>3. CASE BeginRun \/ CrashRun
  BY <1>3 DEF BeginRun, CrashRun, Found, world, watcher, db
<1>4. ASSUME NEW p \in Procs, Work(p) PROVE SinceRead(f)' \/ f \in blind \ blind'
  <2>0. disk' = disk /\ (f \notin events \/ f \in events')
    BY <1>4, WorkFrame
  <2>1. pendingFiles' = pendingFiles
    BY <1>4, PendingIsKept
  <2>2. late' = late \/ job["server"].kind # "sync"
    <3>1. CASE p = "server"
      BY <1>4, <3>1, PendingIsKept
    <3>2. CASE p = "cli"
      BY <1>4, <3>2 DEF Work, Lock, Finish, Scan, ReadFirst, ReadSecond, InsertRows, UpsertFile, Release,
                        watcher
    <3> QED
      BY <3>1, <3>2 DEF Procs
  <2> QED
    BY <1>4, <2>0, <2>1, <2>2, WorkFrame DEF Found
<1> QED
  BY <1>1, <1>2, <1>3, <1>4 DEF StepSync

(* A file that the scan leaves out is fresh.                               *)
LEMMA ScanMissesNothing ==
    ASSUME SyncInv, Scan("server"), NEW f \in Files
    PROVE  Fresh(f)' \/ Since(f)' \/ (f \in job'["server"].todo /\ disk'[f] # 0)
<1> USE DEF SyncInv
<1>0. /\ "server" \in Procs /\ job["server"].at = "scan" /\ job["server"].kind # "index"
      /\ disk' = disk
  BY DEF Procs, Scan, JobsAreOrdered, world
<1>a. /\ disk[f] \in Nat /\ tracked[f].content \in Nat /\ tracked[f].stamp \in Nat /\ rows[f] \subseteq Nat
  BY SyncAssumption DEF SyncTypeOK, SyncAssumption
<1>1. job'["server"].todo = {g \in Files : Changed(g)} /\ job'["server"].kind = job["server"].kind
  BY <1>0, JobSteps
<1>2. rows'[f] = IF tracked[f].content # 0 /\ disk[f] = 0 THEN {} ELSE rows[f]
  BY <1>0 DEF Scan
<1>3. CASE tracked[f].content # 0 /\ disk[f] = 0
  BY <1>0, <1>2, <1>3 DEF Fresh
<1>4. CASE ~(tracked[f].content # 0 /\ disk[f] = 0) /\ Marked(f)
  BY <1>0, <1>4 DEF Marked, Since, Scan
<1>5. CASE ~(tracked[f].content # 0 /\ disk[f] = 0) /\ ~Marked(f)
  <2>1. rows[f] = {tracked[f].content} \ {0}
    <3>1. ~Recording(f)
      BY <1>0, OthersWait DEF Recording, InLock
    <3> QED
      BY <1>5, <3>1 DEF RowsMatchRecords, Marked
  <2>2. CASE disk[f] = 0
    BY <1>0, <1>2, <1>5, <2>1, <2>2 DEF Fresh
  <2>3. CASE disk[f] # 0 /\ Changed(f)
    BY <1>0, <1>1, <2>3
  <2>4. CASE disk[f] # 0 /\ ~Changed(f)
    <3>1. tracked[f].stamp <= tracked[f].content /\ tracked[f].content <= disk[f]
      BY <1>5, <2>4 DEF TornIsKnown, ReadsLookBack, Marked
    <3>2. tracked[f].content = disk[f]
      BY <1>a, <2>4, <3>1 DEF Changed
    <3> QED
      BY <1>0, <1>2, <2>1, <2>4, <3>2 DEF Fresh
  <2> QED
    BY <2>2, <2>3, <2>4
<1> QED
  BY <1>3, <1>4, <1>5

LEMMA SyncStillSettles == ASSUME SyncInv, SyncTypeOK', StepSync PROVE SyncSettles'
<1> USE DEF SyncInv
<1> DEFINE j == job["server"]
           Left(f) == Fresh(f) \/ Since(f) \/ InHand(f)
<1>0. /\ "server" \in Procs /\ "cli" \in Procs /\ "server" # "cli" /\ Idle.at = "off"
      /\ j \in Jobs /\ j'.file \in Files /\ j.file \in Files /\ "off" \notin InLock
  BY DEF Procs, Idle, SyncTypeOK, Jobs, InLock
<1>1. CASE j'.at \notin InLock \ {"scan"}
  BY <1>1 DEF SyncSettles, InLock
<1>2. ASSUME j'.at \in InLock \ {"scan"}, ~Work("server") PROVE SyncSettles'
  <2>1. j' = j
    <3>1. CASE j.at \in InLock
      BY <1>0, <1>2, <3>1, OthersLeaveTheDatabase
    <3>2. CASE j.at \notin InLock
      <4>1. CASE StepWorld
        BY <4>1, WorldFrame
      <4>2. CASE StepWatcher
        BY <1>2, <4>2, OtherJobs DEF StepWatcher, InLock
      <4>3. CASE BeginRun \/ CrashRun
        BY <4>3, OtherJobs
      <4>4. CASE Work("cli")
        BY <1>0, <4>4, WorkFrame
      <4> QED
        BY <1>2, <4>1, <4>2, <4>3, <4>4 DEF StepSync, Procs
    <3> QED
      BY <3>1, <3>2
  <2>2. j.at \in InLock \ {"scan"} /\ j.kind # "none" /\ ~Release("server")
    BY <1>0, <1>2, <2>1 DEF JobsAreOrdered, Work
  <2>3. rows' = rows /\ torn' = torn /\ blind \subseteq blind' /\ crashed \subseteq crashed'
    BY <1>0, <1>2, <2>2, OthersLeaveTheDatabase
  <2>a. ASSUME NEW f \in Files, SinceRead(f) \/ disk'[f] # disk[f] PROVE SinceRead(f)'
    BY <2>1, <2>2, <2>3, <2>a, SinceIsKept
  <2>4. ASSUME NEW f \in Files PROVE Left(f)'
    <3>1. Left(f)
      BY <2>2 DEF SyncSettles
    <3>2. CASE disk'[f] = disk[f]
      <4>1. (Fresh(f) => Fresh(f)') /\ (InHand(f) => InHand(f)') /\ (Marked(f) => Marked(f)')
        BY <2>1, <2>3, <3>2 DEF Fresh, InHand, Marked
      <4> QED
        BY <2>a, <3>1, <4>1 DEF Since
    <3> QED
      BY <2>a, <3>2 DEF Since
  <2>5. ASSUME j'.at \in {"store", "record"} PROVE j'.content = disk'[j'.file] \/ SinceRead(j.file)'
    <3>1. j.content = disk[j.file] \/ SinceRead(j.file)
      BY <2>1, <2>5 DEF SyncSettles
    <3>2. SinceRead(j.file) \/ disk'[j.file] # disk[j.file] => SinceRead(j.file)'
      <4> DEFINE f == j.file
      <4>1. f \in Files /\ f' = f
        BY <1>0, <2>1
      <4> QED
        BY <2>a, <4>1 DEF SinceRead, Found
    <3> QED
      BY <2>1, <3>1, <3>2
  <2> QED
    BY <2>4, <2>5 DEF SyncSettles
<1>3. ASSUME j'.at \in InLock \ {"scan"}, Work("server") PROVE SyncSettles'
  <2>0. disk' = disk
    BY <1>0, <1>3, WorkFrame
  <2>1. j.at \in InLock /\ j'.kind = j.kind /\ j.kind \in {"sync", "catchup"}
        /\ ~Lock("server") /\ ~Release("server")
    <3>1. ~Lock("server") /\ ~Release("server")
      BY <1>0, <1>3, JobSteps
    <3>2. j.at \in InLock
      BY <1>3, <3>1 DEF Work, Scan, ReadFirst, ReadSecond, InsertRows, UpsertFile, InLock
    <3>3. j'.kind = j.kind
      BY <1>0, <1>3, WorkFrame
    <3> QED
      BY <1>0, <3>1, <3>2, <3>3 DEF JobsAreOrdered, Jobs
  <2>2. ASSUME NEW f \in Files, LeftAlone(f)
        PROVE  /\ Fresh(f) => Fresh(f)'
               /\ SinceRead(f) => SinceRead(f)'
               /\ Since(f) => Since(f)'
    <3>1. SinceRead(f) => SinceRead(f)'
      BY <2>1, <2>2, SinceIsKept DEF LeftAlone
    <3>2. (Fresh(f) => Fresh(f)') /\ (Marked(f) => Marked(f)')
      BY <2>0, <2>2 DEF LeftAlone, Fresh, Marked
    <3> QED
      BY <3>1, <3>2 DEF Since
  <2>a. ASSUME NEW f \in Files, Written("server", f) PROVE Left(f)'
    <3>1. CASE j.content = disk[f]
      BY <2>a, <3>1 DEF Written, Fresh, Since, Marked
    <3>2. CASE j.content # disk[f]
      <4>1. SinceRead(f)
        BY <2>a, <3>2 DEF SyncSettles, Written
      <4> QED
        BY <2>1, <2>a, <3>2, <4>1, SinceIsKept DEF Since, Written
    <3> QED
      BY <3>1, <3>2
  <2>b. ASSUME NEW f \in Files, Gone(f) PROVE Left(f)'
    BY <2>b DEF Gone, Fresh
  <2>3. CASE Scan("server")
    <3>1. j'.at = "files"
      BY <1>0, <2>3, JobSteps
    <3>2. \A f \in Files : Left(f)'
      BY <2>3, <3>1, ScanMissesNothing DEF InHand
    <3> QED
      BY <3>1, <3>2 DEF SyncSettles
  <2>d. InsertRows("server") /\ SinceRead(j.file) => SinceRead(j.file)'
    <3> SUFFICES ASSUME InsertRows("server"), SinceRead(j.file) PROVE SinceRead(j.file)'
      OBVIOUS
    <3>1. j'.file = j.file /\ j'.kind = j.kind
      BY <1>0, <2>1, JobSteps
    <3>2. UNCHANGED <<watcher, blind, sub>> /\ disk' = disk
      BY DEF InsertRows, world
    <3> QED
      BY <3>1, <3>2 DEF SinceRead, Found, watcher
  <2>c. ASSUME NEW f \in Files, UNCHANGED db PROVE LeftAlone(f)
    BY <2>c DEF db, LeftAlone
  <2>4. ASSUME NEW g \in Files, ReadFirst("server", g) PROVE SyncSettles'
    <3>1. /\ j.at = "files" /\ j'.todo = j.todo \ {g} /\ j'.file = g
          /\ j'.at = (IF disk[g] = 0 THEN "files" ELSE "second") /\ UNCHANGED db
      BY <1>0, <2>4, ReadFirstJob DEF ReadFirst
    <3>2. ASSUME NEW f \in Files PROVE Left(f)'
      <4>1. Left(f)
        BY <3>1 DEF SyncSettles, InLock
      <4>2. InHand(f) => InHand(f)'
        BY <2>0, <3>1 DEF InHand
      <4> QED
        BY <2>2, <2>c, <3>1, <4>1, <4>2
    <3> QED
      BY <3>1, <3>2 DEF SyncSettles
  <2>5. CASE ReadSecond("server")
    <3>0. /\ j.at = "second" /\ j'.at = (IF disk[j.file] = 0 THEN "files" ELSE "store")
          /\ j'.todo = j.todo /\ j'.file = j.file
          /\ j'.content = (IF j.kind = "index" THEN j.content ELSE disk[j.file])
      BY <1>0, <2>5, JobSteps
    <3>1. /\ j.at = "second" /\ j'.at = (IF disk[j.file] = 0 THEN "files" ELSE "store")
          /\ j'.todo = j.todo /\ j'.file = j.file /\ j'.content = disk[j.file] /\ UNCHANGED db
      BY <2>1, <2>5, <3>0 DEF ReadSecond
    <3>2. ASSUME NEW f \in Files PROVE Left(f)'
      <4>1. Left(f)
        BY <3>1 DEF SyncSettles, InLock
      <4>2. InHand(f) => InHand(f)'
        BY <2>0, <3>1 DEF InHand
      <4> QED
        BY <2>2, <2>c, <3>1, <4>1, <4>2
    <3> QED
      BY <2>0, <3>1, <3>2 DEF SyncSettles
  <2>6. CASE InsertRows("server")
    <3>1. /\ j.at = "store" /\ j'.at \in {"files", "record"} /\ j'.todo = j.todo
          /\ j'.file = j.file /\ j'.content = j.content
          /\ j.content = disk[j.file] \/ SinceRead(j.file)
      BY <1>0, <2>6, JobSteps DEF SyncSettles
    <3>2. ~Recording(j.file) /\ j.content # 0
      BY <1>0, <3>1, OthersWait DEF InLock, Recording, ReadsLookBack
    <3>3. CASE /\ \A f \in Files : LeftAlone(f)
               /\ j.content \in Unfit \/ tracked[j.file].content = j.content
      <4>1. ASSUME NEW f \in Files PROVE Left(f)'
        <5>1. Left(f)
          BY <3>1 DEF SyncSettles, InLock
        <5>2. CASE f \in j.todo /\ disk[f] # 0
          BY <2>0, <3>1, <5>2 DEF InHand
        <5>3. CASE f = j.file /\ j.content = disk[f]
          <6>1. Marked(f) \/ Fresh(f)
            BY <1>0, <3>2, <3>3, <5>3 DEF RowsMatchRecords, Marked, Fresh
          <6> QED
            BY <2>2, <3>3, <6>1 DEF Since
        <5> QED
          BY <2>2, <3>1, <3>3, <5>1, <5>2, <5>3 DEF InHand
      <4> QED
        BY <2>0, <2>d, <2>6, <3>1, <4>1 DEF SyncSettles
    <3>4. CASE Written("server", j.file) /\ \A f \in Files : f = j.file \/ LeftAlone(f)
      <4>1. ASSUME NEW f \in Files PROVE Left(f)'
        <5>1. CASE f = j.file
          BY <2>a, <3>4, <5>1
        <5>2. CASE f # j.file
          <6>1. Left(f)
            BY <3>1 DEF SyncSettles, InLock
          <6>2. InHand(f) => InHand(f)'
            BY <2>0, <3>1, <5>2 DEF InHand
          <6> QED
            BY <2>2, <3>4, <5>2, <6>1, <6>2
        <5> QED
          BY <5>1, <5>2
      <4> QED
        BY <2>0, <2>d, <2>6, <3>1, <4>1 DEF SyncSettles
    <3> QED
      BY <1>0, <2>6, <3>3, <3>4, InsertStores
  <2>7. CASE UpsertFile("server")
    <3>1. j.at = "record" /\ j'.at = "files" /\ j'.todo = j.todo
      BY <1>0, <2>7, JobSteps
    <3>2. ASSUME NEW f \in Files PROVE Left(f)'
      <4>1. Left(f)
        BY <3>1 DEF SyncSettles, InLock
      <4>2. InHand(f) => InHand(f)'
        BY <2>0, <3>1 DEF InHand
      <4>3. LeftAlone(f) \/ Gone(f) \/ Written("server", f)
        BY <1>0, <1>3, WorkStores
      <4> QED
        BY <2>2, <2>a, <2>b, <4>1, <4>2, <4>3
    <3> QED
      BY <3>1, <3>2 DEF SyncSettles
  <2> QED
    BY <1>3, <2>1, <2>3, <2>4, <2>5, <2>6, <2>7 DEF Work
<1> QED
  BY <1>1, <1>2, <1>3

LEMMA SyncInvStarts == InitSync => SyncInv
<1> SUFFICES ASSUME InitSync PROVE SyncInv
  OBVIOUS
<1>1. /\ SyncTypeOK /\ \A p \in Procs : job[p] = Idle
      /\ \A f \in Files : /\ disk[f] \in {0, 1} /\ rows[f] = {disk[f]} \ {0}
                          /\ tracked[f].content = disk[f] /\ tracked[f].stamp = disk[f]
  BY SyncTypesStart DEF InitSync
<1>2. Idle.at = "off" /\ Idle.kind = "none" /\ "server" \in Procs /\ "cli" \in Procs
  BY DEF Idle, Procs
<1>3. catching = "off" /\ ~sub /\ events = {} /\ pendingFiles = {} /\ late = {} /\ edits = 1
  BY DEF InitSync
<1>4. LockIsWithJob /\ ReadsLookBack /\ TornIsKnown /\ RowsMatchRecords
  BY <1>1, <1>2, <1>3 DEF LockIsWithJob, ReadsLookBack, TornIsKnown, RowsMatchRecords, InLock
<1>5. WatchIsComing /\ JobsAreOrdered
  BY <1>1, <1>2, <1>3 DEF WatchIsComing, JobsAreOrdered, Watching, InLock, InitSync
<1>6. StaleIsNoticed /\ ReadsAreNoticed /\ SyncSettles
  BY <1>1, <1>2, <1>3 DEF StaleIsNoticed, Excused, Watching, ReadsAreNoticed, SyncSettles, InLock, Held
<1> QED
  BY <1>1, <1>4, <1>5, <1>6 DEF SyncInv

LEMMA SyncInvIsKept == ASSUME SyncInv, [StepSync]_syncVars PROVE SyncInv'
<1>1. SyncTypeOK'
  BY SyncTypesAreKept DEF SyncInv
<1>2. CASE StepSync
  <2>1. LockIsWithJob' /\ ReadsLookBack' /\ TornIsKnown'
    BY <1>1, <1>2, LockIsKept, ReadsStillLookBack, TornStaysKnown DEF SyncInv
  <2>2. RowsMatchRecords' /\ WatchIsComing' /\ JobsAreOrdered'
    BY <1>1, <1>2, RowsStillMatch, WatchStillComes, JobsStayOrdered DEF SyncInv
  <2>3. StaleIsNoticed' /\ ReadsAreNoticed' /\ SyncSettles'
    BY <1>1, <1>2, StaleStaysNoticed, ReadsStayNoticed, SyncStillSettles
  <2> QED
    BY <1>1, <2>1, <2>2, <2>3 DEF SyncInv
<1>3. CASE UNCHANGED syncVars
  <2>1. /\ disk' = disk /\ edits' = edits /\ sub' = sub /\ blind' = blind
        /\ tracked' = tracked /\ rows' = rows /\ torn' = torn /\ crashed' = crashed
        /\ watch' = watch /\ events' = events /\ dirEvent' = dirEvent /\ pendingFiles' = pendingFiles
        /\ late' = late /\ timer' = timer /\ flushing' = flushing /\ catching' = catching
        /\ indexLock' = indexLock /\ job' = job /\ skipped' = skipped
    BY <1>3 DEF syncVars, world, db, watcher
  <2>2. LockIsWithJob' /\ ReadsLookBack' /\ TornIsKnown' /\ RowsMatchRecords' /\ WatchIsComing'
        /\ JobsAreOrdered'
    BY <2>1 DEF SyncInv, LockIsWithJob, ReadsLookBack, TornIsKnown, RowsMatchRecords, Recording,
                WatchIsComing, JobsAreOrdered, Watching
  <2>3. StaleIsNoticed' /\ ReadsAreNoticed' /\ SyncSettles'
    BY <2>1 DEF SyncInv, StaleIsNoticed, ReadsAreNoticed, SyncSettles, Excused, Watching, Fresh, Noticed,
                Noted, Marked, Flagged, Found, Since, SinceRead, InHand, Held
  <2> QED
    BY <1>1, <2>2, <2>3 DEF SyncInv
<1> QED
  BY <1>2, <1>3

(* watcher.ts, extraction/index.ts: the invariant behind the two theorems. *)
THEOREM SyncInvIsInvariant == SpecSync => []SyncInv
<1>1. InitSync => SyncInv
  BY SyncInvStarts
<1>2. SyncInv /\ [StepSync]_syncVars => SyncInv'
  BY SyncInvIsKept
<1> QED
  BY <1>1, <1>2, PTL DEF SpecSync

(* The watcher, the jobs and the database keep their shapes.               *)
THEOREM SyncTypes == SpecSync => []SyncTypeOK
<1>1. SyncInv => SyncTypeOK
  BY DEF SyncInv
<1> QED
  BY <1>1, SyncInvIsInvariant, PTL

(* watcher.ts:563-570: whatever the order of edits, directories that go    *)
(* and come, flushes, syncs refused the lock and runs of the command line, *)
(* a stale file is flagged, unless it is one of those beyond reach.        *)
THEOREM StaleFilesAreFlagged == SpecSync => []StaleIsFlagged
<1>1. SyncInv => StaleIsFlagged
  <2> SUFFICES ASSUME SyncInv, NEW f \in Files, ~Excused, ~BeyondReach(f), ~Fresh(f)
               PROVE  f \in pendingFiles \cup events \/ (f \in Nested /\ dirEvent)
    BY DEF StaleIsFlagged, Excused
  <2> QED
    BY DEF SyncInv, StaleIsNoticed, Noticed, Marked, Noted, Flagged, Found, BeyondReach
<1> QED
  BY <1>1, SyncInvIsInvariant, PTL

-----------------------------------------------------------------------------
(* ParsePool.                                                              *)

(* Any set of naturals with a member has a least one.                      *)
LEMMA LeastNatural ==
    ASSUME NEW S, S \subseteq Nat, S # {}
    PROVE  \E m \in S : \A k \in S : m <= k
<1> DEFINE R == OpToRel(<, Nat)
<1>1. IsWellFoundedOn(R, Nat)
  BY NatLessThanWellFounded, Zenon
<1> HIDE DEF R
<1>2. PICK m \in S : \A k \in S : ~ (<<k, m>> \in R)
  BY <1>1, WFMin
<1>3. ASSUME NEW k \in S PROVE m <= k
  <2>1. k \in Nat /\ m \in Nat /\ (k < m => <<k, m>> \in R)
    BY DEF R, OpToRel
  <2> QED
    BY <1>2, <2>1
<1> QED
  BY <1>3

LEMMA SlotIsFree == ASSUME PoolTypeOK, Slots # {} PROVE Slot \in Workers /\ wst[Slot] = "gone"
<1>1. Slots \subseteq Nat
  BY PoolAssumption DEF Slots, Workers, PoolAssumption
<1>2. \E w \in Slots : \A v \in Slots : w <= v
  BY <1>1, LeastNatural
<1>3. Slot \in Slots
  BY <1>2 DEF Slot
<1> QED
  BY <1>3 DEF Slots

LEMMA SourcesAreNoErrors ==
    /\ \A f \in Sources : f \notin Errors
    /\ "none" \in Errors /\ "exited" \in Errors /\ "timeout" \in Errors /\ "error" \in Errors
    /\ \A f \in Plain : f \in Sources /\ f \notin Slow /\ f \notin Fatal /\ f \notin Verbose
BY PoolAssumption DEF PoolAssumption, Errors, Sources

LEMMA PassNumbers ==
    ASSUME pass \in Passes
    PROVE  PassNumber \in 0 .. 3 /\ (pass # "end" => PassNumber \in 0 .. 2)
BY DEF Passes, PassNumber

LEMMA PoolShapes ==
    ASSUME PoolTypeOK
    PROVE  /\ worker # 0 => worker \in Workers
           /\ nextTicket \in Nat /\ ticket \in Nat /\ 0 \notin Workers /\ subject \in Sources
           /\ hits \in [Sources -> 0 .. 3] /\ result \in [Sources -> Sources \cup Errors]
           /\ cost \in [Sources -> Sources \cup {"none"}]
           /\ \A w \in Workers : \A j \in wjobs[w] : j.file \in Sources /\ j.ticket \in Nat
BY PoolAssumption DEF PoolTypeOK, PoolAssumption, Workers, ParseJobs

LEMMA PoolInvStarts == InitPool => PoolInv
<1> SUFFICES ASSUME InitPool PROVE PoolInv
  OBVIOUS
<1> USE DEF InitPool
<1>1. PoolTypeOK
  <2>1. MaxWorkers \in Nat /\ 0 \in 0 .. MaxLosses /\ 0 \in 0 .. MaxWorkers /\ 0 \in 0 .. 1
    BY PoolAssumption DEF PoolAssumption
  <2>2. Sources # {} /\ subject \in Sources
    BY PoolAssumption DEF PoolAssumption
  <2> QED
    BY <2>1, <2>2, SourcesAreNoErrors DEF PoolTypeOK, Passes
<1>2. ParseIsOwn
  BY SourcesAreNoErrors DEF ParseIsOwn
<1>3. TicketIsOwn /\ WorkerIsReady /\ QueuedWereHit
  BY DEF TicketIsOwn, WorkerIsReady, QueuedWereHit
<1>4. FilesAreTried
  BY SourcesAreNoErrors DEF FilesAreTried, Stored, Awaiting, Rejected, PassNumber
<1> QED
  BY <1>1, <1>2, <1>3, <1>4 DEF PoolInv

(* The parse in hand comes to its end as that of its own file; a file that *)
(* parses is stored, or hit by another's end, or lost behind a slow one.   *)
LEMMA ParseEnds ==
    ASSUME PoolInv, asking # "idle", NEW outcome \in {subject, "exited", "timeout", "error"}, Settled(outcome),
           NEW hit \in BOOLEAN, hits' = IF hit THEN [hits EXCEPT ![subject] = @ + 1] ELSE hits,
           hit => outcome \in {"exited", "error"},
           \A s \in Sources : cost[s] # "none" => cost'[s] = cost[s],
           subject \in Plain =>
               \/ outcome = subject \/ hit
               \/ /\ outcome = "timeout" /\ pass = "main"
                  /\ \E s \in Slow : cost'[s] = subject /\ hits[s] > 0
    PROVE  /\ FilesAreTried' /\ ParseIsOwn' /\ todo' \subseteq Sources /\ again' \subseteq Sources
           /\ result' \in [Sources -> Sources \cup Errors] /\ hits' \in [Sources -> 0 .. 3]
<1> DEFINE n == PassNumber
           Bound(f) == IF f \in todo \/ pass = "end" THEN n ELSE n + 1
           kept == outcome \in Sources \/ pass = "main"
<1>1. /\ pass' = pass /\ asking' = "idle" /\ todo' = todo \ {subject} /\ subject' = subject
      /\ result' = IF kept THEN [result EXCEPT ![subject] = outcome] ELSE result
      /\ again' = IF outcome = "exited" \/ (pass # "main" /\ outcome \notin Sources)
                  THEN again \cup {subject} ELSE again
  BY DEF Settled
<1>2. /\ subject \in Sources /\ subject \in todo /\ pass # "end" /\ n \in 0 .. 2 /\ n' = n
      /\ hits \in [Sources -> 0 .. 3] /\ result \in [Sources -> Sources \cup Errors]
      /\ todo \subseteq Sources /\ again \subseteq Sources
  BY <1>1, PassNumbers DEF PoolInv, PoolTypeOK, FilesAreTried, PassNumber
<1>3. subject \notin Errors /\ "exited" \in Errors /\ "timeout" \in Errors /\ "error" \in Errors
  BY <1>2, SourcesAreNoErrors
<1>m. pass = "main" <=> n = 0
  BY DEF PassNumber, PoolInv, PoolTypeOK, Passes
<1> HIDE DEF n
<1>4. todo' \subseteq Sources /\ again' \subseteq Sources /\ result' \in [Sources -> Sources \cup Errors]
  BY <1>1, <1>2, <1>3
<1>5. /\ \A f \in Sources : hits[f] <= Bound(f)
      /\ \A f \in Plain : Stored(f) \/ Awaiting(f) \/ Rejected(f) \/ Lost(f)
  BY DEF PoolInv, FilesAreTried, n
<1>6. /\ \A f \in Sources \ {subject} : hits'[f] = hits[f] /\ result'[f] = result[f]
      /\ hits'[subject] = (IF hit THEN hits[subject] + 1 ELSE hits[subject])
      /\ result'[subject] = IF kept THEN outcome ELSE result[subject]
  BY <1>1, <1>2
<1>7. hits[subject] <= n /\ hits[subject] \in 0 .. 3
  BY <1>2, <1>5
<1>8. hits' \in [Sources -> 0 .. 3] /\ \A f \in Sources : hits'[f] >= hits[f]
  <2>1. hit => hits[subject] + 1 \in 0 .. 3
    BY <1>2, <1>7
  <2> QED
    BY <1>2, <1>6, <2>1
<1>9. \A f \in Sources : hits'[f] <= Bound(f)'
  BY <1>1, <1>2, <1>5, <1>6, <1>7
<1>10. ParseIsOwn'
  BY <1>3, <1>6 DEF PoolInv, ParseIsOwn
<1>11. ASSUME NEW f \in Plain PROVE (Stored(f) \/ Awaiting(f) \/ Rejected(f) \/ Lost(f))'
  <2>0. f \in Sources /\ f # "none" /\ Slow \subseteq Sources
    BY SourcesAreNoErrors DEF Sources
  <2>1. CASE f # subject
    <3>1. /\ (f \in todo' <=> f \in todo) /\ (f \in again' <=> f \in again)
          /\ hits'[f] = hits[f] /\ result'[f] = result[f]
      BY <1>1, <1>6, <2>0, <2>1
    <3>2. \A s \in Slow : cost[s] = f /\ hits[s] > 0 => cost'[s] = f /\ hits'[s] > 0
      <4> SUFFICES ASSUME NEW s \in Slow, cost[s] = f, hits[s] > 0 PROVE cost'[s] = f /\ hits'[s] > 0
        OBVIOUS
      <4>1. s \in Sources /\ hits[s] \in Nat /\ hits'[s] \in Nat /\ hits'[s] >= hits[s]
        BY <1>2, <1>8, <2>0
      <4> QED
        BY <2>0, <4>1
    <3>3. Lost(f) => Lost(f)'
      BY <3>1, <3>2 DEF Lost
    <3> QED
      BY <1>2, <1>5, <3>1, <3>3 DEF Stored, Awaiting, Rejected, n
  <2>2. CASE f = subject
    <3>1. Awaiting(f) /\ f \notin todo'
      BY <1>1, <1>2, <1>5, <2>2 DEF Stored, Rejected, Lost
    <3>2. CASE outcome = subject
      BY <1>1, <1>2, <1>3, <1>6, <2>2, <3>1, <3>2 DEF Stored, Awaiting
    <3>3. CASE hit /\ (outcome = "exited" \/ pass # "main")
      <4>1. again' = again \cup {subject} /\ hits'[subject] = n + 1
        BY <1>1, <1>2, <1>3, <1>6, <2>0, <2>2, <3>1, <3>3, SourcesAreNoErrors DEF Awaiting, n
      <4> QED
        BY <1>1, <1>2, <2>2, <3>1, <4>1 DEF Rejected, n
    <3>4. CASE hit /\ outcome = "error" /\ pass = "main"
      <4>1. again' = again /\ result'[subject] = "error" /\ hits'[subject] > 0
        BY <1>1, <1>2, <1>6, <1>7, <3>4
      <4> QED
        BY <2>2, <3>1, <4>1 DEF Lost, Awaiting
    <3>5. CASE outcome = "timeout" /\ pass = "main" /\ \E s \in Slow : cost'[s] = subject /\ hits[s] > 0
      <4>1. again' = again /\ result'[subject] = "timeout"
        BY <1>1, <1>6, <3>5
      <4>2. \E s \in Slow : cost'[s] = f /\ hits'[s] > 0
        <5>1. PICK s \in Slow : cost'[s] = subject /\ hits[s] > 0
          BY <3>5
        <5>2. s \in Sources /\ hits[s] \in Nat /\ hits'[s] \in Nat /\ hits'[s] >= hits[s]
          BY <1>2, <1>8, <2>0
        <5> QED
          BY <2>2, <5>1, <5>2
      <4> QED
        BY <2>2, <3>1, <4>1, <4>2 DEF Lost, Awaiting
    <3> QED
      BY <2>2, <3>2, <3>3, <3>4, <3>5
  <2> QED
    BY <2>1, <2>2
<1> QED
  BY <1>1, <1>4, <1>8, <1>9, <1>10, <1>11 DEF FilesAreTried, n

(* While the parse in hand stays so, nothing changes for the files.        *)
LEMMA FilesAreAsBefore ==
    ASSUME FilesAreTried, ParseIsOwn, pass' = pass, todo' = todo, again' = again, result' = result,
           hits' = hits, cost' = cost, asking' # "idle" => subject' \in todo /\ pass # "end"
    PROVE  FilesAreTried' /\ ParseIsOwn'
BY DEF FilesAreTried, ParseIsOwn, Stored, Awaiting, Rejected, Lost, PassNumber

LEMMA PostedIsOwn ==
    ASSUME PoolTypeOK, TicketIsOwn, asking # "parsing", NEW w \in Workers, NEW f \in Sources, Post(w, f),
           worker' = w, subject' = f, pass' = pass
    PROVE  /\ TicketIsOwn' /\ nextTicket' \in Nat /\ ticket' \in 0 .. nextTicket'
           /\ wjobs' \in [Workers -> SUBSET ParseJobs(nextTicket')]
           /\ \A v \in Workers \ {w} : wjobs'[v] = wjobs[v]
           /\ \A j \in wjobs'[w] : j.ticket = ticket' \/ j \in wjobs[w]
<1> DEFINE new == [file |-> f, ticket |-> nextTicket, bare |-> pass = "strip"]
<1>1. nextTicket \in Nat /\ wjobs \in [Workers -> SUBSET ParseJobs(nextTicket)]
  BY DEF PoolTypeOK
<1>2. /\ asking' = "parsing" /\ ticket' = nextTicket /\ nextTicket' = nextTicket + 1
      /\ wjobs' = [wjobs EXCEPT ![w] = @ \cup {new}]
  BY DEF Post
<1>3. ticket = 0
  BY DEF TicketIsOwn
<1>4. wjobs' \in [Workers -> SUBSET ParseJobs(nextTicket')]
  <2>1. new \in ParseJobs(nextTicket')
    BY <1>1, <1>2 DEF ParseJobs
  <2>2. ParseJobs(nextTicket) \subseteq ParseJobs(nextTicket')
    BY <1>1, <1>2 DEF ParseJobs
  <2> QED
    BY <1>1, <1>2, <2>1, <2>2
<1>5. /\ wjobs'[w] = wjobs[w] \cup {new} /\ \A v \in Workers \ {w} : wjobs'[v] = wjobs[v]
      /\ new.ticket = nextTicket
  BY <1>1, <1>2
<1>6. \A v \in Workers : \A j \in wjobs[v] : j.ticket \in Nat /\ j.ticket # 0 /\ j.ticket < nextTicket
  BY PoolShapes DEF TicketIsOwn
<1>7. Pending' = new
  BY <1>2 DEF Pending, Post
<1> HIDE DEF new
<1>8. TicketIsOwn'
  BY <1>1, <1>2, <1>5, <1>6, <1>7 DEF TicketIsOwn
<1> QED
  BY <1>1, <1>2, <1>4, <1>5, <1>8

LEMMA AskKeeps == ASSUME PoolInv, NEW f \in Sources, Ask(f) PROVE PoolInv'
<1> USE DEF PoolInv
<1>0. /\ asking = "idle" /\ f \in todo /\ pass # "end" /\ subject' = f
      /\ pass' = pass /\ todo' = todo /\ again' = again /\ result' = result /\ hits' = hits
      /\ cost' = cost /\ losses' = losses
  BY DEF Ask
<1>1. FilesAreTried' /\ ParseIsOwn'
  BY <1>0, FilesAreAsBefore
<1>2. CASE worker # 0 /\ pass = "main" /\ Post(worker, f) /\ UNCHANGED <<worker, wst>>
  <2>1. worker \in Workers
    BY <1>2, PoolShapes
  <2>2. /\ TicketIsOwn' /\ nextTicket' \in Nat /\ ticket' \in 0 .. nextTicket'
        /\ wjobs' \in [Workers -> SUBSET ParseJobs(nextTicket')]
        /\ \A v \in Workers \ {worker} : wjobs'[v] = wjobs[v]
        /\ \A j \in wjobs'[worker] : j.ticket = ticket' \/ j \in wjobs[worker]
    BY <1>0, <1>2, <2>1, PostedIsOwn
  <2>3. WorkerIsReady' /\ asking' = "parsing"
    BY <1>0, <1>2, <2>1, <2>2 DEF WorkerIsReady, Post
  <2>4. QueuedWereHit'
    <3>1. \A j \in wjobs[worker] : Behind(j)
      BY <1>0, <1>2, <2>1, PoolShapes DEF QueuedWereHit, TicketIsOwn
    <3> QED
      BY <1>0, <1>2, <2>2, <3>1 DEF QueuedWereHit, Behind
  <2> QED
    BY <1>0, <1>1, <1>2, <2>2, <2>3, <2>4 DEF PoolTypeOK
<1>3. CASE /\ Slots # {} /\ worker' = Slot /\ asking' = "spawning"
           /\ wst' = [Recycled(worker) EXCEPT ![Slot] = "loading"]
           /\ UNCHANGED <<ticket, nextTicket, wjobs>>
  <2>1. Slot \in Workers /\ Slot \in 1 .. MaxWorkers /\ Slot # 0 /\ wst[Slot] = "gone"
    BY <1>3, SlotIsFree DEF Workers
  <2>2. /\ Recycled(worker) \in [Workers -> {"loading", "ready", "ending", "dead", "gone"}]
        /\ \A w \in Workers : Recycled(worker)[w] \in {wst[w], "ending"}
    BY DEF PoolTypeOK, Recycled
  <2>3. /\ wst' \in [Workers -> {"loading", "ready", "ending", "dead", "gone"}] /\ wst'[Slot] = "loading"
        /\ \A w \in Workers \ {Slot} : wst'[w] \in {wst[w], "ending"}
    BY <1>3, <2>1, <2>2
  <2>4. WorkerIsReady'
    BY <1>3, <2>1, <2>3 DEF WorkerIsReady
  <2>5. TicketIsOwn'
    BY <1>0, <1>3, PoolShapes DEF TicketIsOwn
  <2>6. QueuedWereHit'
    BY <1>0, <1>3, <2>1 DEF WorkerIsReady, QueuedWereHit
  <2> QED
    BY <1>0, <1>1, <1>3, <2>1, <2>3, <2>4, <2>5, <2>6 DEF PoolTypeOK
<1> QED
  BY <1>2, <1>3 DEF Ask

LEMMA GrammarsKeep == ASSUME PoolInv, GrammarsLoaded PROVE PoolInv'
<1> USE DEF PoolInv
<1>0. /\ asking = "spawning" /\ wst[worker] = "loading" /\ wst' = [wst EXCEPT ![worker] = "ready"]
      /\ Post(worker, subject) /\ worker # 0 /\ asking' = "parsing"
      /\ pass' = pass /\ todo' = todo /\ again' = again /\ result' = result /\ hits' = hits
      /\ cost' = cost /\ losses' = losses /\ subject' = subject /\ worker' = worker
  BY DEF GrammarsLoaded, Post, WorkerIsReady
<1>1. FilesAreTried' /\ ParseIsOwn'
  BY <1>0, FilesAreAsBefore DEF FilesAreTried
<1>2. worker \in Workers /\ subject \in Sources /\ wjobs[worker] = {}
  BY <1>0, PoolShapes DEF WorkerIsReady
<1>3. /\ TicketIsOwn' /\ nextTicket' \in Nat /\ ticket' \in 0 .. nextTicket'
      /\ wjobs' \in [Workers -> SUBSET ParseJobs(nextTicket')]
      /\ \A v \in Workers \ {worker} : wjobs'[v] = wjobs[v]
      /\ \A j \in wjobs'[worker] : j.ticket = ticket' \/ j \in wjobs[worker]
  BY <1>0, <1>2, PostedIsOwn
<1>4. WorkerIsReady' /\ wst' \in [Workers -> {"loading", "ready", "ending", "dead", "gone"}]
  BY <1>0, <1>2, <1>3 DEF WorkerIsReady, PoolTypeOK
<1>5. QueuedWereHit'
  BY <1>0, <1>2, <1>3 DEF QueuedWereHit
<1> QED
  BY <1>0, <1>1, <1>3, <1>4, <1>5 DEF PoolTypeOK

LEMMA DyingKeeps == ASSUME PoolInv, DiesLoading PROVE PoolInv'
<1> USE DEF PoolInv
<1>0. /\ asking = "spawning" /\ wst[worker] = "loading" /\ wst' = [wst EXCEPT ![worker] = "gone"]
      /\ losses < MaxLosses /\ losses' = losses + 1 /\ worker # 0
      /\ pass' = pass /\ todo' = todo /\ again' = again /\ result' = result /\ hits' = hits
      /\ subject' = subject /\ worker' = worker /\ asking' = asking /\ ticket' = ticket
      /\ nextTicket' = nextTicket /\ wjobs' = wjobs /\ cost' = cost
  BY DEF DiesLoading, request, WorkerIsReady
<1>1. FilesAreTried' /\ ParseIsOwn'
  BY <1>0, FilesAreAsBefore DEF FilesAreTried
<1>2. worker \in Workers
  BY <1>0, PoolShapes
<1>3. TicketIsOwn' /\ QueuedWereHit'
  BY <1>0 DEF TicketIsOwn, Pending, QueuedWereHit, Behind
<1>4. WorkerIsReady' /\ wst' \in [Workers -> {"loading", "ready", "ending", "dead", "gone"}]
  BY <1>0, <1>2 DEF WorkerIsReady, PoolTypeOK
<1>5. losses' \in 0 .. MaxLosses
  BY <1>0, PoolAssumption DEF PoolTypeOK, PoolAssumption
<1> QED
  BY <1>0, <1>1, <1>3, <1>4, <1>5 DEF PoolTypeOK

LEMMA AnswerKeeps == ASSUME PoolInv, NEW w \in Workers, Answers(w) PROVE PoolInv'
<1> USE DEF PoolInv
<1>0. PICK j \in wjobs[w] : /\ Resolve(j) /\ wjobs' = [wjobs EXCEPT ![w] = @ \ {j}]
                            /\ worker' = worker /\ wst' = wst /\ hits' = hits /\ cost' = cost
                            /\ losses' = losses
  BY DEF Answers
<1>1. /\ wjobs \in [Workers -> SUBSET ParseJobs(nextTicket)] /\ nextTicket \in Nat /\ ticket \in Nat
      /\ wjobs' \in [Workers -> SUBSET ParseJobs(nextTicket)]
      /\ \A v \in Workers : wjobs'[v] \subseteq wjobs[v]
  BY <1>0, PoolShapes DEF PoolTypeOK
<1>3. CASE ticket # 0 /\ j.ticket = ticket
  <2>1. w = worker /\ j.file = subject /\ asking = "parsing"
    BY <1>3 DEF TicketIsOwn, Pending
  <2>2. Settled(subject)
    BY <1>0, <1>3, <2>1 DEF Resolve
  <2>3. /\ FilesAreTried' /\ ParseIsOwn' /\ todo' \subseteq Sources /\ again' \subseteq Sources
        /\ result' \in [Sources -> Sources \cup Errors] /\ hits' \in [Sources -> 0 .. 3]
    <3>1. hits' = IF FALSE THEN [hits EXCEPT ![subject] = @ + 1] ELSE hits
      BY <1>0
    <3>2. \A s \in Sources : cost[s] # "none" => cost'[s] = cost[s]
      BY <1>0
    <3> QED
      BY <2>1, <2>2, <3>1, <3>2, ParseEnds
  <2>4. /\ asking' = "idle" /\ ticket' = 0 /\ nextTicket' = nextTicket /\ pass' = pass /\ subject' = subject
        /\ todo' = todo \ {subject}
    BY <2>2 DEF Settled
  <2>5. TicketIsOwn'
    BY <1>1, <2>4 DEF TicketIsOwn
  <2>6. WorkerIsReady'
    BY <1>0, <1>1, <2>1, <2>4 DEF WorkerIsReady
  <2>7. QueuedWereHit'
    <3>1. \A k \in wjobs'[worker] : k.ticket # ticket
      <4>1. \A k \in wjobs'[worker] : k \in wjobs[w] /\ k # j
        BY <1>0, <1>1, <2>1
      <4>2. \A k \in wjobs[w] : k.ticket = ticket => k = j
        BY <2>1, <1>3 DEF TicketIsOwn
      <4> QED
        BY <4>1, <4>2
    <3> QED
      BY <1>0, <1>1, <2>1, <2>4, <3>1 DEF QueuedWereHit, Behind
  <2> QED
    BY <1>0, <1>1, <2>3, <2>4, <2>5, <2>6, <2>7 DEF PoolTypeOK
<1>4. CASE ~(ticket # 0 /\ j.ticket = ticket)
  <2>1. /\ pass' = pass /\ todo' = todo /\ again' = again /\ asking' = asking /\ subject' = subject
        /\ ticket' = ticket /\ nextTicket' = nextTicket /\ result' = result
    BY <1>0, <1>4 DEF Resolve, request
  <2>2. FilesAreTried' /\ ParseIsOwn'
    BY <1>0, <2>1, FilesAreAsBefore DEF FilesAreTried
  <2>3. TicketIsOwn'
    BY <1>0, <1>1, <2>1 DEF TicketIsOwn, Pending
  <2>4. WorkerIsReady'
    BY <1>0, <1>1, <2>1 DEF WorkerIsReady
  <2>5. QueuedWereHit'
    BY <1>0, <1>1, <2>1, PoolShapes DEF QueuedWereHit, Behind, WorkerIsReady
  <2> QED
    BY <1>0, <1>1, <2>1, <2>2, <2>3, <2>4, <2>5 DEF PoolTypeOK
<1> QED
  BY <1>3, <1>4

(* A worker comes to its end, or to its "error" event.                     *)
LEMMA EndKeeps ==
    ASSUME PoolInv, NEW w \in Workers, NEW reason \in {"exited", "error"}, RejectAllPending(reason),
           NEW own, Hit(own), own = 0 \/ (\E j \in wjobs[w] : j.ticket = own /\ ~CanParse(j)),
           wst[w] \notin {"loading", "gone"}, NEW last \in {"gone", "dead"},
           wst' = [wst EXCEPT ![w] = last], wjobs' = [wjobs EXCEPT ![w] = {}],
           worker' = IF worker = w /\ last = "gone" THEN 0 ELSE worker, cost' = cost, losses' = losses
    PROVE  PoolInv'
<1> USE DEF PoolInv
<1>1. /\ wjobs \in [Workers -> SUBSET ParseJobs(nextTicket)]
      /\ nextTicket \in Nat /\ ticket \in Nat /\ worker \in 0 .. MaxWorkers /\ MaxWorkers \in Nat
      /\ wst \in [Workers -> {"loading", "ready", "ending", "dead", "gone"}] /\ w # 0
  BY PoolShapes, PoolAssumption DEF PoolTypeOK, PoolAssumption
<1>2. /\ wjobs' \in [Workers -> SUBSET ParseJobs(nextTicket)] /\ wjobs'[w] = {} /\ wst'[w] = last
      /\ \A v \in Workers \ {w} : wjobs'[v] = wjobs[v] /\ wst'[v] = wst[v]
      /\ wst' \in [Workers -> {"loading", "ready", "ending", "dead", "gone"}]
      /\ worker' \in 0 .. MaxWorkers /\ (worker' # 0 => worker' = worker /\ worker \in Workers)
  BY <1>1, PoolShapes
<1>3. asking = "spawning" => worker # w /\ worker' = worker
  BY DEF WorkerIsReady
<1>4. CASE ticket # 0
  <2>1. Settled(reason) /\ asking = "parsing"
    BY <1>4 DEF RejectAllPending, TicketIsOwn
  <2>2. hits' = IF ticket # own THEN [hits EXCEPT ![subject] = @ + 1] ELSE hits
    BY <1>4 DEF Hit
  <2>3. ticket = own => w = worker /\ subject \notin Plain
    BY <1>4 DEF TicketIsOwn, Pending, CanParse
  <2>4. /\ FilesAreTried' /\ ParseIsOwn' /\ todo' \subseteq Sources /\ again' \subseteq Sources
        /\ result' \in [Sources -> Sources \cup Errors] /\ hits' \in [Sources -> 0 .. 3]
    <3>1. \A s \in Sources : cost[s] # "none" => cost'[s] = cost[s]
      OBVIOUS
    <3>2. PICK hit \in BOOLEAN : hit <=> ticket # own
      OBVIOUS
    <3>3. hits' = IF hit THEN [hits EXCEPT ![subject] = @ + 1] ELSE hits
      BY <2>2, <3>2
    <3> QED
      BY <2>1, <2>3, <3>1, <3>2, <3>3, ParseEnds
  <2>5. /\ asking' = "idle" /\ ticket' = 0 /\ nextTicket' = nextTicket /\ pass' = pass /\ subject' = subject
        /\ todo' = todo \ {subject}
    BY <2>1 DEF Settled
  <2>6. TicketIsOwn'
    BY <1>1, <1>2, <2>5 DEF TicketIsOwn
  <2>7. WorkerIsReady'
    BY <1>1, <1>2, <1>3, <2>1, <2>5 DEF WorkerIsReady
  <2>8. QueuedWereHit'
    <3>1. ASSUME worker' # 0, NEW j \in wjobs'[worker'], pass = "main"
          PROVE  hits'[j.file] > 0 /\ j.file \notin todo' /\ cost[j.file] = "none"
      <4>1. worker \in Workers /\ worker' = worker /\ worker # w /\ j \in wjobs[worker]
        BY <1>2, <3>1
      <4>2. /\ hits \in [Sources -> 0 .. 3] /\ subject \in todo /\ subject \in Sources /\ ticket # own
            /\ j.file \in Sources
        BY <2>1, <2>3, <4>1, PoolShapes DEF FilesAreTried
      <4>3. hits' = [hits EXCEPT ![subject] = @ + 1]
        BY <2>2, <4>2
      <4>4. CASE j.ticket = ticket
        <5>1. j.file = subject
          BY <4>1, <4>4 DEF TicketIsOwn, Pending
        <5> QED
          BY <2>5, <3>1, <4>2, <4>3, <5>1 DEF QueuedWereHit
      <4>5. CASE j.ticket # ticket
        <5>1. hits[j.file] > 0 /\ j.file \notin todo /\ cost[j.file] = "none"
          BY <3>1, <4>1, <4>5 DEF QueuedWereHit, Behind
        <5> QED
          BY <2>5, <4>2, <4>3, <5>1
      <4> QED
        BY <4>4, <4>5
    <3> QED
      BY <2>5, <3>1 DEF QueuedWereHit, Behind
  <2> QED
    BY <1>2, <2>4, <2>5, <2>6, <2>7, <2>8 DEF PoolTypeOK
<1>5. CASE ticket = 0
  <2>1. /\ pass' = pass /\ todo' = todo /\ again' = again /\ asking' = asking /\ subject' = subject
        /\ ticket' = ticket /\ nextTicket' = nextTicket /\ result' = result
    BY <1>5 DEF RejectAllPending, request
  <2>2. hits' = hits
    BY <1>5 DEF Hit
  <2>3. FilesAreTried' /\ ParseIsOwn'
    BY <2>1, <2>2, FilesAreAsBefore DEF FilesAreTried
  <2>4. TicketIsOwn'
    BY <1>1, <1>2, <1>5, <2>1 DEF TicketIsOwn, Pending
  <2>a. asking \in {"idle", "spawning"}
    BY <1>5 DEF TicketIsOwn, PoolTypeOK
  <2>b. worker' # 0 => worker' = worker /\ (worker = w => asking = "idle" /\ last = "dead")
    BY <1>1, <1>2, <1>3, <2>a
  <2>5. WorkerIsReady'
    <3>1. asking' # "idle" => worker' # 0
      BY <1>3, <2>1, <2>a DEF WorkerIsReady
    <3>2. worker' # 0 => wst'[worker'] \in IF asking' = "spawning" THEN {"loading", "gone"} ELSE {"ready", "dead"}
      BY <1>2, <2>1, <2>b DEF WorkerIsReady
    <3>3. \A v \in Workers : wst'[v] \in {"loading", "gone"} => wjobs'[v] = {}
      BY <1>2 DEF WorkerIsReady
    <3> QED
      BY <3>1, <3>2, <3>3 DEF WorkerIsReady
  <2>6. QueuedWereHit'
    <3>1. worker' # 0 => wjobs'[worker'] \subseteq wjobs[worker]
      BY <1>2, <2>b
    <3>2. worker' # 0 => \A j \in wjobs'[worker'] : j.ticket = ticket \/ Behind(j)
      BY <2>b, <3>1 DEF QueuedWereHit
    <3>3. asking # "idle" => worker' # 0
      BY <1>3, <2>a DEF WorkerIsReady
    <3> QED
      BY <1>5, <2>1, <2>2, <2>b, <3>1, <3>2, <3>3 DEF QueuedWereHit, Behind
  <2> QED
    BY <1>2, <2>1, <2>2, <2>3, <2>4, <2>5, <2>6 DEF PoolTypeOK
<1> QED
  BY <1>4, <1>5

LEMMA CrashKeeps == ASSUME PoolInv, NEW w \in Workers, Crashes(w) \/ EndsLate(w) \/ Fails(w) PROVE PoolInv'
<1>1. CASE Crashes(w)
  <2>1. PICK j \in wjobs[w] : ~CanParse(j) /\ Exits(w, j.ticket)
    BY <1>1 DEF Crashes
  <2>2. wst[w] = "ready" /\ Hit(j.ticket)
    BY <1>1, <2>1 DEF Crashes, Exits
  <2>3. worker' = IF worker = w /\ "gone" = "gone" THEN 0 ELSE worker
    BY <2>1 DEF Exits
  <2> QED
    BY <2>1, <2>2, <2>3, EndKeeps DEF Exits
<1>2. CASE EndsLate(w)
  <2>1. Exits(w, 0) /\ wst[w] \in {"ending", "dead"}
    BY <1>2 DEF EndsLate
  <2>2. worker' = IF worker = w /\ "gone" = "gone" THEN 0 ELSE worker
    BY <2>1 DEF Exits
  <2> QED
    BY <2>1, <2>2, EndKeeps DEF Exits
<1>3. CASE Fails(w)
  <2>1. PICK j \in wjobs[w] : ~CanParse(j) /\ Hit(j.ticket)
    BY <1>3 DEF Fails
  <2>2. wst[w] \in {"ready", "ending"} /\ worker' = IF worker = w /\ "dead" = "gone" THEN 0 ELSE worker
    BY <1>3 DEF Fails
  <2> QED
    BY <1>3, <2>1, <2>2, EndKeeps DEF Fails
<1> QED
  BY <1>1, <1>2, <1>3

LEMMA TimeoutKeeps == ASSUME PoolInv, TimesOut PROVE PoolInv'
<1> USE DEF PoolInv
<1>0. /\ asking = "parsing" /\ Settled("timeout") /\ worker' = 0 /\ worker \in Workers
      /\ wst' = [wst EXCEPT ![worker] = "ending"] /\ wjobs' = wjobs /\ hits' = hits /\ losses' = losses
      /\ subject \in todo /\ subject \in Sources
  BY PoolShapes DEF TimesOut, WorkerIsReady, FilesAreTried
<1>1. /\ asking' = "idle" /\ ticket' = 0 /\ nextTicket' = nextTicket /\ pass' = pass /\ subject' = subject
      /\ todo' = todo \ {subject}
  BY <1>0 DEF Settled
<1>2. PICK j \in wjobs[worker] :
          /\ j.file \in Slow
          /\ cost' = IF j.ticket = ticket THEN cost ELSE [cost EXCEPT ![j.file] = subject]
  BY DEF TimesOut
<1>3. /\ j.file \in Sources /\ cost \in [Sources -> Sources \cup {"none"}]
      /\ cost' \in [Sources -> Sources \cup {"none"}]
  BY <1>0, <1>2, PoolShapes
<1>4. j.ticket # ticket => pass = "main" /\ hits[j.file] > 0 /\ j.file \notin todo /\ cost[j.file] = "none"
  BY <1>0, <1>2 DEF QueuedWereHit, Behind, WorkerIsReady
<1>5. /\ FilesAreTried' /\ ParseIsOwn' /\ todo' \subseteq Sources /\ again' \subseteq Sources
      /\ result' \in [Sources -> Sources \cup Errors] /\ hits' \in [Sources -> 0 .. 3]
  <2>1. hits' = IF FALSE THEN [hits EXCEPT ![subject] = @ + 1] ELSE hits
    BY <1>0
  <2>2. \A s \in Sources : cost[s] # "none" => cost'[s] = cost[s]
    BY <1>2, <1>3, <1>4
  <2>3. subject \in Plain => pass = "main" /\ \E s \in Slow : cost'[s] = subject /\ hits[s] > 0
    <3> SUFFICES ASSUME subject \in Plain
                 PROVE  pass = "main" /\ cost'[j.file] = subject /\ hits[j.file] > 0
      BY <1>2
    <3>1. j.ticket # ticket
      BY <1>0, <1>2, SourcesAreNoErrors DEF TicketIsOwn, Pending
    <3> QED
      BY <1>2, <1>3, <1>4, <3>1
  <2> QED
    BY <1>0, <2>1, <2>2, <2>3, ParseEnds
<1>6. TicketIsOwn'
  BY <1>0, <1>1, PoolShapes DEF TicketIsOwn
<1>7. WorkerIsReady' /\ wst' \in [Workers -> {"loading", "ready", "ending", "dead", "gone"}]
  BY <1>0, <1>1 DEF WorkerIsReady, PoolTypeOK
<1>8. QueuedWereHit'
  BY <1>0, <1>1, <1>2, <1>3, <1>4 DEF QueuedWereHit, PoolTypeOK
<1>9. 0 \in 0 .. MaxWorkers
  BY PoolAssumption DEF PoolAssumption
<1> QED
  BY <1>0, <1>1, <1>3, <1>5, <1>6, <1>7, <1>8, <1>9 DEF PoolTypeOK

LEMMA PassKeeps == ASSUME PoolInv, EndPass PROVE PoolInv'
<1> USE DEF PoolInv
<1>0. /\ pass # "end" /\ asking = "idle" /\ todo = {} /\ pass' = NextPass /\ todo' = again /\ again' = {}
      /\ asking' = asking /\ subject' = subject /\ ticket' = ticket /\ nextTicket' = nextTicket
      /\ worker' = worker /\ wst' = wst /\ wjobs' = wjobs /\ result' = result /\ hits' = hits
      /\ cost' = cost /\ losses' = losses
  BY DEF EndPass, pool
<1>1. /\ PassNumber \in 0 .. 2 /\ PassNumber' = PassNumber + 1 /\ pass' \in Passes /\ pass' # "main"
  BY <1>0 DEF PoolTypeOK, Passes, PassNumber, NextPass
<1>2. FilesAreTried'
  <2>1. \A f \in Sources : hits[f] \in 0 .. 3 /\ hits[f] <= PassNumber + 1
    BY <1>0 DEF PoolTypeOK, FilesAreTried
  <2>2. \A f \in Sources : hits'[f] <= IF f \in todo' \/ pass' = "end" THEN PassNumber' ELSE PassNumber' + 1
    BY <1>0, <1>1, <2>1
  <2>3. \A f \in Plain : (Stored(f) \/ Awaiting(f) \/ Rejected(f) \/ Lost(f))'
    BY <1>0, <1>1 DEF FilesAreTried, Stored, Awaiting, Rejected, Lost
  <2> QED
    BY <1>0, <2>2, <2>3 DEF FilesAreTried
<1>3. ParseIsOwn' /\ TicketIsOwn' /\ WorkerIsReady' /\ QueuedWereHit'
  BY <1>0, <1>1 DEF ParseIsOwn, TicketIsOwn, Pending, WorkerIsReady, QueuedWereHit, Behind
<1> QED
  BY <1>0, <1>1, <1>2, <1>3 DEF PoolTypeOK

LEMMA PoolInvIsKept == ASSUME PoolInv, [StepPool]_poolVars PROVE PoolInv'
<1>1. ASSUME NEW f \in Sources, Ask(f) PROVE PoolInv'
  BY <1>1, AskKeeps
<1>2. ASSUME NEW w \in Workers, Answers(w) PROVE PoolInv'
  BY <1>2, AnswerKeeps
<1>3. ASSUME NEW w \in Workers, Crashes(w) \/ Fails(w) \/ EndsLate(w) PROVE PoolInv'
  BY <1>3, CrashKeeps
<1>4. CASE UNCHANGED poolVars
  <2>1. /\ pass' = pass /\ todo' = todo /\ again' = again /\ asking' = asking /\ subject' = subject
        /\ ticket' = ticket /\ nextTicket' = nextTicket /\ worker' = worker /\ wst' = wst /\ wjobs' = wjobs
        /\ result' = result /\ hits' = hits /\ cost' = cost /\ losses' = losses
    BY <1>4 DEF poolVars, request, pool
  <2>2. FilesAreTried' /\ ParseIsOwn'
    BY <2>1, FilesAreAsBefore DEF PoolInv, FilesAreTried
  <2> QED
    BY <2>1, <2>2 DEF PoolInv, PoolTypeOK, TicketIsOwn, Pending, WorkerIsReady, QueuedWereHit, Behind
<1> QED
  BY <1>1, <1>2, <1>3, <1>4, GrammarsKeep, DyingKeeps, TimeoutKeeps, PassKeeps DEF StepPool

LEMMA PoolInvHolds == SpecPool => []PoolInv
BY PoolInvStarts, PoolInvIsKept, PTL DEF SpecPool

(* parse-worker.ts: the request in hand and the workers keep their shapes. *)
THEOREM PoolTypes == SpecPool => []PoolTypeOK
<1>1. PoolInv => PoolTypeOK
  BY DEF PoolInv
<1> QED
  BY <1>1, PoolInvHolds, PTL

(* extraction/index.ts:775-783, 1034-1040: whatever answers late, crashes  *)
(* or times out, a file's symbols come from its own parse, and a file that *)
(* parses is indexed by the end of the passes unless the ends of others    *)
(* hit it in all three, or one by an "error" in the first, or it was       *)
(* behind a slow file that such an end had taken from the loop.            *)
THEOREM ParsesAreOwnAndComplete == SpecPool => []FilesAreIndexed
<1>1. PoolInv => FilesAreIndexed
  <2> SUFFICES ASSUME PoolInv, pass = "end", NEW f \in Plain
               PROVE  \/ result[f] = f \/ hits[f] = 3 \/ (result[f] = "error" /\ hits[f] > 0)
                      \/ result[f] = "timeout" /\ \E s \in Slow : cost[s] = f /\ hits[s] > 0
    BY DEF FilesAreIndexed, PlainFilesAreIndexed, PoolInv
  <2>1. PassNumber = 3
    BY DEF PassNumber
  <2>2. f \in Sources /\ hits[f] <= 3
    BY <2>1, SourcesAreNoErrors DEF PoolInv, FilesAreTried
  <2> QED
    BY <2>1, <2>2 DEF PoolInv, PoolTypeOK, FilesAreTried, Stored, Awaiting, Rejected, Lost
<1> QED
  BY <1>1, PoolInvHolds, PTL

-----------------------------------------------------------------------------
(* While no lock was snatched, the file tells who is inside: a writer has  *)
(* just created it, and everybody past the write finds its own pid in it.  *)
FileTells ==
    /\ \A p \in Holders : fpc[p] = "write" => file = Empty
    /\ \A p \in Holders : fpc[p] \in {"held", "delete"} => file = p
    /\ \A p, q \in Holders : fpc[p] = "write" /\ fpc[q] = "write" => p = q

(* What a process is about to unlink was no lock, or a dead process's.     *)
JudgedAreDead ==
    \A p \in Holders : fpc[p] = "unlink" =>
        judged[p] = Nobody \/ (judged[p] \in Holders /\ fpc[judged[p]] = "dead")

LockInv == LockTypeOK /\ (slow \/ snatched \/ (FileTells /\ JudgedAreDead))

-----------------------------------------------------------------------------
LEMMA LockInvStarts == InitLock => LockInv
BY LockAssumption DEF LockAssumption, InitLock, LockInv, LockTypeOK, FilePc, FileTells, JudgedAreDead

LEMMA LockInvIsKept == ASSUME LockInv, [StepLock]_lockVars PROVE LockInv'
<1> USE LockAssumption DEF LockAssumption, LockInv, LockTypeOK, FilePc, FileTells, JudgedAreDead
<1>1. ASSUME Ages PROVE LockInv'
  BY <1>1 DEF Ages
<1>2. ASSUME NEW p \in Holders, AcquireLock(p) PROVE LockInv'
  BY <1>2 DEF AcquireLock, Move
<1>3. ASSUME NEW p \in Holders, CheckLock(p) PROVE LockInv'
  <2>1. LockTypeOK'
    BY <1>3 DEF CheckLock, Move
  <2>2. CASE slow \/ snatched \/ slow' \/ snatched'
    BY <1>3, <2>1, <2>2 DEF CheckLock, Move
  <2>3. CASE ~slow' /\ ~snatched' /\ ~slow /\ ~snatched
    <3>1. FileTells'
      BY <1>3, <2>3 DEF CheckLock, Move
    <3>2. JudgedAreDead'
      BY <1>3, <2>3 DEF CheckLock, Move, HeldByOther, Running
    <3> QED
      BY <2>1, <3>1, <3>2
  <2> QED
    BY <2>2, <2>3
<1>4. ASSUME NEW p \in Holders, UnlinkLock(p) PROVE LockInv'
  BY <1>4 DEF UnlinkLock, Move
<1>5. ASSUME NEW p \in Holders, CreateLock(p) PROVE LockInv'
  <2>1. LockTypeOK' /\ (JudgedAreDead' \/ slow \/ snatched)
    BY <1>5 DEF CreateLock, Move
  <2>2. CASE file = Nobody
    <3>1. \A q \in Holders : q # p => fpc'[q] = fpc[q]
      BY <1>5 DEF CreateLock, Move
    <3>2. file' = Empty /\ fpc'[p] = "write" /\ slow' = slow /\ snatched' = snatched
      BY <1>5, <2>2 DEF CreateLock, Move
    <3>3. LockTypeOK'
      BY <1>5 DEF CreateLock, Move
    <3>4. ~slow /\ ~snatched => FileTells'
      BY <2>2, <3>1, <3>2
    <3> QED
      BY <2>1, <3>2, <3>3, <3>4
  <2>3. CASE file # Nobody
    BY <1>5, <2>3 DEF CreateLock, Move
  <2> QED
    BY <2>2, <2>3
<1>6. ASSUME NEW p \in Holders, WritePid(p) PROVE LockInv'
  BY <1>6 DEF WritePid, Move
<1>7. ASSUME NEW p \in Holders, Verify(p) PROVE LockInv'
  BY <1>7 DEF Verify, Move
<1>8. ASSUME NEW p \in Holders, DeleteLock(p) PROVE LockInv'
  BY <1>8 DEF DeleteLock, Move
<1>9. ASSUME NEW p \in Holders, Dies(p) PROVE LockInv'
  BY <1>9 DEF Dies, Move, Running
<1>10. CASE UNCHANGED lockVars
  BY <1>10 DEF lockVars
<1> QED
  BY <1>1, <1>2, <1>3, <1>4, <1>5, <1>6, <1>7, <1>8, <1>9, <1>10 DEF StepLock

LEMMA LockInvHolds == SpecLock => []LockInv
BY LockInvStarts, LockInvIsKept, PTL DEF SpecLock

(* At most one process is inside, whatever set Inside is carved from.      *)
LEMMA InsideIsOne == ASSUME LockInv PROVE LockExcludes
<1> SUFFICES ASSUME ~slow, ~snatched PROVE Cardinality(Inside) <= 1
  BY DEF LockExcludes
<1>1. \A p, q \in Inside : p = q
  BY LockAssumption DEF LockAssumption, LockInv, FileTells, Inside
<1>2. CASE Inside = {}
  BY <1>2, FS_EmptySet
<1>3. CASE Inside # {}
  <2>1. PICK p \in Inside : TRUE
    BY <1>3
  <2>2. Inside = {p}
    BY <1>1, <2>1
  <2>3. Cardinality({p}) = 1
    BY FS_Singleton, Zenon
  <2> QED
    BY <2>2, <2>3
<1> QED
  BY <1>2, <1>3

-----------------------------------------------------------------------------
(* utils.ts:215-246: the file and what each process makes of it keep to    *)
(* their types.                                                            *)
THEOREM LockTypeCorrect == SpecLock => []LockTypeOK
<1>1. LockInv => LockTypeOK
  BY DEF LockInv
<1> QED
  BY <1>1, LockInvHolds, PTL

(* utils.ts:188-200: any number of processes, dying anywhere, share the    *)
(* database one at a time, unless a lock of a live process was taken for   *)
(* stale, read before its pid was in it, or unlinked by a late hand.       *)
THEOREM LockIsExclusive == SpecLock => []LockExcludes
<1>1. LockInv => LockExcludes
  BY InsideIsOne
<1> QED
  BY <1>1, LockInvHolds, PTL
=============================================================================
