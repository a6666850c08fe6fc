------------------------------ MODULE FileLock ------------------------------
(***************************************************************************)
(* The pid file lock of codegraph (class FileLock of utils.ts): check,     *)
(* unlink and exclusive creation are separate file system calls, the pid   *)
(* is written after the creation, and a lock older than two minutes is     *)
(* taken for stale whoever holds it.                                       *)
(***************************************************************************)
EXTENDS Naturals, FiniteSets

CONSTANTS
    Holders,       \* processes that index
    Nobody,        \* no lock file
    Empty,         \* a lock file without its pid
    MaxDeaths      \* bound: processes that die

ASSUME LockAssumption ==
    Nobody \notin Holders /\ Empty \notin Holders /\ Nobody # Empty /\ MaxDeaths \in Nat

VARIABLES
    file,          \* the lock file: Nobody, Empty or a pid
    aged,          \* its mtime is two minutes old
    fpc,           \* where each process is
    judged,        \* what a process found before it unlinks
    slow,          \* history: a live holder's lock was old enough to be taken
    snatched       \* history: a fresh lock was unlinked by a late or early look

lockVars == <<file, aged, fpc, judged, slow, snatched>>

FilePc == {"out", "check", "unlink", "create", "write", "held", "verify", "delete", "dead"}

InitLock ==
    /\ file = Nobody /\ aged = FALSE /\ fpc = [p \in Holders |-> "out"]
    /\ judged = [p \in Holders |-> Nobody] /\ slow = FALSE /\ snatched = FALSE

Running(p) == p \in Holders /\ fpc[p] # "dead"
Move(p, at) == fpc' = [fpc EXCEPT ![p] = at]

AcquireLock(p) ==
    /\ fpc[p] = "out" /\ Move(p, IF file = Nobody THEN "create" ELSE "check")
    /\ UNCHANGED <<file, aged, judged, slow, snatched>>

HeldByDead == ~aged /\ file \in Holders /\ ~Running(file)
HeldByOther == ~aged /\ Running(file)

(* The lock is respected while it is young and its process lives; the file *)
(* may also have gone, which reads as an error.                            *)
CheckLock(p) ==
    /\ fpc[p] = "check" /\ judged' = [judged EXCEPT ![p] = file]
    /\ Move(p, IF HeldByOther THEN "out" ELSE "unlink")
    /\ slow' = (slow \/ (aged /\ Running(file)))
    /\ snatched' = (snatched \/ file = Empty)
    /\ UNCHANGED <<file, aged>>

UnlinkLock(p) ==
    /\ fpc[p] = "unlink" /\ Move(p, "create") /\ file' = Nobody /\ aged' = FALSE
    /\ snatched' = (snatched \/ file \notin {judged[p], Nobody})
    /\ UNCHANGED <<judged, slow>>

(* The exclusive creation, and the write of the pid that follows it.       *)
CreateLock(p) ==
    /\ fpc[p] = "create"
    /\ IF file = Nobody
       THEN file' = Empty /\ aged' = FALSE /\ Move(p, "write")
       ELSE Move(p, "out") /\ UNCHANGED <<file, aged>>
    /\ UNCHANGED <<judged, slow, snatched>>

WritePid(p) ==
    /\ fpc[p] = "write" /\ Move(p, "held")
    /\ file' = IF file = Empty THEN p ELSE file
    /\ UNCHANGED <<aged, judged, slow, snatched>>

Ages ==
    /\ file \in Holders /\ ~aged /\ aged' = TRUE
    /\ UNCHANGED <<file, fpc, judged, slow, snatched>>

(* release: the file is deleted only if it still names this process.       *)
Verify(p) ==
    /\ fpc[p] = "held" /\ Move(p, IF file = p THEN "delete" ELSE "out")
    /\ UNCHANGED <<file, aged, judged, slow, snatched>>

DeleteLock(p) ==
    /\ fpc[p] = "delete" /\ Move(p, "out") /\ file' = Nobody /\ aged' = FALSE
    /\ snatched' = (snatched \/ file \notin {p, Nobody})
    /\ UNCHANGED <<judged, slow>>

Dies(p) ==
    /\ Running(p) /\ Cardinality({q \in Holders : ~Running(q)}) < MaxDeaths
    /\ Move(p, "dead") /\ UNCHANGED <<file, aged, judged, slow, snatched>>

StepLock ==
    \/ Ages
    \/ \E p \in Holders :
           \/ AcquireLock(p) \/ CheckLock(p) \/ UnlinkLock(p) \/ CreateLock(p)
           \/ WritePid(p) \/ Verify(p) \/ DeleteLock(p) \/ Dies(p)

SpecLock == InitLock /\ [][StepLock]_lockVars

-----------------------------------------------------------------------------
LockTypeOK ==
    /\ file \in Holders \cup {Nobody, Empty} /\ aged \in BOOLEAN
    /\ fpc \in [Holders -> FilePc] /\ judged \in [Holders -> Holders \cup {Nobody, Empty}]
    /\ slow \in BOOLEAN /\ snatched \in BOOLEAN

Inside == {p \in Holders : fpc[p] \in {"write", "held", "delete"}}

(* utils.ts:188-200: the lock keeps two processes from writing one         *)
(* database: it fails only when an operation outlasts two minutes, when    *)
(* the file is read before its pid is in it, or when the unlink comes      *)
(* after another process has replaced the lock that was judged.            *)
LockExcludes == slow \/ snatched \/ Cardinality(Inside) <= 1
=============================================================================
