----------------------------- MODULE ParsePool ------------------------------
(***************************************************************************)
(* The parse worker of a full index (indexAll of extraction/index.ts and   *)
(* parse-worker.ts): one request at a time, a worker that is recycled,     *)
(* times out, crashes or dies, terminations nobody waits for, requests     *)
(* queued behind one that was given up, and the two retry passes over      *)
(* files whose worker exited.                                              *)
(***************************************************************************)
EXTENDS Naturals, FiniteSets

CONSTANTS
    Plain,         \* files that parse
    Slow,          \* files that may miss their timeout and parse later
    Fatal,         \* files that exhaust the parser's memory
    Verbose,       \* files that do so unless their comments are stripped
    MaxWorkers,    \* bound: workers at one time
    MaxLosses      \* bound: workers that die before they can parse

Sources == Plain \cup Slow \cup Fatal \cup Verbose
Workers == 1 .. MaxWorkers
Passes == {"main", "retry", "strip", "end"}
Errors == {"none", "exited", "timeout", "error"}

ASSUME PoolAssumption ==
    /\ Sources # {} /\ Sources \cap Errors = {}
    /\ Plain \cap (Slow \cup Fatal \cup Verbose) = {}
    /\ MaxWorkers \in Nat \ {0} /\ MaxLosses \in Nat

VARIABLES
    pass,          \* main loop, retry, retry without comments, end
    todo,          \* files this pass has still to parse
    again,         \* files for the next pass
    asking,        \* idle, spawning a worker, or parsing
    subject,       \* the file in hand
    ticket,        \* id of the pending parse, 0 when there is none
    nextTicket,    \* nextId
    worker,        \* parseWorker, 0 for null
    wst,           \* state of each worker
    wjobs,         \* what it was sent and has not answered, in the order of tickets
    result,        \* none, its first error, or the file whose symbols were stored
    hits,          \* history: rejections of a file by an end other than its own
    cost,          \* history: the file that timed out behind a slow one
    losses         \* workers lost while they loaded their grammars

request == <<pass, todo, again, asking, subject, ticket, nextTicket>>
pool == <<worker, wst, wjobs>>
poolVars == <<request, pool, result, hits, cost, losses>>

ParseJobs(n) == [file : Sources, ticket : 0 .. n, bare : BOOLEAN]

InitPool ==
    /\ pass = "main" /\ todo = Sources /\ again = {} /\ asking = "idle"
    /\ subject = (CHOOSE f \in Sources : TRUE) /\ ticket = 0 /\ nextTicket = 1
    /\ worker = 0 /\ wst = [w \in Workers |-> "gone"] /\ wjobs = [w \in Workers |-> {}]
    /\ result = [f \in Sources |-> "none"] /\ losses = 0
    /\ hits = [f \in Sources |-> 0] /\ cost = [f \in Sources |-> "none"]

Slots == {w \in Workers : wst[w] = "gone"}
Slot == CHOOSE w \in Slots : \A v \in Slots : w <= v

-----------------------------------------------------------------------------
(* requestParse: a worker that has parsed enough, and any worker in a      *)
(* retry pass, is terminated without waiting for its end.  A worker that   *)
(* is kept may still be at a file whose promise another worker's end has   *)
(* rejected: what it is sent waits behind that.                            *)
Post(w, f) ==
    /\ asking' = "parsing" /\ ticket' = nextTicket /\ nextTicket' = nextTicket + 1
    /\ wjobs' = [wjobs EXCEPT ![w] = @ \cup {[file |-> f, ticket |-> nextTicket, bare |-> pass = "strip"]}]

Recycled(w) == IF w = 0 \/ wst[w] = "dead" THEN wst ELSE [wst EXCEPT ![w] = "ending"]

Ask(f) ==
    /\ asking = "idle" /\ f \in todo /\ pass # "end" /\ subject' = f
    /\ \/ /\ worker # 0 /\ pass = "main" /\ Post(worker, f) /\ UNCHANGED <<worker, wst>>
       \/ /\ Slots # {} /\ worker' = Slot /\ asking' = "spawning"
          /\ wst' = [Recycled(worker) EXCEPT ![Slot] = "loading"]
          /\ UNCHANGED <<ticket, nextTicket, wjobs>>
    /\ UNCHANGED <<pass, todo, again, result, hits, cost, losses>>

GrammarsLoaded ==
    /\ asking = "spawning" /\ wst[worker] = "loading"
    /\ wst' = [wst EXCEPT ![worker] = "ready"] /\ Post(worker, subject)
    /\ UNCHANGED <<pass, todo, again, subject, worker, result, hits, cost, losses>>

(* Nothing settles the promise that waits for "grammars-loaded".           *)
DiesLoading ==
    /\ asking = "spawning" /\ wst[worker] = "loading" /\ losses < MaxLosses
    /\ losses' = losses + 1 /\ wst' = [wst EXCEPT ![worker] = "gone"]
    /\ UNCHANGED <<request, worker, wjobs, result, hits, cost>>

-----------------------------------------------------------------------------
(* The end of the parse in hand: stored, or noted as an error.  The exit   *)
(* of a worker is retried in the next pass, and after the first pass every *)
(* failure is.                                                             *)
Settled(outcome) ==
    /\ asking' = "idle" /\ ticket' = 0 /\ todo' = todo \ {subject}
    /\ result' = IF outcome \in Sources \/ pass = "main"
                 THEN [result EXCEPT ![subject] = outcome] ELSE result
    /\ again' = IF outcome = "exited" \/ (pass # "main" /\ outcome \notin Sources)
                THEN again \cup {subject} ELSE again
    /\ UNCHANGED <<pass, subject, nextTicket>>

CanParse(j) == j.file \in Plain \cup Slow \/ (j.file \in Verbose /\ j.bare)

(* The request a worker is at.                                             *)
At(w, j) == j \in wjobs[w] /\ \A k \in wjobs[w] : j.ticket <= k.ticket

(* A message resolves the pending parse of its id, and is ignored when     *)
(* there is none.                                                          *)
Resolve(j) ==
    IF ticket # 0 /\ j.ticket = ticket THEN Settled(j.file) ELSE UNCHANGED <<request, result>>

Answers(w) ==
    /\ wst[w] \in {"ready", "ending"}
    /\ \E j \in wjobs[w] : /\ At(w, j) /\ CanParse(j) /\ Resolve(j)
                          /\ wjobs' = [wjobs EXCEPT ![w] = @ \ {j}]
    /\ UNCHANGED <<worker, wst, hits, cost, losses>>

(* The end of a worker rejects whatever is pending, on any worker.         *)
RejectAllPending(reason) ==
    IF ticket # 0 THEN Settled(reason) ELSE UNCHANGED <<request, result>>

Hit(own) == hits' = IF ticket \notin {0, own} THEN [hits EXCEPT ![subject] = @ + 1] ELSE hits

Exits(w, own) ==
    /\ RejectAllPending("exited") /\ Hit(own)
    /\ wst' = [wst EXCEPT ![w] = "gone"] /\ wjobs' = [wjobs EXCEPT ![w] = {}]
    /\ worker' = IF worker = w THEN 0 ELSE worker
    /\ UNCHANGED <<cost, losses>>

(* A worker out of WASM memory exits, which is retried.  Any other failure *)
(* is an "error" event first, which is not, and the worker stays           *)
(* parseWorker until its exit follows.                                     *)
Crashes(w) ==
    /\ wst[w] = "ready"
    /\ \E j \in wjobs[w] : At(w, j) /\ ~CanParse(j) /\ Exits(w, j.ticket)

Fails(w) ==
    /\ wst[w] \in {"ready", "ending"}
    /\ \E j \in wjobs[w] : At(w, j) /\ ~CanParse(j) /\ Hit(j.ticket)
    /\ RejectAllPending("error")
    /\ wst' = [wst EXCEPT ![w] = "dead"] /\ wjobs' = [wjobs EXCEPT ![w] = {}]
    /\ UNCHANGED <<worker, cost, losses>>

EndsLate(w) == wst[w] \in {"ending", "dead"} /\ Exits(w, 0)

(* The timer rejects first and leaves the worker to its end.  It runs from *)
(* the sending, so a file before it on the worker can use up its time.     *)
TimesOut ==
    /\ asking = "parsing" /\ wst[worker] = "ready" /\ Settled("timeout")
    /\ \E j \in wjobs[worker] :
           /\ j.file \in Slow
           /\ cost' = IF j.ticket = ticket THEN cost ELSE [cost EXCEPT ![j.file] = subject]
    /\ worker' = 0 /\ wst' = [wst EXCEPT ![worker] = "ending"]
    /\ UNCHANGED <<wjobs, hits, losses>>

OneRetry == IF pass = "main" THEN "strip" ELSE "end"

NextPass == CASE pass = "main" -> "retry" [] pass = "retry" -> "strip" [] OTHER -> "end"

EndPass ==
    /\ pass # "end" /\ asking = "idle" /\ todo = {}
    /\ pass' = NextPass /\ todo' = again /\ again' = {}
    /\ UNCHANGED <<asking, subject, ticket, nextTicket, pool, result, hits, cost, losses>>

StepPool ==
    \/ \E f \in Sources : Ask(f)
    \/ GrammarsLoaded \/ DiesLoading \/ TimesOut \/ EndPass
    \/ \E w \in Workers : Answers(w) \/ Crashes(w) \/ Fails(w) \/ EndsLate(w)

SpecPool == InitPool /\ [][StepPool]_poolVars

-----------------------------------------------------------------------------
PoolTypeOK ==
    /\ pass \in Passes /\ todo \subseteq Sources /\ again \subseteq Sources
    /\ asking \in {"idle", "spawning", "parsing"} /\ subject \in Sources
    /\ nextTicket \in Nat /\ ticket \in 0 .. nextTicket /\ worker \in 0 .. MaxWorkers
    /\ wst \in [Workers -> {"loading", "ready", "ending", "dead", "gone"}]
    /\ wjobs \in [Workers -> SUBSET ParseJobs(nextTicket)]
    /\ result \in [Sources -> Sources \cup Errors] /\ hits \in [Sources -> 0 .. 3]
    /\ cost \in [Sources -> Sources \cup {"none"}] /\ losses \in 0 .. MaxLosses

(* extraction/index.ts:775-783: a late answer is never taken for the file  *)
(* in hand: what is stored of a file came from its own parse.              *)
ParseIsOwn == \A f \in Sources : result[f] \in {f} \cup Errors

(* extraction/index.ts:757-761, 1034-1040: what the end of a worker costs. *)
(* A file that parses is indexed by the end of the passes, but for one     *)
(* that ends of others hit in all three, or hit by an "error" event in the *)
(* first, or that was behind a slow one which such an end had taken from   *)
(* the loop: and of those there is one for each slow file, no more.        *)
PlainFilesAreIndexed ==
    pass = "end" => \A f \in Plain :
        \/ result[f] = f \/ hits[f] = 3 \/ (result[f] = "error" /\ hits[f] > 0)
        \/ result[f] = "timeout" /\ \E s \in Slow : cost[s] = f /\ hits[s] > 0

(* Each file is indexed, from its own text.                                *)
FilesAreIndexed == ParseIsOwn /\ PlainFilesAreIndexed

(* extraction/index.ts:757-761: crashes and hangs do not stop an index;    *)
(* only a worker that dies before its grammars are loaded does.            *)
IndexingEnded == pass = "end" \/ losses > 0
=============================================================================
