---------------------------- MODULE TopicRegistry ---------------------------
(***************************************************************************)
(* TopicStore of internal/heuristics: the topic centroids of one intent    *)
(* and repository, a Redis hash that every devrouter process reads         *)
(* (HGETALL) and then writes one field of (HSET).  Resolve is serial       *)
(* within a process (bucketLock) and races with the other processes.       *)
(* Embeddings are points on a line: similar enough means within Radius.    *)
(***************************************************************************)
EXTENDS Integers, FiniteSets

CONSTANTS
    Proc,            \* devrouter processes
    Point,           \* query embeddings
    Radius,          \* NewTopicCosineThreshold, as a distance
    MaxTopics,       \* MaxTopicsPerBucket
    NoTopic,         \* no such field in the hash
    IntentGlobal,    \* IntentGlobalTopic
    Faults,          \* Redis commands that may fail: "load", "persist"
    MaxQueries,      \* bound: queries resolved
    MaxClock         \* bound: distinct milliseconds

ASSUME ConstantsAssumption ==
    /\ Point \subseteq Nat /\ Radius \in Nat /\ MaxTopics \in Nat \ {0}
    /\ MaxQueries \in Nat /\ MaxClock \in Nat
    /\ IntentGlobal \notin Nat /\ Faults \subseteq {"load", "persist"}

(* Ids are "t-0", "t-1", ...; one past the cap, to see whether it is used. *)
Id == 0 .. MaxTopics
Topic == [centroid : Nat, samples : Nat \ {0}, seen : Nat]

ASSUME NoTopicAssumption == NoTopic \notin Topic

VARIABLES
    topics,   \* Redis: the hash, by id
    clock,    \* the time, in milliseconds
    job,      \* memory: what each process is about to write, or Idle
    failed,   \* memory: whether the process's HGETALL failed
    asked     \* history: queries answered with each id

vars == <<topics, clock, job, failed, asked>>

Idle == [pc |-> "idle", id |-> IntentGlobal, topic |-> NoTopic]

Distance(x, y) == IF x < y THEN y - x ELSE x - y

(* mergeCentroid: the running mean.                                        *)
Merge(old, q, n) == (old * n + q) \div (n + 1)

Known(found) == {id \in Id : found[id] # NoTopic}

(* The centroids of highest similarity; a Go map is read in any order.     *)
Nearest(found, q) ==
    {id \in Known(found) : \A other \in Known(found) :
        Distance(q, found[id].centroid) <= Distance(q, found[other].centroid)}

Oldest(found) ==
    {id \in Known(found) : \A other \in Known(found) : found[id].seen <= found[other].seen}

Full(found) == Cardinality(Known(found)) >= MaxTopics

(* nextTopicID: the lowest free index.                                     *)
NextId(found) ==
    CHOOSE i \in Id \ Known(found) : \A j \in Id \ Known(found) : i <= j

(* Mutant: the query that starts a topic is not counted.                   *)
StartedEmpty(q) == [centroid |-> q, samples |-> 0, seen |-> clock]

Started(q) == [centroid |-> q, samples |-> 1, seen |-> clock]

(* Mutant: the new sample is counted by the merge and by the caller.       *)
AbsorbedTwice(topic, q) ==
    [centroid |-> Merge(topic.centroid, q, topic.samples),
     samples |-> topic.samples + 2, seen |-> clock]

Absorbed(topic, q) ==
    [centroid |-> Merge(topic.centroid, q, topic.samples),
     samples |-> topic.samples + 1, seen |-> clock]

(* What Resolve makes of the hash it has read: the field it writes next.   *)
Writes(found, q) ==
    LET near == {id \in Nearest(found, q) : Distance(q, found[id].centroid) <= Radius} IN
    IF near # {} THEN
        {[pc |-> "persist", id |-> id, topic |-> Absorbed(found[id], q)] : id \in near}
    ELSE IF Full(found) THEN
        {[pc |-> "persist", id |-> id, topic |-> Started(q)] : id \in Oldest(found)}
    ELSE {[pc |-> "persist", id |-> NextId(found), topic |-> Started(q)]}

Asking == Cardinality({p \in Proc : job[p].pc = "persist"})
Total == LET Sum[n \in -1 .. MaxTopics] == IF n = -1 THEN 0 ELSE Sum[n - 1] + asked[n]
         IN Sum[MaxTopics]

(* Resolve: HGETALL.  loadBucket tests for an empty result before it tests *)
(* for an error, so a failed command reads as an empty hash.               *)
Load(p, q) ==
    /\ job[p].pc = "idle" /\ Total + Asking < MaxQueries
    /\ \E bad \in {FALSE} \cup (IF "load" \in Faults THEN {TRUE} ELSE {}) :
          /\ \E w \in Writes(IF bad THEN [id \in Id |-> NoTopic] ELSE topics, q) :
                job' = [job EXCEPT ![p] = w]
          /\ failed' = [failed EXCEPT ![p] = bad]
    /\ UNCHANGED <<topics, clock, asked>>

(* persistEntry: HSET.  Its error is logged, and the query is answered     *)
(* with the id all the same.                                               *)
Persist(p) ==
    /\ job[p].pc = "persist"
    /\ \/ topics' = [topics EXCEPT ![job[p].id] = job[p].topic]
       \/ "persist" \in Faults /\ UNCHANGED topics
    /\ asked' = [asked EXCEPT ![job[p].id] = asked[job[p].id] + 1]
    /\ job' = [job EXCEPT ![p] = Idle]
    /\ failed' = [failed EXCEPT ![p] = FALSE]
    /\ UNCHANGED clock

(* The process dies before it writes, and another one takes its place.     *)
Restart(p) ==
    /\ job[p].pc = "persist"
    /\ job' = [job EXCEPT ![p] = Idle]
    /\ failed' = [failed EXCEPT ![p] = FALSE]
    /\ UNCHANGED <<topics, clock, asked>>

Tick == clock < MaxClock /\ clock' = clock + 1 /\ UNCHANGED <<topics, job, failed, asked>>

Init ==
    /\ topics = [id \in Id |-> NoTopic]
    /\ clock = 0
    /\ job = [p \in Proc |-> Idle]
    /\ failed = [p \in Proc |-> FALSE]
    /\ asked = [id \in Id |-> 0]

Next ==
    \/ \E p \in Proc, q \in Point : Load(p, q)
    \/ \E p \in Proc : Persist(p) \/ Restart(p)
    \/ Tick

Spec == Init /\ [][Next]_vars

-----------------------------------------------------------------------------
(* Every field of the hash and every pending write is a topic.             *)
TypeOK ==
    /\ topics \in [Id -> Topic \cup {NoTopic}]
    /\ clock \in 0 .. MaxClock
    /\ job \in [Proc -> {Idle} \cup [pc : {"persist"}, id : Id, topic : Topic]]
    /\ failed \in [Proc -> BOOLEAN]
    /\ asked \in [Id -> Nat]

(* topics.go:25-31, "hard ceiling": processes that create topics from      *)
(* stale or missing reads never make more of them than the cap.            *)
CapHolds == topics[MaxTopics] = NoTopic

(* topics.go:44-49: a topic's sample count, which the tuning floor looks   *)
(* at, never exceeds the queries its id has answered, although counts are  *)
(* read, incremented and written back by processes that race.              *)
SamplesAreEarned ==
    \A id \in Known(topics) : topics[id].samples <= asked[id]

(* Both of them, of every process that answers a query of the bucket.      *)
TopicsAreSound == CapHolds /\ SamplesAreEarned

(* topics.go:137-139, "On any Redis failure ... returns (IntentGlobalTopic,*)
(* "") so the caller can transparently keep going".                        *)
FailureReadsGlobal == \A p \in Proc : failed[p] => job[p].id = IntentGlobal
=============================================================================
