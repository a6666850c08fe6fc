----------------------- MODULE MCRouterState_proofs -----------------------
(***************************************************************************)
(* Proofs about the topics of a bucket (TopicRegistry), for any processes, *)
(* embeddings, radius, cap and failing commands, and then about everything *)
(* that devrouter processes keep in one Redis together: a behaviour of     *)
(* MCRouterState is one of its part, and leaves the others where they      *)
(* start; only the count of mishaps is common to them.                     *)
(***************************************************************************)
EXTENDS MCRouterState, RouterState_proofs, FiniteSetTheorems, WellFoundedInduction, TLAPS

(* The hash as one HGETALL may find it.                                    *)
Found == [Id -> Topic \cup {NoTopic}]

(* What a process may be about to write.                                   *)
Pending == [pc : {"persist"}, id : Id, topic : Topic]

-----------------------------------------------------------------------------
(***************************************************************************)
(* What Resolve computes from the hash it has read.                        *)
(***************************************************************************)

LEMMA QuotientIsNatural ==
    ASSUME NEW a \in Nat, NEW b \in Nat \ {0}
    PROVE  a \div b \in Nat
OBVIOUS

(* The running mean of naturals is a natural.                              *)
LEMMA MergeIsNatural ==
    ASSUME NEW old \in Nat, NEW q \in Nat, NEW n \in Nat
    PROVE  Merge(old, q, n) \in Nat
<1>1. old * n + q \in Nat
  OBVIOUS
<1>2. n + 1 \in Nat \ {0}
  OBVIOUS
<1> QED
  BY <1>1, <1>2, QuotientIsNatural DEF Merge

LEMMA TopicsWritten ==
    ASSUME NEW q \in Point, clock \in Nat
    PROVE  /\ Started(q) \in Topic
           /\ Started(q).samples = 1
           /\ \A topic \in Topic : /\ Absorbed(topic, q) \in Topic
                                   /\ Absorbed(topic, q).samples = topic.samples + 1
<1>1. q \in Nat
  BY ConstantsAssumption
<1>2. ASSUME NEW topic \in Topic
      PROVE  Absorbed(topic, q) \in Topic /\ Absorbed(topic, q).samples = topic.samples + 1
  <2>1. topic.centroid \in Nat /\ topic.samples \in Nat \ {0}
    BY DEF Topic
  <2>2. Merge(topic.centroid, q, topic.samples) \in Nat
    BY <1>1, <2>1, MergeIsNatural
  <2>3. topic.samples + 1 \in Nat \ {0}
    BY <2>1
  <2> QED
    BY <2>2, <2>3 DEF Absorbed, Topic
<1>3. Started(q) \in Topic /\ Started(q).samples = 1
  BY <1>1 DEF Started, Topic
<1> QED
  BY <1>2, <1>3

(* Any set of naturals with a member has a least one.                      *)
LEMMA LeastNatural ==
    ASSUME NEW S, S \subseteq Nat, S # {}
    PROVE  \E m \in S : \A k \in S : m <= k
<1> DEFINE R == OpToRel(<, Nat)
<1>1. IsWellFoundedOn(R, Nat)
  BY NatLessThanWellFounded, Zenon
<1> HIDE DEF R
<1>2. PICK m \in S : \A k \in S : ~ (<<k, m>> \in R)
  BY <1>1, WFMin
<1>3. ASSUME NEW k \in S
      PROVE  m <= k
  <2>1. k \in Nat /\ m \in Nat
    OBVIOUS
  <2>2. k < m => <<k, m>> \in R
    BY <2>1 DEF R, OpToRel
  <2> QED
    BY <1>2, <2>1, <2>2
<1> QED
  BY <1>3

(* A registry that is not full and keeps below the cap has a free index    *)
(* below the cap, and nextTopicID finds it.                                *)
LEMMA NextIdBelowCap ==
    ASSUME NEW found \in Found, found[MaxTopics] = NoTopic, ~ Full(found)
    PROVE  NextId(found) \in 0 .. MaxTopics - 1
<1> DEFINE Below == 0 .. MaxTopics - 1
           Free == Id \ Known(found)
           Least(i) == \A j \in Free : i <= j
<1>1. MaxTopics \in Nat \ {0}
  BY ConstantsAssumption
<1>2. IsFiniteSet(Known(found)) /\ Cardinality(Known(found)) \in Nat
  <2>1. IsFiniteSet(Id)
    BY <1>1, FS_Interval DEF Id
  <2>2. Known(found) \in SUBSET Id
    BY DEF Known
  <2>3. IsFiniteSet(Known(found))
    BY <2>1, <2>2, FS_Subset
  <2> QED
    BY <2>3, FS_CardinalityType
<1>3. PICK free \in Below : free \in Free
  <2>1. IsFiniteSet(Below) /\ Cardinality(Below) = MaxTopics
    <3>1. 0 \in Int /\ MaxTopics - 1 \in Int /\ ~ (0 > MaxTopics - 1)
      BY <1>1
    <3>2. IsFiniteSet(Below) /\ Cardinality(Below) = (MaxTopics - 1) - 0 + 1
      BY <3>1, FS_Interval
    <3> QED
      BY <1>1, <3>2
  <2>2. ASSUME Below \in SUBSET Known(found)
        PROVE  FALSE
    <3>1. Cardinality(Below) <= Cardinality(Known(found))
      BY <1>2, <2>2, FS_Subset
    <3> QED
      BY <1>1, <1>2, <2>1, <3>1 DEF Full
  <2>3. Below \subseteq Id
    BY <1>1 DEF Id
  <2> QED
    BY <2>2, <2>3
<1>4. PICK m \in Free : Least(m)
  <2>1. Free \subseteq Nat
    BY <1>1 DEF Id
  <2> QED
    BY <1>3, <2>1, LeastNatural
<1>5. NextId(found) \in Free /\ Least(NextId(found))
  BY <1>4 DEF NextId
<1>6. NextId(found) <= free /\ NextId(found) \in Nat
  BY <1>1, <1>3, <1>5 DEF Id
<1> QED
  BY <1>1, <1>3, <1>6

(* The field Resolve writes: an id below the cap, and a topic whose count  *)
(* is one more than it was, or one.                                        *)
LEMMA WhatResolveWrites ==
    ASSUME NEW found \in Found, found[MaxTopics] = NoTopic, clock \in Nat,
           NEW q \in Point, NEW w \in Writes(found, q)
    PROVE  /\ w \in Pending
           /\ w.id \in 0 .. MaxTopics - 1
           /\ \/ w.topic.samples = 1
              \/ w.id \in Known(found) /\ w.topic.samples = found[w.id].samples + 1
<1> DEFINE near == {id \in Nearest(found, q) : Distance(q, found[id].centroid) <= Radius}
<1>1. MaxTopics \in Nat \ {0}
  BY ConstantsAssumption
<1>2. \A id \in Known(found) : id \in 0 .. MaxTopics - 1 /\ id \in Id /\ found[id] \in Topic
  BY <1>1 DEF Known, Found, Id
<1>3. CASE near # {}
  <2>1. PICK id \in near : w = [pc |-> "persist", id |-> id, topic |-> Absorbed(found[id], q)]
    BY <1>3 DEF Writes
  <2>2. id \in Known(found)
    BY DEF Nearest
  <2> QED
    BY <1>2, <2>1, <2>2, TopicsWritten DEF Pending
<1>4. CASE near = {} /\ Full(found)
  <2>1. PICK id \in Oldest(found) : w = [pc |-> "persist", id |-> id, topic |-> Started(q)]
    BY <1>4 DEF Writes
  <2>2. id \in Known(found)
    BY DEF Oldest
  <2> QED
    BY <1>2, <2>1, <2>2, TopicsWritten DEF Pending
<1>5. CASE near = {} /\ ~ Full(found)
  <2>1. w = [pc |-> "persist", id |-> NextId(found), topic |-> Started(q)]
    BY <1>5 DEF Writes
  <2>2. NextId(found) \in 0 .. MaxTopics - 1 /\ NextId(found) \in Id
    BY <1>1, <1>5, NextIdBelowCap DEF Id
  <2> QED
    BY <2>1, <2>2, TopicsWritten DEF Pending
<1> QED
  BY <1>3, <1>4, <1>5

-----------------------------------------------------------------------------
(***************************************************************************)
(* The inductive invariant: no process is about to write past the cap, nor *)
(* a count that exceeds what its query will have made true.                *)
(***************************************************************************)
PendingKept ==
    \A p \in Proc : job[p].pc = "persist" =>
        /\ job[p].id \in 0 .. MaxTopics - 1
        /\ job[p].topic.samples <= asked[job[p].id] + 1

RegistryInv == TypeOK /\ CapHolds /\ SamplesAreEarned /\ PendingKept

LEMMA RegistryInvStarts == Init => RegistryInv
<1> SUFFICES ASSUME Init PROVE RegistryInv
  OBVIOUS
<1>1. MaxTopics \in Id /\ 0 \in 0 .. MaxClock
  BY ConstantsAssumption DEF Id
<1>2. TypeOK
  BY <1>1 DEF Init, TypeOK
<1>3. CapHolds
  BY <1>1 DEF Init, CapHolds
<1>4. SamplesAreEarned
  BY DEF Init, SamplesAreEarned, Known
<1>5. PendingKept
  BY DEF Init, PendingKept, Idle
<1> QED
  BY <1>2, <1>3, <1>4, <1>5 DEF RegistryInv

(* A read, whether it fails or not, leads to a pending write that keeps    *)
(* the invariant.                                                          *)
LEMMA LoadKeeps ==
    ASSUME RegistryInv, NEW p \in Proc, NEW q \in Point, Load(p, q)
    PROVE  RegistryInv'
<1>1. TypeOK /\ CapHolds /\ SamplesAreEarned /\ PendingKept
  BY DEF RegistryInv
<1>2. clock \in Nat /\ MaxTopics \in Id /\ MaxTopics \in Nat \ {0}
  BY <1>1, ConstantsAssumption DEF TypeOK, Id
<1>3. PICK bad \in BOOLEAN :
        /\ \E w \in Writes(IF bad THEN [id \in Id |-> NoTopic] ELSE topics, q) :
              job' = [job EXCEPT ![p] = w]
        /\ failed' = [failed EXCEPT ![p] = bad]
  BY DEF Load
<1> DEFINE found == IF bad THEN [id \in Id |-> NoTopic] ELSE topics
<1>4. PICK w \in Writes(found, q) : job' = [job EXCEPT ![p] = w]
  BY <1>3
<1>5. UNCHANGED <<topics, clock, asked>>
  BY DEF Load
<1>6. found \in Found /\ found[MaxTopics] = NoTopic
  BY <1>1, <1>2 DEF Found, TypeOK, CapHolds
<1>7. \A id \in Known(found) : found[id].samples <= asked[id]
  BY <1>1 DEF SamplesAreEarned, Known
<1> HIDE DEF found
<1>8. /\ w \in Pending
      /\ w.id \in 0 .. MaxTopics - 1
      /\ \/ w.topic.samples = 1
         \/ w.id \in Known(found) /\ w.topic.samples = found[w.id].samples + 1
  BY <1>2, <1>6, WhatResolveWrites
<1>9. w.topic.samples <= asked[w.id] + 1
  <2>1. w.id \in Id /\ asked[w.id] \in Nat
    BY <1>1, <1>8 DEF Pending, TypeOK
  <2>2. CASE w.topic.samples = 1
    BY <2>1, <2>2
  <2>3. CASE w.id \in Known(found) /\ w.topic.samples = found[w.id].samples + 1
    <3>1. found[w.id] \in Topic
      BY <1>6, <2>3 DEF Known, Found
    <3>2. found[w.id].samples \in Nat
      BY <3>1 DEF Topic
    <3> QED
      BY <1>7, <2>1, <2>3, <3>2
  <2> QED
    BY <1>8, <2>2, <2>3
<1>10. TypeOK'
  BY <1>1, <1>3, <1>4, <1>5, <1>8 DEF TypeOK, Pending
<1>11. CapHolds' /\ SamplesAreEarned'
  BY <1>1, <1>5 DEF CapHolds, SamplesAreEarned, Known
<1>12. PendingKept'
  BY <1>1, <1>4, <1>5, <1>8, <1>9 DEF PendingKept, TypeOK
<1> QED
  BY <1>10, <1>11, <1>12 DEF RegistryInv

(* The query that is answered makes the count it writes true.              *)
LEMMA PersistKeeps ==
    ASSUME RegistryInv, NEW p \in Proc, Persist(p)
    PROVE  RegistryInv'
<1> DEFINE i == job[p].id
<1>1. TypeOK /\ CapHolds /\ SamplesAreEarned /\ PendingKept
  BY DEF RegistryInv
<1>2. MaxTopics \in Nat \ {0} /\ Id = 0 .. MaxTopics
  BY ConstantsAssumption DEF Id
<1>3. job[p] \in Pending
  BY <1>1 DEF Persist, TypeOK, Pending, Idle
<1>4. /\ i \in Id /\ i \in 0 .. MaxTopics - 1
      /\ job[p].topic \in Topic /\ job[p].topic.samples \in Nat
      /\ job[p].topic.samples <= asked[i] + 1
  BY <1>1, <1>3 DEF Pending, PendingKept, Topic, Persist
<1>5. asked \in [Id -> Nat] /\ topics \in Found
  BY <1>1 DEF TypeOK, Found
<1>6. /\ topics' = [topics EXCEPT ![i] = job[p].topic] \/ topics' = topics
      /\ asked' = [asked EXCEPT ![i] = asked[i] + 1]
      /\ job' = [job EXCEPT ![p] = Idle]
      /\ failed' = [failed EXCEPT ![p] = FALSE]
      /\ clock' = clock
  BY DEF Persist
<1> HIDE DEF i
<1>7. asked' \in [Id -> Nat] /\ \A id \in Id : asked[id] <= asked'[id]
  BY <1>4, <1>5, <1>6
<1>8. asked'[i] = asked[i] + 1
  BY <1>4, <1>5, <1>6
<1>9. TypeOK'
  <2>1. topics' \in [Id -> Topic \cup {NoTopic}]
    BY <1>4, <1>5, <1>6 DEF Found
  <2> QED
    BY <1>1, <1>6, <1>7, <2>1 DEF TypeOK
<1>10. CapHolds'
  BY <1>1, <1>2, <1>4, <1>5, <1>6 DEF CapHolds, Found
<1>11. SamplesAreEarned'
  <2> SUFFICES ASSUME NEW id \in Id, topics'[id] # NoTopic
               PROVE  topics'[id].samples <= asked'[id]
    BY DEF SamplesAreEarned, Known
  <2>1. CASE topics'[id] = topics[id]
    <3>1. topics[id].samples <= asked[id]
      BY <1>1, <2>1 DEF SamplesAreEarned, Known
    <3>2. topics[id] \in Topic
      BY <1>5, <2>1 DEF Found
    <3>3. topics[id].samples \in Nat
      BY <3>2 DEF Topic
    <3> QED
      BY <1>5, <1>7, <2>1, <3>1, <3>3
  <2>2. CASE id = i /\ topics'[id] = job[p].topic
    BY <1>4, <1>8, <2>2
  <2>3. topics'[id] = topics[id] \/ (id = i /\ topics'[id] = job[p].topic)
    BY <1>4, <1>5, <1>6 DEF Found
  <2> QED
    BY <2>1, <2>2, <2>3
<1>12. PendingKept'
  <2> SUFFICES ASSUME NEW r \in Proc, job'[r].pc = "persist"
               PROVE  /\ job'[r].id \in 0 .. MaxTopics - 1
                      /\ job'[r].topic.samples <= asked'[job'[r].id] + 1
    BY DEF PendingKept
  <2>1. job'[r] = job[r]
    BY <1>1, <1>6 DEF TypeOK, Idle
  <2>2. job[r] \in Pending
    BY <1>1, <2>1 DEF TypeOK, Pending, Idle
  <2>3. job[r].id \in Id /\ job[r].topic.samples \in Nat
    BY <2>2 DEF Pending, Topic
  <2>4. job[r].id \in 0 .. MaxTopics - 1 /\ job[r].topic.samples <= asked[job[r].id] + 1
    BY <1>1, <2>1 DEF PendingKept
  <2> QED
    BY <1>5, <1>7, <2>1, <2>3, <2>4
<1> QED
  BY <1>9, <1>10, <1>11, <1>12 DEF RegistryInv

LEMMA RestartKeeps ==
    ASSUME RegistryInv, NEW p \in Proc, Restart(p)
    PROVE  RegistryInv'
<1>1. TypeOK'
  BY DEF RegistryInv, TypeOK, Restart
<1>2. CapHolds' /\ SamplesAreEarned'
  BY DEF RegistryInv, CapHolds, SamplesAreEarned, Known, Restart
<1>3. PendingKept'
  BY DEF RegistryInv, PendingKept, TypeOK, Restart, Idle
<1> QED
  BY <1>1, <1>2, <1>3 DEF RegistryInv

LEMMA TickKeeps ==
    ASSUME RegistryInv, Tick
    PROVE  RegistryInv'
<1>1. TypeOK'
  BY ConstantsAssumption DEF RegistryInv, TypeOK, Tick
<1>2. CapHolds' /\ SamplesAreEarned' /\ PendingKept'
  BY DEF RegistryInv, CapHolds, SamplesAreEarned, Known, PendingKept, Tick
<1> QED
  BY <1>1, <1>2 DEF RegistryInv

LEMMA RegistryInvHolds == Spec => []RegistryInv
<1>1. RegistryInv /\ [Next]_vars => RegistryInv'
  <2> SUFFICES ASSUME RegistryInv, [Next]_vars PROVE RegistryInv'
    OBVIOUS
  <2>1. CASE UNCHANGED vars
    BY <2>1 DEF vars, RegistryInv, TypeOK, CapHolds, SamplesAreEarned, Known, PendingKept
  <2>2. CASE Next
    BY <2>2, LoadKeeps, PersistKeeps, RestartKeeps, TickKeeps DEF Next
  <2> QED
    BY <2>1, <2>2
<1> QED
  BY <1>1, RegistryInvStarts, PTL DEF Spec

-----------------------------------------------------------------------------
(* Every field of the hash and every pending write is a topic, whatever    *)
(* Resolve reads and whichever process writes.                             *)
THEOREM RegistryTypeCorrect == Spec => []TypeOK
<1>1. RegistryInv => TypeOK
  BY DEF RegistryInv
<1> QED
  BY <1>1, RegistryInvHolds, PTL

(* topics.go:25-31: the number of topics never passes the cap, however     *)
(* many processes create and evict topics from stale or failed reads.      *)
THEOREM TopicsStayBelowCap == Spec => []CapHolds
<1>1. RegistryInv => CapHolds
  BY DEF RegistryInv
<1> QED
  BY <1>1, RegistryInvHolds, PTL

(* topics.go:44-49: lost updates lower a sample count, they never raise it *)
(* above the number of queries the topic's id has answered.                *)
THEOREM SamplesComeFromQueries == Spec => []SamplesAreEarned
<1>1. RegistryInv => SamplesAreEarned
  BY DEF RegistryInv
<1> QED
  BY <1>1, RegistryInvHolds, PTL

(* Both of them together, as the run checks them: a topic that is there is *)
(* within the cap, and one that is tuned was asked for.                    *)
THEOREM TopicsStaySound == Spec => []TopicsAreSound
<1>1. RegistryInv => TopicsAreSound
  BY DEF RegistryInv, TopicsAreSound
<1> QED
  BY <1>1, RegistryInvHolds, PTL

-----------------------------------------------------------------------------
(* A step is of the part, and leaves the variables of the others.          *)
LEMMA StepsLeaveTheOthers ==
    ASSUME [NextAll]_all
    PROVE  /\ part' = part /\ [Next]_vars
           /\ part = "memory" => [StepMemory]_memoryVars
           /\ ~(part = "memory") => UNCHANGED mv
           /\ part = "feedback" => [StepFeedback]_feedbackVars
           /\ ~(part = "feedback") => UNCHANGED fv
           /\ part = "anchors" => [StepAnchors]_anchorVars
           /\ ~(part = "anchors") => UNCHANGED av
<1>1. /\ UNCHANGED <<mv, mishaps>> => UNCHANGED memoryVars
      /\ UNCHANGED <<fv, mishaps>> => UNCHANGED feedbackVars
      /\ UNCHANGED <<av, mishaps>> => UNCHANGED anchorVars
  BY DEF mv, fv, av, memoryVars, store, past, feedbackVars, memory, learned, logs, anchorVars, counters
<1> QED
  BY <1>1 DEF NextAll, all

LEMMA MemoriesRest == ASSUME MemoriesAreKept, UNCHANGED mv PROVE MemoriesAreKept'
<1>1. UNCHANGED <<memories, decisions, overlay, flagged, schema, index, task, saved, overtaken, doomed,
                  unread, revived, notice, complaints, cut>>
  BY DEF mv
<1>2. MemoryTypeOK' /\ AgentMemoriesSurvive'
  BY <1>1 DEF MemoriesAreKept, MemoryTypeOK, AgentMemoriesSurvive
<1>3. SupersededStaysSo' /\ ConflictsAreNoticed'
  BY <1>1 DEF MemoriesAreKept, SupersededStaysSo, ConflictsAreNoticed, Listed
<1>4. IndexComesBack' /\ OverlayAddsUp'
  BY <1>1 DEF MemoriesAreKept, IndexComesBack, OverlayAddsUp, Exists, About
<1>5. GrudgesAreBounded'
  BY <1>1 DEF MemoriesAreKept, GrudgesAreBounded, Recalled
<1> QED
  BY <1>2, <1>3, <1>4, <1>5 DEF MemoriesAreKept

LEMMA FeedbackRests == ASSUME RewardsFindTheirQuery, UNCHANGED fv PROVE RewardsFindTheirQuery'
BY DEF fv, RewardsFindTheirQuery, FeedbackTypeOK, RewardsReachTheirBucket, RepeatsGoBack,
       SamplesAreOfWhatWasServed, FeedbackStaysHome, BreadthsAreBounded, Answered

LEMMA AnchorsRest == ASSUME AnchorsAreEarned, UNCHANGED av PROVE AnchorsAreEarned'
BY DEF av, AnchorsAreEarned, AnchorTypeOK, SuccessFollowsFiring, FiringsWereGiven, AnchorsExist,
       DiscoveriesAreNew, CreditIsForWhatWasGiven

LEMMA AllStart == InitAll => Init /\ MemoriesAreKept /\ RewardsFindTheirQuery /\ AnchorsAreEarned
<1>1. InitMemory => MemoriesAreKept
  <2> SUFFICES ASSUME InitMemory PROVE MemoriesAreKept
    OBVIOUS
  <2>1. MemoryInv
    BY MemoryInvStarts
  <2> QED
    BY <2>1, MemoryInvSuffices
<1>2. InitFeedback => RewardsFindTheirQuery
  BY FeedbackInvStarts, FeedbackInvSuffices
<1>3. InitAnchors => AnchorsAreEarned
  BY AnchorInvStarts, AnchorInvSuffices
<1> QED
  BY <1>1, <1>2, <1>3 DEF InitAll

(* What processes keep in Redis is sound: topics, memories, rewards and    *)
(* entry points together, for any processes, keys, bounds and failures     *)
(* (internal/heuristics, internal/memory, internal/anchorlearn).           *)
THEOREM StateStaysSound ==
    SpecAll => [](TypeOK /\ TopicsAreSound /\ MemoriesAreKept /\ RewardsFindTheirQuery /\ AnchorsAreEarned)
<1>1. SpecAll => [](TypeOK /\ TopicsAreSound)
  <2>1. SpecAll => Spec
    <3>1. [NextAll]_all => [Next]_vars
      BY StepsLeaveTheOthers
    <3> QED
      BY <3>1, AllStart, PTL DEF Spec, SpecAll
  <2> QED
    BY <2>1, RegistryTypeCorrect, TopicsStaySound, PTL
<1>2. SpecAll => []MemoriesAreKept
  <2>1. SpecAll /\ part = "memory" => SpecMemory
    <3>1. part = "memory" /\ [NextAll]_all => (part = "memory")' /\ [StepMemory]_memoryVars
      BY StepsLeaveTheOthers
    <3>2. InitAll => InitMemory
      BY DEF InitAll
    <3> QED
      BY <3>1, <3>2, PTL DEF SpecMemory, SpecAll
  <2>2. SpecAll /\ ~(part = "memory") => []MemoriesAreKept
    <3>1. ~(part = "memory") /\ MemoriesAreKept /\ [NextAll]_all => ~(part = "memory")' /\ MemoriesAreKept'
      BY StepsLeaveTheOthers, MemoriesRest
    <3> QED
      BY <3>1, AllStart, PTL DEF SpecAll
  <2> QED
    BY <2>1, <2>2, MemoriesStayKept, PTL
<1>3. SpecAll => []RewardsFindTheirQuery
  <2>1. SpecAll /\ part = "feedback" => SpecFeedback
    <3>1. part = "feedback" /\ [NextAll]_all => (part = "feedback")' /\ [StepFeedback]_feedbackVars
      BY StepsLeaveTheOthers
    <3>2. InitAll => InitFeedback
      BY DEF InitAll
    <3> QED
      BY <3>1, <3>2, PTL DEF SpecFeedback, SpecAll
  <2>2. SpecAll /\ ~(part = "feedback") => []RewardsFindTheirQuery
    <3>1. ~(part = "feedback") /\ RewardsFindTheirQuery /\ [NextAll]_all
              => ~(part = "feedback")' /\ RewardsFindTheirQuery'
      BY StepsLeaveTheOthers, FeedbackRests
    <3> QED
      BY <3>1, AllStart, PTL DEF SpecAll
  <2> QED
    BY <2>1, <2>2, RewardsKeepFinding, PTL
<1>4. SpecAll => []AnchorsAreEarned
  <2>1. SpecAll /\ part = "anchors" => SpecAnchors
    <3>1. part = "anchors" /\ [NextAll]_all => (part = "anchors")' /\ [StepAnchors]_anchorVars
      BY StepsLeaveTheOthers
    <3>2. InitAll => InitAnchors
      BY DEF InitAll
    <3> QED
      BY <3>1, <3>2, PTL DEF SpecAnchors, SpecAll
  <2>2. SpecAll /\ ~(part = "anchors") => []AnchorsAreEarned
    <3>1. ~(part = "anchors") /\ AnchorsAreEarned /\ [NextAll]_all
              => ~(part = "anchors")' /\ AnchorsAreEarned'
      BY StepsLeaveTheOthers, AnchorsRest
    <3> QED
      BY <3>1, AllStart, PTL DEF SpecAll
  <2> QED
    BY <2>1, <2>2, AnchorsStayEarned, PTL
<1> QED
  BY <1>1, <1>2, <1>3, <1>4, PTL
=============================================================================
