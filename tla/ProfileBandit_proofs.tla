------------------------ MODULE ProfileBandit_proofs ------------------------
(***************************************************************************)
(* Proofs about ProfileBandit, for any number of processes, buckets and    *)
(* profiles, any thresholds and any faults unless a theorem says otherwise.*)
(***************************************************************************)
EXTENDS ProfileBandit, TLAPS

(* The reward arithmetic stays among the integers.                         *)
LEMMA WeightedInt ==
    ASSUME NEW s \in Signal
    PROVE  Adjusted(s) \in Int /\ Weighted(s) \in Int
<1>1. s \in [raw : Int, mean : Int, weight : Nat]
  BY ConstantsAssumption
<1>2. Adjusted(s) \in Int
  BY <1>1 DEF Adjusted
<1>3. s.weight \in Int
  BY <1>1
<1> QED
  BY <1>2, <1>3 DEF Weighted

(* Bookkeeping turns an experiment into an experiment on the same arms.    *)
LEMMA CreditedIsCandidate ==
    ASSUME NEW c \in Candidate, NEW s \in Signal, NEW q \in Profile
    PROVE  /\ Credited(c, q, s) \in Candidate
           /\ Credited(c, q, s).profile = c.profile
           /\ Credited(c, q, s).base = c.base
<1>1. Adjusted(s) \in Int /\ Weighted(s) \in Int
  BY WeightedInt
<1>2. CASE q = c.profile
  <2>1. Credited(c, q, s) = CreditCandidate(c, s)
    BY <1>2 DEF Credited
  <2> DEFINE n == c.candN + 1
             sum == c.candSum + Weighted(s)
             bad == IF Adjusted(s) < RollbackThreshold THEN c.consecBad + 1 ELSE 0
  <2>2. n \in Nat /\ sum \in Int /\ bad \in Nat
    BY <1>1 DEF Candidate
  <2> HIDE DEF n, sum, bad
  <2> DEFINE d == [c EXCEPT !.candN = n, !.candSum = sum, !.consecBad = bad]
  <2>3. CreditCandidate(c, s) = d
    BY DEF CreditCandidate, n, sum, bad
  <2>4. d \in Candidate
    BY <2>2 DEF Candidate
  <2>5. d.profile = c.profile /\ d.base = c.base
    BY DEF Candidate
  <2> HIDE DEF d
  <2> QED
    BY <2>1, <2>3, <2>4, <2>5
<1>3. CASE q # c.profile /\ q = c.base
  <2>1. Credited(c, q, s) = CreditBase(c, s)
    BY <1>3 DEF Credited
  <2> DEFINE n == c.baseN + 1
             sum == c.baseSum + Weighted(s)
  <2>2. n \in Nat /\ sum \in Int
    BY <1>1 DEF Candidate
  <2>3. CreditBase(c, s) = [c EXCEPT !.baseN = n, !.baseSum = sum]
    BY DEF CreditBase
  <2> HIDE DEF n, sum
  <2> QED
    BY <2>1, <2>2, <2>3 DEF Candidate
<1>4. CASE q # c.profile /\ q # c.base
  BY <1>4 DEF Credited
<1> QED
  BY <1>2, <1>3, <1>4

(* An experiment whose promotion was not confirmed is marked, nothing else. *)
LEMMA UnconfirmedIsCandidate ==
    ASSUME NEW c \in Candidate \cup {NoCandidate}
    PROVE  /\ Unconfirmed(c) \in Candidate \cup {NoCandidate}
           /\ (Unconfirmed(c) = NoCandidate) <=> (c = NoCandidate)
           /\ c # NoCandidate =>
                 LET d == Unconfirmed(c) IN
                 /\ d.profile = c.profile /\ d.base = c.base /\ d.unsaved
                 /\ d.consecBad = c.consecBad
<1>1. CASE c = NoCandidate
  BY <1>1 DEF Unconfirmed
<1>2. CASE c # NoCandidate
  <2> DEFINE d == [c EXCEPT !.unsaved = TRUE]
  <2>1. c \in Candidate /\ Unconfirmed(c) = d
    BY <1>2 DEF Unconfirmed
  <2>2. /\ d \in Candidate
        /\ d.profile = c.profile /\ d.base = c.base /\ d.unsaved
        /\ d.consecBad = c.consecBad
    BY <2>1 DEF Candidate
  <2> HIDE DEF d
  <2> QED
    BY <1>2, <2>1, <2>2, ConstantsAssumption
<1> QED
  BY <1>1, <1>2

(* A new experiment has no samples; its candidate is a step from the base. *)
LEMMA SelectOutcomesType ==
    ASSUME TypeOK, NEW p \in Proc, NEW b \in Bucket, NEW base \in Profile,
           NEW hot \in BOOLEAN, NEW o \in SelectOutcomes(p, b, base, hot)
    PROVE  /\ o.profile \in Profile
           /\ o.slot \in Candidate \cup {NoCandidate}
           /\ \/ o.slot = active[p][b]
              \/ /\ active[p][b] = NoCandidate
                 /\ \E q \in Perturb[base] \ {base} : o.slot = Fresh(q, base)
<1>1. active[p][b] \in Candidate \cup {NoCandidate}
  BY DEF TypeOK
<1>2. CASE o = [profile |-> base, slot |-> active[p][b]]
  BY <1>1, <1>2
<1>3. CASE /\ active[p][b] # NoCandidate
           /\ o = [profile |-> active[p][b].profile, slot |-> active[p][b]]
  BY <1>1, <1>3 DEF Candidate
<1>4. CASE /\ active[p][b] = NoCandidate
           /\ \E q \in Perturb[base] \ {base} :
                 o = [profile |-> q, slot |-> Fresh(q, base)]
  <2>1. PICK q \in Perturb[base] \ {base} : o = [profile |-> q, slot |-> Fresh(q, base)]
    BY <1>4
  <2>2. q \in Profile
    BY ConstantsAssumption
  <2>3. Fresh(q, base) \in Candidate
    BY <2>2 DEF Fresh, Candidate
  <2> QED
    BY <1>4, <2>1, <2>2, <2>3
<1> QED
  BY <1>2, <1>3, <1>4 DEF SelectOutcomes

(* The constants a thread works with.                                      *)
LEMMA CompiledType == ASSUME NEW t \in Thread PROVE Compiled[t] \in Profile
BY ConstantsAssumption

LEMMA IdleIsJob == Idle \in Job /\ WarmUp \in Job
BY DEF Idle, WarmUp, Job, Bucket, ReadPC

(* The ways a step moves its thread keep the jobs well formed.             *)
LEMMA StoreJob ==
    ASSUME JobOK, NEW t \in Thread, NEW j \in Job,
           j.pc \in Carrying => j.carry \in Profile,
           j.op = "query" => t \in Proc,
           job' = [job EXCEPT ![t] = j]
    PROVE  JobOK'
BY ConstantsAssumption DEF JobOK

LEMMA DoneJob == ASSUME JobOK, NEW t \in Thread, Done(t) PROVE JobOK'
BY IdleIsJob, StoreJob DEF Done, Idle, Carrying

LEMMA QueryIsServedByProc ==
    ASSUME JobOK, NEW t \in Thread, job[t].op = "query" PROVE t \in Proc
BY DEF JobOK, Thread

LEMMA GotoJob ==
    ASSUME JobOK, NEW t \in Thread, NEW label \in ReadPC \cup WritePC, Goto(t, label),
           label \in Carrying => job[t].carry \in Profile
    PROVE  JobOK'
BY DEF JobOK, Goto, Job

LEMMA GotoWithJob ==
    ASSUME JobOK, NEW t \in Thread, NEW label \in ReadPC \cup WritePC,
           NEW q \in Profile, GotoWith(t, label, q)
    PROVE  JobOK'
<1> DEFINE j == [job[t] EXCEPT !.pc = label, !.carry = q]
<1>1. j \in Job /\ j.pc = label /\ j.carry = q /\ j.op = job[t].op
  BY DEF JobOK, Job
<1>2. job' = [job EXCEPT ![t] = j]
  BY DEF GotoWith, JobOK
<1> HIDE DEF j
<1> QED
  BY <1>1, <1>2, StoreJob, QueryIsServedByProc

(* The end of a profile read, however it ends.                             *)
LEMMA ReadDoneType ==
    ASSUME TypeOK, NEW t \in Thread, NEW base \in Profile, ReadDone(t, base)
    PROVE  /\ served' \subseteq Bucket \X Profile
           /\ active' \in [Proc -> [Bucket -> Candidate \cup {NoCandidate}]]
           /\ JobOK'
<1>1. CASE job[t].op = "query"
  <2>1. t \in Proc
    BY <1>1, QueryIsServedByProc DEF TypeOK
  <2>2. job[t].bucket \in Bucket /\ job[t].hot \in BOOLEAN
    BY DEF TypeOK, JobOK, Job
  <2>3. PICK o \in SelectOutcomes(t, job[t].bucket, base, job[t].hot) :
            /\ Serve(t, o.profile)
            /\ active' = [active EXCEPT ![t][job[t].bucket] = o.slot]
    BY <1>1 DEF ReadDone
  <2>4. o.profile \in Profile /\ o.slot \in Candidate \cup {NoCandidate}
    BY <2>1, <2>2, SelectOutcomesType
  <2> QED
    BY <2>1, <2>2, <2>3, <2>4, DoneJob DEF TypeOK, Serve
<1>2. CASE job[t].op \in {"warm", "stats"}
  BY <1>2, DoneJob DEF ReadDone, TypeOK
<1> QED
  BY <1>1, <1>2 DEF ReadDone

LEMMA ReadFailedType ==
    ASSUME TypeOK, NEW t \in Thread, ReadFailed(t)
    PROVE  /\ served' \subseteq Bucket \X Profile
           /\ active' \in [Proc -> [Bucket -> Candidate \cup {NoCandidate}]]
           /\ JobOK'
<1>1. job[t].bucket \in Bucket
  BY DEF TypeOK, JobOK, Job
<1> QED
  BY <1>1, CompiledType, DoneJob DEF ReadFailed, Serve, TypeOK

LEMMA SeededType ==
    ASSUME TypeOK, NEW t \in Thread, Seeded(t), job[t].carry \in Profile
    PROVE  /\ served' \subseteq Bucket \X Profile
           /\ active' \in [Proc -> [Bucket -> Candidate \cup {NoCandidate}]]
           /\ JobOK'
<1>1. CASE Surface(job[t]) = Global
  BY <1>1, ReadDoneType DEF Seeded
<1>2. CASE Surface(job[t]) # Global
  <2>1. Goto(t, "fill") /\ UNCHANGED <<served, active>>
    BY <1>2 DEF Seeded
  <2> QED
    BY <2>1, GotoJob DEF TypeOK, ReadPC
<1> QED
  BY <1>1, <1>2

LEMMA VerdictType ==
    ASSUME NEW c \in Candidate, NEW q \in Profile
    PROVE  /\ Verdict(c, q) \in {"idle", "rollbackGet", "promote", "log"}
           /\ VerdictCarry(c, q) \in Profile \cup {NoProfile}
           /\ Verdict(c, q) \in {"promote", "log"} => VerdictCarry(c, q) \in Profile
<1>1. Verdict(c, q) \in {"idle", "rollbackGet", "promote", "log"}
  BY DEF Verdict
<1> QED
  BY <1>1 DEF VerdictCarry, Candidate

LEMMA StaysType ==
    ASSUME TypeOK, NEW p \in Proc, Stays(p)
    PROVE  active' \in [Proc -> [Bucket -> Candidate \cup {NoCandidate}]] /\ JobOK'
<1> DEFINE b == job[p].bucket
<1>0. p \in Thread /\ b \in Bucket /\ Done(p)
  BY DEF TypeOK, JobOK, Job, Thread, Stays
<1>1. JobOK'
  BY <1>0, DoneJob DEF TypeOK
<1>2. Unconfirmed(active[p][b]) \in Candidate \cup {NoCandidate}
  BY <1>0, UnconfirmedIsCandidate DEF TypeOK
<1>3. active' = [active EXCEPT ![p][b] = Unconfirmed(active[p][b])]
  BY <1>0 DEF Stays, TypeOK
<1> QED
  BY <1>0, <1>1, <1>2, <1>3 DEF TypeOK

LEMMA LoadDefaultType ==
    ASSUME TypeOK, NEW p \in Proc, NEW label \in {"rollbackSet", "resetSet"},
           LoadDefault(p, label)
    PROVE  JobOK'
<1>1. p \in Thread
  BY DEF Thread
<1>2. PICK q \in Profile : GotoWith(p, label, q)
  BY <1>1, CompiledType DEF LoadDefault, TypeOK
<1> QED
  BY <1>1, <1>2, GotoWithJob DEF TypeOK, WritePC

LEMMA FeedbackType ==
    ASSUME TypeOK, NEW p \in Proc, NEW b \in Bucket, NEW q \in Profile, NEW s \in Signal,
           Feedback(p, b, q, s)
    PROVE  TypeOK'
<1> DEFINE c == Credited(active[p][b], q, s)
<1>1. active[p][b] \in Candidate
  BY DEF TypeOK, Feedback
<1>2. c \in Candidate
  BY <1>1, CreditedIsCandidate
<1>3. active' = [active EXCEPT ![p][b] = c]
  BY DEF Feedback
<1>4. job' = [job EXCEPT ![p] =
                 IF Verdict(c, q) = "idle" THEN Idle
                 ELSE [pc |-> Verdict(c, q), op |-> "none", bucket |-> b,
                       hot |-> FALSE, carry |-> VerdictCarry(c, q), raw |-> s.raw]]
  BY DEF Feedback
<1> HIDE DEF c
<1>5. JobOK'
  <2>1. CASE Verdict(c, q) = "idle"
    <3>1. Done(p)
      BY <1>4, <2>1 DEF Done
    <3> QED
      BY <3>1, DoneJob DEF TypeOK, Thread
  <2>2. CASE Verdict(c, q) # "idle"
    <3> DEFINE j == [pc |-> Verdict(c, q), op |-> "none", bucket |-> b,
                     hot |-> FALSE, carry |-> VerdictCarry(c, q), raw |-> s.raw]
    <3>1. s.raw \in Int
      BY ConstantsAssumption
    <3>2. /\ j \in Job /\ j.op = "none"
          /\ j.pc \in Carrying => j.carry \in Profile
      BY <1>2, <2>2, <3>1, VerdictType DEF Job, WritePC, Carrying
    <3>3. job' = [job EXCEPT ![p] = j]
      BY <1>4, <2>2
    <3> HIDE DEF j
    <3> QED
      BY <3>2, <3>3, StoreJob DEF TypeOK, Thread
  <2> QED
    BY <2>1, <2>2
<1> QED
  BY <1>2, <1>3, <1>5 DEF TypeOK, Feedback, redis

(* Every process, key and slot of a running system is well formed: the     *)
(* type invariant of ProfileBandit (bandit.go:53-64, store.go:73-129).     *)
THEOREM TypeCorrect == Spec => []TypeOK
<1>1. Init => TypeOK
  <2> SUFFICES ASSUME Init PROVE TypeOK
    OBVIOUS
  <2>1. JobOK
    <3>1. job \in [Thread -> Job]
      BY IdleIsJob DEF Init
    <3>2. ASSUME NEW t \in Thread
          PROVE  job[t].pc \notin Carrying /\ job[t].op # "query"
      BY DEF Init, Idle, WarmUp, Carrying
    <3> QED
      BY <3>1, <3>2 DEF JobOK, Thread
  <2> QED
    BY <2>1, ConstantsAssumption DEF Init, TypeOK
<1>2. TypeOK /\ [Next]_vars => TypeOK'
  <2> SUFFICES ASSUME TypeOK, [Next]_vars PROVE TypeOK'
    OBVIOUS
  <2>1. ASSUME NEW p \in Proc, QueryGlobal(p) PROVE TypeOK'
    <3> DEFINE j == [job[p] EXCEPT !.pc = "get", !.op = "query"]
    <3>1. j \in Job /\ j.pc \notin Carrying
      <4>1. job[p] \in Job
        BY DEF TypeOK, JobOK, Thread
      <4> QED
        BY <4>1 DEF Job, ReadPC, Carrying
    <3>2. job' = [job EXCEPT ![p] = j]
      BY <2>1 DEF QueryGlobal, TypeOK, JobOK, Thread
    <3> HIDE DEF j
    <3> QED
      BY <2>1, <3>1, <3>2, StoreJob DEF QueryGlobal, TypeOK, redis, Thread
  <2>2. ASSUME NEW p \in Proc, NEW b \in Topic, QueryTopic(p, b) PROVE TypeOK'
    <3>1. samples' \in [Topic -> 0 .. MaxSamples]
      BY <2>2, ConstantsAssumption DEF QueryTopic, TypeOK
    <3> DEFINE j == [job[p] EXCEPT !.pc = "samples", !.op = "query", !.bucket = b]
    <3>2. j \in Job /\ j.pc \notin Carrying
      <4>1. job[p] \in Job
        BY DEF TypeOK, JobOK, Thread
      <4> QED
        BY <4>1 DEF Job, ReadPC, Carrying, Bucket
    <3>3. job' = [job EXCEPT ![p] = j]
      BY <2>2 DEF QueryTopic, TypeOK, JobOK, Thread
    <3> HIDE DEF j
    <3>4. JobOK'
      BY <3>2, <3>3, StoreJob DEF TypeOK, Thread
    <3> QED
      BY <2>2, <3>1, <3>4 DEF QueryTopic, TypeOK
  <2>3. ASSUME NEW p \in Proc, NEW b \in Bucket, NEW q \in Profile, NEW s \in Signal,
               Feedback(p, b, q, s)
        PROVE  TypeOK'
    BY <2>3, FeedbackType
  <2>4. ASSUME NEW p \in Proc, Reset(p) PROVE TypeOK'
    <3>1. JobOK'
      BY <2>4, GotoJob DEF Reset, TypeOK, Thread, WritePC, Carrying
    <3> QED
      BY <2>4, <3>1 DEF Reset, TypeOK, redis
  <2>5. ASSUME NEW p \in Proc, ReadSamples(p) PROVE TypeOK'
    <3>1. PICK n : job' = [job EXCEPT ![p].pc = "get", ![p].hot = n >= SampleFloor]
      BY <2>5 DEF ReadSamples
    <3> DEFINE h == n >= SampleFloor
               j == [job[p] EXCEPT !.pc = "get", !.hot = h]
    <3>2. job' = [job EXCEPT ![p] = j]
      BY <3>1 DEF TypeOK, JobOK, Thread
    <3>3. h \in BOOLEAN
      OBVIOUS
    <3> HIDE DEF h
    <3>4. j \in Job /\ j.pc \notin Carrying
      <4>1. job[p] \in Job
        BY DEF TypeOK, JobOK, Thread
      <4> QED
        BY <3>3, <4>1 DEF Job, ReadPC, Carrying
    <3> HIDE DEF j
    <3>5. JobOK'
      BY <3>2, <3>4, StoreJob DEF TypeOK, Thread
    <3> QED
      BY <2>5, <3>5 DEF ReadSamples, TypeOK, redis
  <2>6. ASSUME NEW p \in Proc, WriteStep(p) PROVE TypeOK'
    <3> USE DEF Thread
    <3> DEFINE j == job[p]
    <3>0. j.bucket \in Bucket /\ (j.pc \in Carrying => j.carry \in Profile)
      BY DEF TypeOK, JobOK, Job
    <3>1. CASE Promote(p)
      <4>1. JobOK'
        BY <3>1, <3>0, StaysType, GotoJob DEF Promote, At, TypeOK, WritePC, Carrying
      <4>2. active' \in [Proc -> [Bucket -> Candidate \cup {NoCandidate}]]
        BY <3>1, StaysType DEF Promote, TypeOK
      <4> QED
        BY <3>0, <3>1, <4>1, <4>2 DEF Promote, At, TypeOK, Carrying
    <3>2. CASE PromoteLost(p)
      <4>1. active' \in [Proc -> [Bucket -> Candidate \cup {NoCandidate}]] /\ JobOK'
        BY <3>2, StaysType DEF PromoteLost
      <4> QED
        BY <3>2, <4>1 DEF PromoteLost, TypeOK, redis
    <3>3. CASE RollbackGet(p)
      BY <3>3, LoadDefaultType DEF RollbackGet, TypeOK, redis
    <3>4. CASE RollbackSet(p)
      <4>1. JobOK'
        BY <3>4, <3>0, GotoJob DEF RollbackSet, At, TypeOK, WritePC, Carrying
      <4> QED
        BY <3>0, <3>4, <4>1 DEF RollbackSet, At, TypeOK, Carrying
    <3>5. CASE Log(p)
      <4>1. JobOK'
        BY <3>5, DoneJob DEF Log, TypeOK
      <4> QED
        BY <3>0, <3>5, <4>1 DEF Log, At, TypeOK, Carrying
    <3>6. CASE ResetGet(p)
      BY <3>6, LoadDefaultType DEF ResetGet, TypeOK, redis
    <3>7. CASE ResetSet(p)
      <4>1. JobOK'
        BY <3>7, <3>0, DoneJob, GotoJob DEF ResetSet, At, TypeOK, WritePC, Carrying
      <4> QED
        BY <3>0, <3>7, <4>1 DEF ResetSet, At, TypeOK, Carrying
    <3>8. CASE ResetLog(p)
      <4>1. JobOK'
        BY <3>8, DoneJob DEF ResetLog, TypeOK
      <4> QED
        BY <3>0, <3>8, <4>1 DEF ResetLog, At, TypeOK, Carrying
    <3> QED
      BY <2>6, <3>1, <3>2, <3>3, <3>4, <3>5, <3>6, <3>7, <3>8 DEF WriteStep
  <2>7. ASSUME NEW p \in Proc, Restart(p) PROVE TypeOK'
    <3>1. job' = [t \in Thread |-> IF t = p THEN WarmUp
                       ELSE IF t \in Dashboard /\ Host[t] = p THEN Idle ELSE job[t]]
      BY <2>7 DEF Restart
    <3>2. /\ WarmUp.pc \notin Carrying /\ Idle.pc \notin Carrying
          /\ WarmUp.op # "query" /\ Idle.op # "query"
      BY DEF WarmUp, Idle, Carrying
    <3>3. JobOK'
      BY <3>1, <3>2, IdleIsJob DEF TypeOK, JobOK, Thread
    <3> QED
      BY <2>7, <3>3 DEF Restart, TypeOK, redis
  <2>8. ASSUME NEW t \in Thread, ReadStep(t) PROVE TypeOK'
    <3>0. /\ job[t].bucket \in Bucket /\ Surface(job[t]) \in Bucket
          /\ job[t].pc \in Carrying => job[t].carry \in Profile
      BY DEF TypeOK, JobOK, Job, Surface, Bucket
    <3>1. CASE GetHit(t)
      <4>1. current[Surface(job[t])] \in Profile
        BY <3>0, <3>1 DEF GetHit, TypeOK
      <4> QED
        BY <3>1, <4>1, ReadDoneType DEF GetHit, TypeOK
    <3>2. CASE GetMiss(t)
      <4>1. JobOK'
        BY <3>2, GotoJob, GotoWithJob, CompiledType
           DEF GetMiss, TypeOK, ReadPC, Carrying
      <4> QED
        BY <3>2, <4>1 DEF GetMiss, TypeOK, redis
    <3>3. CASE GetGlobal(t)
      <4>1. current[Global] \in Profile \cup {NoProfile}
        BY DEF TypeOK, Bucket
      <4>2. JobOK'
        BY <3>3, <4>1, GotoWithJob, CompiledType DEF GetGlobal, TypeOK, ReadPC
      <4> QED
        BY <3>3, <4>2 DEF GetGlobal, TypeOK, redis
    <3>4. CASE GetError(t)
      BY <3>4, ReadFailedType DEF GetError, TypeOK
    <3>5. CASE Seed(t)
      <4>1. /\ served' \subseteq Bucket \X Profile
            /\ active' \in [Proc -> [Bucket -> Candidate \cup {NoCandidate}]]
            /\ JobOK'
        BY <3>0, <3>5, ReadFailedType, GotoJob DEF Seed, At, TypeOK, ReadPC, Carrying
      <4> QED
        BY <3>0, <3>5, <4>1 DEF Seed, At, TypeOK, Carrying
    <3>6. CASE DefaultExists(t)
      BY <3>0, <3>6, SeededType DEF DefaultExists, At, TypeOK, Carrying
    <3>7. CASE DefaultMissing(t)
      <4>1. JobOK'
        BY <3>0, <3>7, GotoJob DEF DefaultMissing, At, TypeOK, ReadPC, Carrying
      <4> QED
        BY <3>7, <4>1 DEF DefaultMissing, TypeOK, redis
    <3>8. CASE FreezeDefault(t)
      BY <3>0, <3>8, SeededType, ReadFailedType DEF FreezeDefault, At, TypeOK, Carrying
    <3>9. CASE FillBucket(t)
      <4>1. /\ served' \subseteq Bucket \X Profile
            /\ active' \in [Proc -> [Bucket -> Candidate \cup {NoCandidate}]]
            /\ JobOK'
        BY <3>0, <3>9, ReadDoneType, ReadFailedType DEF FillBucket, At, Carrying
      <4> QED
        BY <3>0, <3>9, <4>1 DEF FillBucket, At, TypeOK, Carrying
    <3>10. CASE SetLost(t)
      BY <3>10, ReadFailedType DEF SetLost, TypeOK
    <3> QED
      BY <2>8, <3>1, <3>2, <3>3, <3>4, <3>5, <3>6, <3>7, <3>8, <3>9, <3>10
         DEF ReadStep
  <2>9. ASSUME NEW t \in Thread, NEW b \in Bucket, Stats(t, b) PROVE TypeOK'
    <3> DEFINE h == b # Global
               j == [job[t] EXCEPT !.pc = "get", !.op = "stats", !.bucket = b, !.hot = h]
    <3>1. job' = [job EXCEPT ![t] = j]
      BY <2>9 DEF Stats, TypeOK, JobOK
    <3>2. h \in BOOLEAN
      OBVIOUS
    <3> HIDE DEF h
    <3>3. j \in Job /\ j.pc \notin Carrying /\ j.op # "query"
      <4>1. job[t] \in Job
        BY DEF TypeOK, JobOK, Thread
      <4> QED
        BY <3>2, <4>1 DEF Job, ReadPC, Carrying
    <3> HIDE DEF j
    <3>4. JobOK'
      BY <3>1, <3>3, StoreJob DEF TypeOK
    <3> QED
      BY <2>9, <3>4 DEF Stats, TypeOK, redis
  <2>10. ASSUME NEW tr, ExpireTrace(tr) PROVE TypeOK'
    BY <2>10 DEF ExpireTrace, TypeOK, JobOK
  <2>11. CASE UNCHANGED vars
    BY <2>11 DEF vars, TypeOK, JobOK
  <2> QED
    BY <2>1, <2>2, <2>3, <2>4, <2>5, <2>6, <2>7, <2>8, <2>9, <2>10, <2>11
       DEF Next, Request
<1> QED
  BY <1>1, <1>2, PTL DEF Spec

-----------------------------------------------------------------------------
(***************************************************************************)
(* Verdicts.  An experiment tests one step from its base, a struck one is  *)
(* being ended, and a process about to promote has a winning experiment in *)
(* its slot; whatever is about to be restored is a compiled default.       *)
(***************************************************************************)
CompiledSet == {Compiled[t] : t \in Thread}

SlotOK(p, b) ==
    LET c == active[p][b] IN
    c # NoCandidate =>
        /\ c.profile \in Perturb[c.base] \ {c.base}
        /\ c.consecBad >= RollbackStrikes => Concluding(p, b) /\ ~At(p, "promote")
        /\ WindowFull(c) => Concluding(p, b) \/ c.unsaved

PromotionOK(p) ==
    LET c == active[p][job[p].bucket] IN
    At(p, "promote") =>
        /\ c # NoCandidate /\ job[p].carry = c.profile
        /\ WindowFull(c) /\ BeatsBase(c) /\ c.consecBad < RollbackStrikes

Restoring == {"seed", "exists", "freeze", "rollbackSet", "resetSet"}

DefaultsOK ==
    /\ deflt \in CompiledSet \cup {NoProfile}
    /\ \A t \in Thread : job[t].pc \in Restoring => job[t].carry \in CompiledSet

SlotsOK == \A p \in Proc : PromotionOK(p) /\ \A b \in Bucket : SlotOK(p, b)

VerdictInv == SlotsOK /\ DefaultsOK

(* What a step outside a verdict can do to a slot.                         *)
Untouched(p, b) ==
    \/ active'[p][b] = active[p][b]
    \/ active'[p][b] = NoCandidate
    \/ \E base \in Profile : \E q \in Perturb[base] \ {base} :
          active'[p][b] = Fresh(q, base)

LEMMA FreshOK ==
    ASSUME NEW base \in Profile, NEW q \in Perturb[base] \ {base}
    PROVE  LET c == Fresh(q, base) IN
           /\ c.profile = q /\ c.base = base
           /\ ~(c.consecBad >= RollbackStrikes) /\ ~WindowFull(c)
BY ConstantsAssumption DEF Fresh, WindowFull

LEMMA StrikesNat ==
    ASSUME TypeOK, NEW p \in Proc, NEW b \in Bucket, active[p][b] # NoCandidate
    PROVE  active[p][b].consecBad \in Nat /\ RollbackStrikes \in Nat
BY ConstantsAssumption DEF TypeOK, Candidate

(* A step of a thread that is not carrying out a verdict, and does not     *)
(* start one.                                                              *)
LEMMA QuietStep ==
    ASSUME SlotsOK, NEW t \in Thread, job \in [Thread -> Job],
           job[t].pc \notin VerdictPC,
           NEW j, j.pc # "promote", job' = [job EXCEPT ![t] = j],
           \A p \in Proc, b \in Bucket : Untouched(p, b),
           \A p \in Proc : p # t => active'[p] = active[p]
    PROVE  SlotsOK'
<1> SUFFICES ASSUME NEW p \in Proc PROVE PromotionOK(p)' /\ \A b \in Bucket : SlotOK(p, b)'
  BY DEF SlotsOK
<1>0. p \in Thread /\ PromotionOK(p) /\ \A b \in Bucket : SlotOK(p, b)
  BY DEF Thread, SlotsOK
<1>1. ASSUME At(p, "promote")' PROVE PromotionOK(p)'
  <2>1. p # t /\ job'[p] = job[p] /\ At(p, "promote")
    BY <1>0, <1>1 DEF At
  <2> QED
    BY <1>0, <2>1 DEF PromotionOK, At
<1>2. ASSUME NEW b \in Bucket PROVE SlotOK(p, b)'
  <2>1. CASE active'[p][b] = active[p][b]
    BY <1>0, <2>1 DEF SlotOK, Concluding, VerdictPC, At
  <2>2. CASE active'[p][b] = NoCandidate
    BY <2>2 DEF SlotOK
  <2>3. CASE \E base \in Profile : \E q \in Perturb[base] \ {base} :
                 active'[p][b] = Fresh(q, base)
    BY <2>3, FreshOK DEF SlotOK, WindowFull
  <2> QED
    BY <2>1, <2>2, <2>3 DEF Untouched
<1> QED
  BY <1>1, <1>2 DEF PromotionOK

(* Ends of a read as quiet steps.                                          *)
QuietEnd(t) ==
    /\ job' = [job EXCEPT ![t] = Idle]
    /\ \A p \in Proc, b \in Bucket : Untouched(p, b)
    /\ \A p \in Proc : p # t => active'[p] = active[p]

LEMMA ReadFailedQuiet ==
    ASSUME NEW t \in Thread, ReadFailed(t) PROVE QuietEnd(t)
BY DEF ReadFailed, Serve, Done, QuietEnd, Untouched

LEMMA ReadDoneQuiet ==
    ASSUME TypeOK, NEW t \in Thread, NEW base \in Profile, ReadDone(t, base)
    PROVE  QuietEnd(t)
<1>1. CASE job[t].op = "query"
  <2>1. t \in Proc
    BY <1>1, QueryIsServedByProc DEF TypeOK
  <2>2. job[t].bucket \in Bucket /\ job[t].hot \in BOOLEAN
    BY DEF TypeOK, JobOK, Job
  <2>3. PICK o \in SelectOutcomes(t, job[t].bucket, base, job[t].hot) :
            /\ Serve(t, o.profile)
            /\ active' = [active EXCEPT ![t][job[t].bucket] = o.slot]
    BY <1>1 DEF ReadDone
  <2>4. \/ o.slot = active[t][job[t].bucket]
        \/ \E q \in Perturb[base] \ {base} : o.slot = Fresh(q, base)
    BY <2>1, <2>2, SelectOutcomesType
  <2>5. ASSUME NEW p \in Proc, NEW b \in Bucket PROVE Untouched(p, b)
    <3>1. active'[p][b] = active[p][b]
          \/ (active'[p][b] = o.slot /\ p = t /\ b = job[t].bucket)
      BY <2>1, <2>2, <2>3 DEF TypeOK
    <3>2. CASE active'[p][b] = active[p][b]
      BY <3>2 DEF Untouched
    <3>3. CASE active'[p][b] = o.slot /\ p = t /\ b = job[t].bucket
      BY <2>4, <3>3 DEF Untouched
    <3> QED
      BY <3>1, <3>2, <3>3
  <2> QED
    BY <2>1, <2>3, <2>5 DEF QuietEnd, Serve, Done, TypeOK
<1>2. CASE job[t].op \in {"warm", "stats"}
  BY <1>2 DEF ReadDone, Done, QuietEnd, Untouched
<1> QED
  BY <1>1, <1>2 DEF ReadDone

LEMMA QuietEndOK ==
    ASSUME SlotsOK, NEW t \in Thread, job \in [Thread -> Job],
           job[t].pc \notin VerdictPC, QuietEnd(t)
    PROVE  SlotsOK'
BY QuietStep DEF QuietEnd, Idle

(* A step that keeps every slot and moves its thread, outside a verdict.   *)
LEMMA QuietMove ==
    ASSUME SlotsOK, NEW t \in Thread, job \in [Thread -> Job],
           job[t].pc \notin VerdictPC, UNCHANGED active,
           NEW j, j.pc # "promote", job' = [job EXCEPT ![t] = j]
    PROVE  SlotsOK'
BY QuietStep DEF Untouched

LEMMA GotoQuiet ==
    ASSUME SlotsOK, NEW t \in Thread, job \in [Thread -> Job],
           job[t].pc \notin VerdictPC, UNCHANGED active,
           NEW label \in (ReadPC \cup WritePC) \ {"promote"},
           Goto(t, label) \/ \E q : GotoWith(t, label, q)
    PROVE  SlotsOK'
<1>1. CASE Goto(t, label)
  <2> DEFINE j == [job[t] EXCEPT !.pc = label]
  <2>1. job' = [job EXCEPT ![t] = j] /\ j.pc = label
    BY <1>1 DEF Goto, Job
  <2> HIDE DEF j
  <2> QED
    BY <2>1, QuietMove
<1>2. ASSUME NEW q, GotoWith(t, label, q) PROVE SlotsOK'
  <2> DEFINE j == [job[t] EXCEPT !.pc = label, !.carry = q]
  <2>1. job' = [job EXCEPT ![t] = j]
    BY <1>2 DEF GotoWith
  <2>2. j.pc = label
    <3>1. job[t] \in Job
      OBVIOUS
    <3> QED
      BY <3>1 DEF Job
  <2> HIDE DEF j
  <2> QED
    BY <2>1, <2>2, QuietMove
<1> QED
  BY <1>1, <1>2

LEMMA SeededQuiet ==
    ASSUME TypeOK, SlotsOK, NEW t \in Thread, Seeded(t), job[t].carry \in Profile,
           job[t].pc \notin VerdictPC
    PROVE  SlotsOK'
<1>1. CASE Surface(job[t]) = Global
  BY <1>1, ReadDoneQuiet, QuietEndOK DEF Seeded, TypeOK, JobOK
<1>2. CASE Surface(job[t]) # Global
  BY <1>2, GotoQuiet DEF Seeded, TypeOK, JobOK, ReadPC
<1> QED
  BY <1>1, <1>2

(***************************************************************************)
(* The steps of Bandit.Update.                                             *)
(***************************************************************************)
LEMMA CreditBaseStrikes ==
    ASSUME NEW c \in Candidate, NEW q \in Profile, NEW s \in Signal, q # c.profile
    PROVE  Credited(c, q, s).consecBad = c.consecBad
<1>1. CASE q = c.base
  <2>1. Credited(c, q, s) = CreditBase(c, s)
    BY <1>1 DEF Credited
  <2> QED
    BY <2>1 DEF CreditBase, Candidate
<1>2. CASE q # c.base
  BY <1>2 DEF Credited
<1> QED
  BY <1>1, <1>2

LEMMA FeedbackVerdicts ==
    ASSUME TypeOK, SlotsOK, NEW p \in Proc, NEW b \in Bucket, NEW q \in Profile,
           NEW s \in Signal, Feedback(p, b, q, s)
    PROVE  SlotsOK'
<1> DEFINE c == Credited(active[p][b], q, s)
           v == Verdict(c, q)
<1>1. /\ active[p][b] \in Candidate /\ active[p][b] # NoCandidate
      /\ p \in Thread /\ At(p, "idle")
  BY DEF TypeOK, Feedback, Thread
<1>2. /\ c \in Candidate
      /\ c.profile = active[p][b].profile /\ c.base = active[p][b].base
  BY <1>1, CreditedIsCandidate
<1>3. c # NoCandidate /\ c.consecBad \in Nat /\ RollbackStrikes \in Nat
  BY <1>2, ConstantsAssumption DEF Candidate
<1>4. active' = [active EXCEPT ![p][b] = c]
  BY DEF Feedback
<1>5. /\ v = "idle" => job'[p] = Idle
      /\ v # "idle" => /\ job'[p].pc = v /\ job'[p].bucket = b
                       /\ job'[p].carry = VerdictCarry(c, q)
      /\ \A r \in Proc : r # p => job'[r] = job[r]
  BY <1>1 DEF Feedback, TypeOK, JobOK, Thread
<1>6. active[p][b].consecBad < RollbackStrikes
  BY <1>1, StrikesNat DEF SlotsOK, SlotOK, Concluding, VerdictPC, At
<1>7. q # c.profile => c.consecBad < RollbackStrikes
  BY <1>1, <1>2, <1>6, CreditBaseStrikes
<1> HIDE DEF c
<1>8. /\ v = "rollbackGet" <=> c.consecBad >= RollbackStrikes
      /\ v = "promote" => /\ WindowFull(c) /\ BeatsBase(c)
                          /\ VerdictCarry(c, q) = c.profile
      /\ v = "idle" => ~WindowFull(c)
      /\ v \in {"idle", "promote", "log", "rollbackGet"}
  BY <1>3, <1>7 DEF Verdict, VerdictCarry
<1> HIDE DEF v
<1>9. ASSUME NEW r \in Proc, r # p
      PROVE  PromotionOK(r)' /\ \A d \in Bucket : SlotOK(r, d)'
  <2>1. active'[r] = active[r] /\ job'[r] = job[r]
    BY <1>4, <1>5, <1>9 DEF TypeOK
  <2> QED
    BY <2>1 DEF SlotsOK, PromotionOK, SlotOK, Concluding, At
<1>10. PromotionOK(p)'
  <2> SUFFICES ASSUME At(p, "promote")' PROVE PromotionOK(p)'
    BY DEF PromotionOK
  <2>1. v = "promote" /\ job'[p].bucket = b /\ job'[p].carry = c.profile
    BY <1>5, <1>8 DEF At, Idle
  <2>2. active'[p][b] = c
    BY <1>4 DEF TypeOK
  <2>3. c.consecBad < RollbackStrikes
    BY <1>3, <1>8, <2>1
  <2> QED
    BY <1>3, <1>8, <2>1, <2>2, <2>3 DEF PromotionOK, WindowFull, BeatsBase
<1>11. ASSUME NEW d \in Bucket PROVE SlotOK(p, d)'
  <2>1. CASE d = b
    <3>1. active'[p][d] = c
      BY <1>4, <2>1 DEF TypeOK
    <3>2. c.profile \in Perturb[c.base] \ {c.base}
      BY <1>1, <1>2 DEF SlotsOK, SlotOK
    <3>3. v # "idle" => Concluding(p, b)'
      BY <1>5, <1>8 DEF Concluding, VerdictPC
    <3>4. v = "rollbackGet" => ~At(p, "promote")'
      BY <1>5 DEF At
    <3> QED
      BY <1>8, <2>1, <3>1, <3>2, <3>3, <3>4 DEF SlotOK, WindowFull
  <2>2. CASE d # b
    <3>1. active'[p][d] = active[p][d]
      BY <1>4, <2>2 DEF TypeOK
    <3>2. ~Concluding(p, d)
      BY <1>1 DEF Concluding, VerdictPC, At
    <3> QED
      BY <3>1, <3>2 DEF SlotsOK, SlotOK, WindowFull
  <2> QED
    BY <2>1, <2>2
<1> QED
  BY <1>9, <1>10, <1>11 DEF SlotsOK

(* A verdict being carried out: the slots stay, or its slot is deleted.    *)
LEMMA VerdictSteps ==
    ASSUME TypeOK, SlotsOK, NEW p \in Proc, job[p].pc \in VerdictPC, WriteStep(p)
    PROVE  SlotsOK'
<1> DEFINE b == job[p].bucket
<1>0. p \in Thread /\ b \in Bucket /\ PromotionOK(p) /\ \A d \in Bucket : SlotOK(p, d)
  BY DEF Thread, TypeOK, JobOK, Job, SlotsOK
<1>1. ASSUME NEW r \in Proc, r # p, active'[r] = active[r], job'[r] = job[r]
      PROVE  PromotionOK(r)' /\ \A d \in Bucket : SlotOK(r, d)'
  BY <1>1 DEF SlotsOK, PromotionOK, SlotOK, Concluding, At
<1>2. CASE Promote(p) \/ PromoteLost(p)
  <2>1. /\ At(p, "promote")
        /\ \/ Goto(p, "log") /\ UNCHANGED active
           \/ Done(p) /\ active' = [active EXCEPT ![p][b] = Unconfirmed(active[p][b])]
    BY <1>0, <1>2 DEF Promote, PromoteLost, Stays, TypeOK
  <2>2. \A r \in Proc : r # p => active'[r] = active[r] /\ job'[r] = job[r]
    BY <2>1 DEF Goto, Done, TypeOK, JobOK, Thread
  <2>3. /\ job'[p].pc \in {"idle", "log"}
        /\ job'[p].pc = "log" => job'[p].bucket = b /\ UNCHANGED active
        /\ job'[p].pc = "idle" =>
              active'[p] = [active[p] EXCEPT ![b] = Unconfirmed(active[p][b])]
    BY <1>0, <2>1 DEF Goto, Done, Idle, TypeOK, JobOK, Job
  <2>4. ASSUME NEW d \in Bucket PROVE SlotOK(p, d)'
    <3>1. active[p][d] # NoCandidate => active[p][d].consecBad < RollbackStrikes
      BY <1>0, <2>1, StrikesNat DEF SlotOK, At
    <3>2. SlotOK(p, d)
      BY <1>0
    <3>3. active[p][d] # NoCandidate => ~(active[p][d].consecBad >= RollbackStrikes)
      BY <3>1, StrikesNat
    <3>4. CASE job'[p].pc = "log"
      BY <2>1, <2>3, <3>2, <3>3, <3>4 DEF SlotOK, Concluding, VerdictPC, At, WindowFull
    <3>5. CASE job'[p].pc = "idle" /\ d # b
      <4>1. active'[p][d] = active[p][d]
        BY <1>0, <2>3, <3>5 DEF TypeOK
      <4>2. ~Concluding(p, d)
        BY <3>5 DEF Concluding
      <4> QED
        BY <3>2, <3>3, <4>1, <4>2 DEF SlotOK, WindowFull
    <3>6. CASE job'[p].pc = "idle" /\ d = b
      <4>1. active'[p][d] = Unconfirmed(active[p][d])
        BY <1>0, <2>3, <3>6 DEF TypeOK
      <4>2. active[p][d] \in Candidate \cup {NoCandidate}
        BY DEF TypeOK
      <4>3. /\ (active'[p][d] = NoCandidate) <=> (active[p][d] = NoCandidate)
            /\ active[p][d] # NoCandidate =>
                  /\ active'[p][d].profile = active[p][d].profile
                  /\ active'[p][d].base = active[p][d].base
                  /\ active'[p][d].unsaved
                  /\ active'[p][d].consecBad = active[p][d].consecBad
        BY <4>1, <4>2, UnconfirmedIsCandidate
      <4> QED
        BY <3>2, <3>3, <4>3 DEF SlotOK
    <3> QED
      BY <2>3, <3>4, <3>5, <3>6
  <2>5. PromotionOK(p)'
    BY <2>3 DEF PromotionOK, At
  <2> QED
    BY <1>1, <2>2, <2>4, <2>5 DEF SlotsOK
<1>3. CASE RollbackGet(p) \/ RollbackSet(p)
  <2>1. /\ job[p].pc \in {"rollbackGet", "rollbackSet"} /\ UNCHANGED active
        /\ job'[p].pc \in {"rollbackSet", "log"} /\ job'[p].bucket = b
    BY <1>0, <1>3 DEF RollbackGet, RollbackSet, At, Goto, GotoWith, LoadDefault,
                      TypeOK, JobOK, Job
  <2>2. \A r \in Proc : r # p => active'[r] = active[r] /\ job'[r] = job[r]
    BY <1>3 DEF RollbackGet, RollbackSet, Goto, GotoWith, LoadDefault,
                TypeOK, JobOK, Thread
  <2>3. PromotionOK(p)'
    BY <2>1 DEF PromotionOK, At
  <2>4. ASSUME NEW d \in Bucket PROVE SlotOK(p, d)'
    BY <1>0, <2>1 DEF SlotOK, Concluding, VerdictPC, At, WindowFull
  <2> QED
    BY <1>1, <2>2, <2>3, <2>4 DEF SlotsOK
<1>4. CASE Log(p)
  <2>1. /\ active' = [active EXCEPT ![p][b] = NoCandidate]
        /\ job' = [job EXCEPT ![p] = Idle]
    BY <1>4 DEF Log, Done
  <2>2. \A r \in Proc : r # p => active'[r] = active[r] /\ job'[r] = job[r]
    BY <2>1 DEF TypeOK
  <2>3. PromotionOK(p)'
    BY <1>0, <2>1 DEF PromotionOK, At, Idle, TypeOK, JobOK
  <2>4. ASSUME NEW d \in Bucket PROVE SlotOK(p, d)'
    <3>1. CASE d = b
      BY <2>1, <3>1 DEF SlotOK, TypeOK
    <3>2. CASE d # b
      <4>1. active'[p][d] = active[p][d] /\ ~Concluding(p, d)
        BY <2>1, <3>2 DEF TypeOK, Concluding
      <4> QED
        BY <1>0, <4>1 DEF SlotOK, WindowFull
    <3> QED
      BY <3>1, <3>2
  <2> QED
    BY <1>1, <2>2, <2>3, <2>4 DEF SlotsOK
<1> QED
  BY <1>2, <1>3, <1>4 DEF WriteStep, VerdictPC, ResetGet, ResetSet, ResetLog, At

(***************************************************************************)
(* The defaults.  A thread carries a compiled default wherever it is about *)
(* to write one.                                                           *)
(***************************************************************************)
LEMMA DefaultsStep ==
    ASSUME DefaultsOK, NEW t \in Thread, deflt' \in CompiledSet \cup {NoProfile},
           \A u \in Thread : u # t => job'[u] = job[u],
           job'[t].pc \in Restoring => job'[t].carry \in CompiledSet
    PROVE  DefaultsOK'
BY DEF DefaultsOK, CompiledSet

(* What the three ways to move a thread leave in its job.                  *)
LEMMA Moves ==
    ASSUME JobOK, NEW t \in Thread
    PROVE  /\ Done(t) => /\ job'[t] = Idle
                         /\ \A u \in Thread : u # t => job'[u] = job[u]
           /\ \A label : Goto(t, label) =>
                 /\ job'[t].pc = label /\ job'[t].carry = job[t].carry
                 /\ job'[t].bucket = job[t].bucket /\ job'[t].hot = job[t].hot
                 /\ \A u \in Thread : u # t => job'[u] = job[u]
           /\ \A label, q : GotoWith(t, label, q) =>
                 /\ job'[t].pc = label /\ job'[t].carry = q
                 /\ job'[t].bucket = job[t].bucket /\ job'[t].hot = job[t].hot
                 /\ \A u \in Thread : u # t => job'[u] = job[u]
<1>1. Done(t) => /\ job'[t] = Idle
                 /\ \A u \in Thread : u # t => job'[u] = job[u]
  BY DEF Done, JobOK
<1>2. ASSUME NEW label, Goto(t, label)
      PROVE  /\ job'[t].pc = label /\ job'[t].carry = job[t].carry
             /\ job'[t].bucket = job[t].bucket /\ job'[t].hot = job[t].hot
             /\ \A u \in Thread : u # t => job'[u] = job[u]
  BY <1>2 DEF Goto, JobOK, Job
<1>3. ASSUME NEW label, NEW q, GotoWith(t, label, q)
      PROVE  /\ job'[t].pc = label /\ job'[t].carry = q
             /\ job'[t].bucket = job[t].bucket /\ job'[t].hot = job[t].hot
             /\ \A u \in Thread : u # t => job'[u] = job[u]
  <2> DEFINE j == [job[t] EXCEPT !.pc = label, !.carry = q]
  <2>1. job' = [job EXCEPT ![t] = j]
    BY <1>3 DEF GotoWith, JobOK
  <2>2. j.pc = label /\ j.carry = q /\ j.bucket = job[t].bucket /\ j.hot = job[t].hot
    BY DEF JobOK, Job
  <2> HIDE DEF j
  <2> QED
    BY <2>1, <2>2 DEF JobOK
<1> QED
  BY <1>1, <1>2, <1>3

LEMMA LoadDefaultIsCompiled ==
    ASSUME DefaultsOK, NEW t \in Thread, NEW label, LoadDefault(t, label)
    PROVE  \E q \in CompiledSet : GotoWith(t, label, q)
BY DEF DefaultsOK, LoadDefault, CompiledSet

LEMMA ReadEnds ==
    ASSUME JobOK, NEW t \in Thread,
           ReadFailed(t) \/ \E base : ReadDone(t, base)
    PROVE  Done(t)
BY DEF ReadFailed, ReadDone, Serve

LEMMA ReadStepVerdicts ==
    ASSUME TypeOK, VerdictInv, NEW t \in Thread, ReadStep(t)
    PROVE  VerdictInv'
<1>0. /\ job \in [Thread -> Job] /\ JobOK /\ SlotsOK /\ DefaultsOK
      /\ job[t].pc \in Carrying => job[t].carry \in Profile
      /\ Compiled[t] \in CompiledSet /\ Idle.pc \notin Restoring
  BY DEF TypeOK, JobOK, VerdictInv, CompiledSet, Idle, Restoring
<1> USE <1>0
<1>1. CASE GetHit(t) \/ GetError(t) \/ SetLost(t)
  <2>1. Done(t) /\ UNCHANGED deflt /\ job[t].pc \notin VerdictPC
    BY <1>1, ReadEnds DEF GetHit, GetError, SetLost, At, VerdictPC
  <2>2. ReadFailed(t) \/ \E base \in Profile : ReadDone(t, base)
    BY <1>1 DEF GetHit, GetError, SetLost, TypeOK, Surface, Bucket, JobOK, Job
  <2>3. SlotsOK'
    BY <2>1, <2>2, ReadDoneQuiet, ReadFailedQuiet, QuietEndOK
  <2>4. DefaultsOK'
    BY <2>1, Moves, DefaultsStep DEF DefaultsOK
  <2> QED
    BY <2>3, <2>4 DEF VerdictInv
<1>2. CASE GetMiss(t) \/ GetGlobal(t)
  <2>1. /\ job[t].pc \notin VerdictPC /\ UNCHANGED <<active, deflt>>
        /\ \/ Goto(t, "getGlobal")
           \/ GotoWith(t, "seed", Compiled[t])
           \/ GotoWith(t, "fill", current[Global])
    BY <1>2 DEF GetMiss, GetGlobal, At, VerdictPC, redis
  <2>2. SlotsOK'
    BY <2>1, GotoQuiet DEF ReadPC
  <2>3. DefaultsOK'
    BY <2>1, Moves, DefaultsStep DEF DefaultsOK, Restoring
  <2> QED
    BY <2>2, <2>3 DEF VerdictInv
<1>3. CASE Seed(t)
  <2>1. /\ job[t].pc = "seed" /\ UNCHANGED deflt
        /\ \/ Goto(t, "exists") /\ UNCHANGED active
           \/ ReadFailed(t)
    BY <1>3 DEF Seed, At
  <2>2. SlotsOK'
    BY <2>1, GotoQuiet, ReadFailedQuiet, QuietEndOK DEF ReadPC, VerdictPC
  <2>3. DefaultsOK'
    BY <2>1, ReadEnds, Moves, DefaultsStep DEF DefaultsOK, Restoring
  <2> QED
    BY <2>2, <2>3 DEF VerdictInv
<1>4. CASE DefaultExists(t) \/ FreezeDefault(t)
  <2>1. /\ job[t].pc \in {"exists", "freeze"}
        /\ deflt' \in {deflt, job[t].carry}
        /\ Seeded(t) \/ ReadFailed(t)
    BY <1>4 DEF DefaultExists, FreezeDefault, At
  <2>2. SlotsOK'
    BY <2>1, SeededQuiet, ReadFailedQuiet, QuietEndOK DEF VerdictPC, Carrying
  <2>3. Done(t) \/ Goto(t, "fill")
    BY <2>1, ReadEnds DEF Seeded
  <2>4. DefaultsOK'
    BY <2>1, <2>3, Moves, DefaultsStep DEF DefaultsOK, Restoring
  <2> QED
    BY <2>2, <2>4 DEF VerdictInv
<1>5. CASE DefaultMissing(t)
  <2>1. job[t].pc = "exists" /\ Goto(t, "freeze") /\ UNCHANGED <<active, deflt>>
    BY <1>5 DEF DefaultMissing, At, redis
  <2>2. SlotsOK'
    BY <2>1, GotoQuiet DEF ReadPC, VerdictPC
  <2>3. DefaultsOK'
    BY <2>1, Moves, DefaultsStep DEF DefaultsOK, Restoring
  <2> QED
    BY <2>2, <2>3 DEF VerdictInv
<1>6. CASE FillBucket(t)
  <2>1. /\ job[t].pc = "fill" /\ UNCHANGED deflt
        /\ ReadDone(t, job[t].carry) \/ ReadFailed(t)
    BY <1>6 DEF FillBucket, At
  <2>2. SlotsOK'
    BY <2>1, ReadDoneQuiet, ReadFailedQuiet, QuietEndOK DEF VerdictPC, Carrying
  <2>3. DefaultsOK'
    BY <2>1, ReadEnds, Moves, DefaultsStep DEF DefaultsOK
  <2> QED
    BY <2>2, <2>3 DEF VerdictInv
<1> QED
  BY <1>1, <1>2, <1>3, <1>4, <1>5, <1>6 DEF ReadStep

(* A request that starts moves its thread and nothing a verdict rests on.  *)
LEMMA QuietRequest ==
    ASSUME TypeOK, VerdictInv, NEW t \in Thread, job[t].pc \notin VerdictPC,
           UNCHANGED <<active, deflt>>, NEW j, j.pc \notin Restoring \cup {"promote"},
           job' = [job EXCEPT ![t] = j]
    PROVE  VerdictInv'
<1>1. job \in [Thread -> Job]
  BY DEF TypeOK, JobOK
<1>2. SlotsOK'
  BY <1>1, QuietMove DEF VerdictInv
<1>3. /\ \A u \in Thread : u # t => job'[u] = job[u]
      /\ job'[t].pc \notin Restoring
  BY <1>1
<1>4. DefaultsOK'
  BY <1>3, DefaultsStep DEF VerdictInv, DefaultsOK
<1> QED
  BY <1>2, <1>4 DEF VerdictInv

(* Requests change no default and start no verdict, save for feedback.     *)
LEMMA RequestVerdicts ==
    ASSUME TypeOK, VerdictInv, NEW p \in Proc, Request(p) \/ ReadSamples(p)
    PROVE  VerdictInv'
<1>0. /\ job \in [Thread -> Job] /\ SlotsOK /\ DefaultsOK /\ p \in Thread
      /\ deflt \in CompiledSet \cup {NoProfile}
  BY DEF TypeOK, JobOK, VerdictInv, DefaultsOK, Thread
<1>1. CASE QueryGlobal(p)
  <2> DEFINE j == [job[p] EXCEPT !.pc = "get", !.op = "query"]
  <2>1. job' = [job EXCEPT ![p] = j] /\ j.pc = "get"
    BY <1>0, <1>1 DEF QueryGlobal, Job
  <2>2. job[p].pc \notin VerdictPC /\ UNCHANGED <<active, deflt>>
    BY <1>1 DEF QueryGlobal, At, redis, VerdictPC
  <2> HIDE DEF j
  <2> QED
    BY <1>0, <2>1, <2>2, QuietRequest DEF Restoring
<1>3. ASSUME NEW b \in Topic, QueryTopic(p, b) PROVE VerdictInv'
  <2> DEFINE j == [job[p] EXCEPT !.pc = "samples", !.op = "query", !.bucket = b]
  <2>1. job' = [job EXCEPT ![p] = j] /\ j.pc = "samples"
    BY <1>0, <1>3 DEF QueryTopic, Job
  <2>2. job[p].pc \notin VerdictPC /\ UNCHANGED <<active, deflt>>
    BY <1>3 DEF QueryTopic, At, VerdictPC
  <2> HIDE DEF j
  <2> QED
    BY <1>0, <2>1, <2>2, QuietRequest DEF Restoring
<1>4. CASE ReadSamples(p)
  <2>1. PICK n : job' = [job EXCEPT ![p].pc = "get", ![p].hot = n >= SampleFloor]
    BY <1>4 DEF ReadSamples
  <2> DEFINE h == n >= SampleFloor
             j == [job[p] EXCEPT !.pc = "get", !.hot = h]
  <2>2. job' = [job EXCEPT ![p] = j]
    BY <1>0, <2>1
  <2> HIDE DEF h
  <2>3. j.pc = "get"
    BY <1>0 DEF Job
  <2>4. job[p].pc \notin VerdictPC /\ UNCHANGED <<active, deflt>>
    BY <1>4 DEF ReadSamples, At, redis, VerdictPC
  <2> HIDE DEF j
  <2> QED
    BY <1>0, <2>2, <2>3, <2>4, QuietRequest DEF Restoring
<1>5. CASE Reset(p)
  <2> DEFINE j == [job[p] EXCEPT !.pc = "resetGet"]
  <2>1. job' = [job EXCEPT ![p] = j] /\ j.pc = "resetGet"
    BY <1>0, <1>5 DEF Reset, Goto, Job
  <2>2. job[p].pc \notin VerdictPC /\ UNCHANGED <<active, deflt>>
    BY <1>5 DEF Reset, At, redis, VerdictPC
  <2> HIDE DEF j
  <2> QED
    BY <1>0, <2>1, <2>2, QuietRequest DEF Restoring
<1>2. ASSUME NEW b \in Bucket, NEW q \in Profile, NEW s \in Signal, Feedback(p, b, q, s)
      PROVE  VerdictInv'
  <2> DEFINE v == Verdict(Credited(active[p][b], q, s), q)
  <2>1. UNCHANGED deflt /\ \A u \in Thread : u # p => job'[u] = job[u]
    BY <1>0, <1>2 DEF Feedback, redis
  <2>2. job'[p].pc \in {"idle", v}
    BY <1>0, <1>2 DEF Feedback, Idle
  <2>3. v \in {"idle", "rollbackGet", "promote", "log"}
    BY DEF Verdict
  <2> HIDE DEF v
  <2>4. job'[p].pc \notin Restoring
    BY <2>2, <2>3 DEF Restoring
  <2>5. DefaultsOK'
    BY <1>0, <2>1, <2>4, DefaultsStep
  <2> QED
    BY <1>0, <1>2, <2>5, FeedbackVerdicts DEF VerdictInv
<1> QED
  BY <1>1, <1>2, <1>3, <1>4, <1>5 DEF Request

(* Resets end no experiment before they delete every slot of the process.  *)
LEMMA WriteStepVerdicts ==
    ASSUME TypeOK, VerdictInv, NEW p \in Proc, WriteStep(p)
    PROVE  VerdictInv'
<1>0. /\ job \in [Thread -> Job] /\ JobOK /\ SlotsOK /\ DefaultsOK /\ p \in Thread
      /\ deflt \in CompiledSet \cup {NoProfile} /\ Idle.pc \notin Restoring
  BY DEF TypeOK, JobOK, VerdictInv, DefaultsOK, Thread, Idle, Restoring
<1>1. DefaultsOK'
  <2>1. UNCHANGED deflt
    BY DEF WriteStep, Promote, PromoteLost, RollbackGet, RollbackSet, Log,
           ResetGet, ResetSet, ResetLog, redis
  <2>2. CASE RollbackGet(p) \/ ResetGet(p)
    <3>1. PICK label \in {"rollbackSet", "resetSet"}, q \in CompiledSet :
             GotoWith(p, label, q)
      BY <1>0, <2>2, LoadDefaultIsCompiled DEF RollbackGet, ResetGet
    <3> QED
      BY <1>0, <2>1, <3>1, Moves, DefaultsStep
  <2>3. CASE ~(RollbackGet(p) \/ ResetGet(p))
    <3>1. Done(p) \/ Goto(p, "log") \/ Goto(p, "resetLog")
      BY <2>3 DEF WriteStep, Promote, PromoteLost, Stays, RollbackSet, Log, ResetSet,
                  ResetLog
    <3> QED
      BY <1>0, <2>1, <3>1, Moves, DefaultsStep DEF Restoring
  <2> QED
    BY <2>2, <2>3
<1>2. CASE job[p].pc \in VerdictPC
  BY <1>0, <1>1, <1>2, VerdictSteps DEF VerdictInv
<1>3. CASE job[p].pc \notin VerdictPC
  <2>1. CASE ResetGet(p) \/ ResetSet(p)
    <3>1. UNCHANGED active
      BY <2>1 DEF ResetGet, ResetSet, redis
    <3>2. Done(p) \/ Goto(p, "resetLog") \/ \E q : GotoWith(p, "resetSet", q)
      BY <2>1 DEF ResetGet, ResetSet, LoadDefault
    <3>3. CASE Done(p)
      <4>1. job' = [job EXCEPT ![p] = Idle] /\ Idle.pc # "promote"
        BY <3>3 DEF Done, Idle
      <4>2. SlotsOK'
        BY <1>0, <1>3, <3>1, <4>1, QuietMove
      <4> QED
        BY <1>1, <4>2 DEF VerdictInv
    <3>4. CASE Goto(p, "resetLog")
      <4>1. SlotsOK'
        BY <1>0, <1>3, <3>1, <3>4, GotoQuiet DEF WritePC
      <4> QED
        BY <1>1, <4>1 DEF VerdictInv
    <3>5. CASE \E q : GotoWith(p, "resetSet", q)
      <4>1. SlotsOK'
        BY <1>0, <1>3, <3>1, <3>5, GotoQuiet DEF WritePC
      <4> QED
        BY <1>1, <4>1 DEF VerdictInv
    <3> QED
      BY <3>2, <3>3, <3>4, <3>5
  <2>2. CASE ResetLog(p)
    <3>1. /\ active' = [active EXCEPT ![p] = [b \in Bucket |-> NoCandidate]]
          /\ job' = [job EXCEPT ![p] = Idle]
      BY <2>2 DEF ResetLog, Done
    <3>2. /\ \A r \in Proc, b \in Bucket : Untouched(r, b)
          /\ \A r \in Proc : r # p => active'[r] = active[r]
      BY <3>1 DEF Untouched, TypeOK
    <3>3. SlotsOK'
      BY <1>0, <1>3, <3>1, <3>2, QuietStep DEF Idle
    <3> QED
      BY <1>1, <3>3 DEF VerdictInv
  <2> QED
    BY <1>3, <2>1, <2>2 DEF WriteStep, Promote, PromoteLost, RollbackGet, RollbackSet,
                           Log, At, VerdictPC
<1> QED
  BY <1>2, <1>3

LEMMA RestartVerdicts ==
    ASSUME TypeOK, VerdictInv, NEW p \in Proc, Restart(p)
    PROVE  VerdictInv'
<1>1. \A t \in Thread : job'[t] \in {WarmUp, Idle, job[t]}
  BY DEF Restart
<1>2. \A r \in Proc : r # p => job'[r] = job[r] /\ active'[r] = active[r]
  BY ConstantsAssumption DEF Restart, Thread, TypeOK
<1>3. \A b \in Bucket : active'[p][b] = NoCandidate
  BY DEF Restart, TypeOK
<1>4. job'[p] = WarmUp
  BY DEF Restart, Thread
<1>5. DefaultsOK'
  BY <1>1 DEF VerdictInv, DefaultsOK, Restart, redis, WarmUp, Idle, Restoring, CompiledSet
<1>6. SlotsOK'
  <2>1. ASSUME NEW r \in Proc, r # p
        PROVE  PromotionOK(r)' /\ \A b \in Bucket : SlotOK(r, b)'
    BY <1>2, <2>1 DEF VerdictInv, SlotsOK, PromotionOK, SlotOK, Concluding, At
  <2>2. PromotionOK(p)' /\ \A b \in Bucket : SlotOK(p, b)'
    BY <1>3, <1>4 DEF PromotionOK, SlotOK, At, WarmUp
  <2> QED
    BY <2>1, <2>2 DEF SlotsOK
<1> QED
  BY <1>5, <1>6 DEF VerdictInv

LEMMA VerdictsStay == TypeOK /\ VerdictInv /\ [Next]_vars => VerdictInv'
<1> SUFFICES ASSUME TypeOK, VerdictInv, [Next]_vars PROVE VerdictInv'
  OBVIOUS
<1>1. ASSUME NEW t \in Thread, NEW b \in Bucket, Stats(t, b) PROVE VerdictInv'
  <2> DEFINE h == b # Global
             j == [job[t] EXCEPT !.pc = "get", !.op = "stats", !.bucket = b, !.hot = h]
  <2>1. /\ job' = [job EXCEPT ![t] = j] /\ job \in [Thread -> Job]
        /\ job[t].pc \notin VerdictPC /\ UNCHANGED <<active, deflt>>
    BY <1>1 DEF Stats, TypeOK, JobOK, At, VerdictPC, redis
  <2> HIDE DEF h
  <2>2. j.pc = "get"
    BY <2>1 DEF Job
  <2> HIDE DEF j
  <2> QED
    BY <2>1, <2>2, QuietRequest DEF Restoring
<1>2. CASE UNCHANGED vars \/ \E tr \in Bucket \X Profile : ExpireTrace(tr)
  <2>1. UNCHANGED <<active, job, deflt>>
    BY <1>2 DEF vars, ExpireTrace
  <2> QED
    BY <2>1 DEF VerdictInv, SlotsOK, PromotionOK, SlotOK, DefaultsOK, Concluding, At,
                CompiledSet
<1> QED
  BY <1>1, <1>2, RequestVerdicts, WriteStepVerdicts, RestartVerdicts, ReadStepVerdicts
     DEF Next

LEMMA VerdictsHold == Spec => []VerdictInv
<1>1. Init => VerdictInv
  <2> SUFFICES ASSUME Init PROVE VerdictInv
    OBVIOUS
  <2>1. \A t \in Thread : job[t].pc \in {"get", "idle"}
    BY DEF Init, WarmUp, Idle
  <2>2. \A p \in Proc, b \in Bucket : active[p][b] = NoCandidate
    BY DEF Init
  <2>3. DefaultsOK
    BY <2>1 DEF Init, DefaultsOK, Restoring
  <2> QED
    BY <2>1, <2>2, <2>3
       DEF VerdictInv, SlotsOK, SlotOK, PromotionOK, At, Thread
<1> QED
  BY <1>1, VerdictsStay, TypeCorrect, PTL DEF Spec

(* bandit.go:215-236: an experiment tests one dial step; the call that     *)
(* brings the last strike ends it, and so does the one that fills its      *)
(* window, unless the promotion's write fails.                             *)
THEOREM ExperimentsAreEnded == Spec => []ExperimentsEndOnTime
<1>1. TypeOK /\ VerdictInv => ExperimentsEndOnTime
  BY DEF VerdictInv, SlotsOK, SlotOK, ExperimentsEndOnTime
<1> QED
  BY <1>1, TypeCorrect, VerdictsHold, PTL

(* docs/heuristics.md:131-141: no interleaving, failing command or crash   *)
(* replaces a live profile by anything but a default, a late seed of its   *)
(* bucket, or a candidate that won over a full window.                     *)
THEOREM MovesAreEarned == Spec => LiveMovesAreEarned
<1>1. TypeOK /\ VerdictInv /\ [Next]_vars => [MoveIsEarned]_vars
  <2> SUFFICES ASSUME TypeOK, VerdictInv, [Next]_vars,
                      NEW b \in Bucket, current'[b] # current[b]
               PROVE  ~Unearned(b, current'[b])
    BY DEF MoveIsEarned
  <2>0. /\ \A t \in Thread : job[t].pc \in Restoring => job[t].carry \in CompiledSet
        /\ \A v \in CompiledSet : ~Unearned(b, v)
    BY DEF VerdictInv, DefaultsOK, Unearned, CompiledSet
  <2>1. ASSUME NEW t \in Thread, Seed(t) PROVE ~Unearned(b, current'[b])
    <3>1. current'[b] = job[t].carry /\ job[t].pc \in Restoring
      BY <2>1 DEF Seed, At, Restoring, TypeOK
    <3> QED
      BY <2>0, <3>1
  <2>2. ASSUME NEW t \in Thread, FillBucket(t) PROVE ~Unearned(b, current'[b])
    BY <2>2 DEF FillBucket, TypeOK, Unearned
  <2>3. ASSUME NEW p \in Proc, RollbackSet(p) \/ ResetSet(p)
        PROVE  ~Unearned(b, current'[b])
    <3>1. current'[b] = job[p].carry /\ job[p].pc \in Restoring /\ p \in Thread
      BY <2>3 DEF RollbackSet, ResetSet, At, Restoring, TypeOK, Thread
    <3> QED
      BY <2>0, <3>1
  <2>4. ASSUME NEW p \in Proc, Promote(p) PROVE ~Unearned(b, current'[b])
    <3>1. job[p].bucket = b /\ current'[b] = job[p].carry /\ At(p, "promote")
      BY <2>4 DEF Promote, TypeOK
    <3> QED
      BY <3>1 DEF VerdictInv, SlotsOK, PromotionOK, Unearned
  <2>5. ASSUME NEW t \in Thread, ReadStep(t) PROVE Seed(t) \/ FillBucket(t)
    BY <2>5 DEF ReadStep, GetHit, GetMiss, GetGlobal, GetError, DefaultExists,
                DefaultMissing, FreezeDefault, SetLost, redis
  <2>6. ASSUME NEW p \in Proc, WriteStep(p)
        PROVE  Promote(p) \/ RollbackSet(p) \/ ResetSet(p)
    BY <2>6 DEF WriteStep, PromoteLost, RollbackGet, Log, ResetGet, ResetLog, redis
  <2>7. ASSUME NEW p \in Proc PROVE ~(Request(p) \/ ReadSamples(p) \/ Restart(p))
    BY DEF Request, QueryGlobal, QueryTopic, Feedback, Reset, ReadSamples, Restart, redis
  <2>8. /\ ~UNCHANGED vars
        /\ ~ \E t \in Thread, d \in Bucket : Stats(t, d)
        /\ ~ \E tr \in Bucket \X Profile : ExpireTrace(tr)
    BY DEF Stats, ExpireTrace, redis, vars
  <2> QED
    BY <2>1, <2>2, <2>3, <2>4, <2>5, <2>6, <2>7, <2>8 DEF Next
<1> QED
  BY <1>1, TypeCorrect, VerdictsHold, PTL DEF Spec, LiveMovesAreEarned

-----------------------------------------------------------------------------
(***************************************************************************)
(* One process.  Nobody else writes the profiles, so what it has read of a *)
(* surface is still true when it writes it, and an experiment's base stays *)
(* live until its verdict.  A dashboard that never finds a profile missing *)
(* does not write either.                                                  *)
(***************************************************************************)
DashboardIsQuiet ==
    \A d \in Dashboard :
        /\ job[d].pc \in {"idle", "get"}
        /\ job[d].pc = "get" => current[Surface(job[d])] # NoProfile

Seeding == {"getGlobal", "seed", "exists", "freeze", "fill"}

ReadsAreCurrent(p) ==
    LET j == job[p] IN
    /\ j.pc \in {"getGlobal", "fill"} => Surface(j) # Global
    /\ j.pc \in Seeding /\ Surface(j) # Global => current[j.bucket] = NoProfile
    /\ j.pc = "seed" => current[Global] = NoProfile /\ j.carry = Compiled[p]
    /\ j.pc \in {"exists", "freeze", "fill"} => current[Global] = j.carry

BasesAreLive(p) ==
    \A b \in Bucket :
        active[p][b] # NoCandidate =>
            \/ current[b] = active[p][b].base
            \/ At(p, "log") /\ job[p].bucket = b
            \/ At(p, "resetLog")

SoloInv(p) == ReadsAreCurrent(p) /\ BasesAreLive(p)

LEMMA SurfaceOf ==
    ASSUME NEW j
    PROVE  Surface(j) # Global => Surface(j) = j.bucket /\ j.bucket # Global
BY DEF Surface

LEMMA JobType ==
    ASSUME TypeOK, NEW t \in Thread
    PROVE  /\ job[t] \in Job /\ job[t].bucket \in Bucket /\ job[t].hot \in BOOLEAN
           /\ Surface(job[t]) \in Bucket /\ Global \in Bucket
           /\ job[t].pc \in Carrying => job[t].carry \in Profile
BY DEF TypeOK, JobOK, Job, Surface, Bucket

LEMMA BaseIsProfile ==
    ASSUME TypeOK, NEW p \in Proc, NEW b \in Bucket, active[p][b] # NoCandidate
    PROVE  active[p][b].base \in Profile /\ active[p][b].base # NoProfile
BY ConstantsAssumption DEF TypeOK, Candidate

(* A process that is past its reads remembers none of them.                *)
LEMMA NoReadsPending ==
    ASSUME NEW p, job'[p].pc \notin Seeding PROVE ReadsAreCurrent(p)'
BY DEF ReadsAreCurrent, Seeding

(* An experiment that Select starts is on the surface that was read.       *)
LEMMA ReadDoneBases ==
    ASSUME TypeOK, NEW p \in Proc, NEW base \in Profile, ReadDone(p, base),
           current'[Surface(job[p])] = base,
           \A b \in Bucket : active[p][b] # NoCandidate => current'[b] = active[p][b].base
    PROVE  SoloInv(p)'
<1>0. p \in Thread /\ job[p].bucket \in Bucket /\ job[p].hot \in BOOLEAN
  BY JobType DEF Thread
<1>1. job'[p] = Idle
  BY <1>0, ReadEnds, Moves DEF TypeOK
<1>2. ReadsAreCurrent(p)'
  BY <1>1, NoReadsPending DEF Idle, Seeding
<1>3. CASE active' = active
  BY <1>2, <1>3 DEF SoloInv, BasesAreLive
<1>4. CASE active' # active
  <2>1. PICK o \in SelectOutcomes(p, job[p].bucket, base, job[p].hot) :
            active' = [active EXCEPT ![p][job[p].bucket] = o.slot]
    BY <1>4 DEF ReadDone
  <2>2. CASE o.slot = active[p][job[p].bucket]
    BY <1>2, <1>0, <2>1, <2>2 DEF SoloInv, BasesAreLive, TypeOK
  <2>3. CASE o.slot # active[p][job[p].bucket]
    <3>1. MayExplore(p, job[p].bucket, job[p].hot)
      BY <2>1, <2>3 DEF SelectOutcomes
    <3>2. Surface(job[p]) = job[p].bucket
      BY <3>1 DEF MayExplore, Surface
    <3>3. \E q \in Perturb[base] \ {base} : o.slot = Fresh(q, base)
      BY <1>0, <2>1, <2>3, SelectOutcomesType
    <3>4. o.slot.base = base
      BY <3>3, FreshOK
    <3>5. \A b \in Bucket : active'[p][b] = IF b = job[p].bucket THEN o.slot ELSE active[p][b]
      BY <1>0, <2>1 DEF TypeOK
    <3> QED
      BY <1>2, <3>2, <3>4, <3>5 DEF SoloInv, BasesAreLive
  <2> QED
    BY <2>2, <2>3
<1> QED
  BY <1>3, <1>4

LEMMA SoloReadStep ==
    ASSUME TypeOK, NEW p \in Proc, ~ReplyLost, SoloInv(p), ReadStep(p)
    PROVE  SoloInv(p)'
<1>0. /\ p \in Thread /\ JobOK /\ job[p].bucket \in Bucket /\ Surface(job[p]) \in Bucket
      /\ Global \in Bucket
      /\ job[p].pc \in Carrying => job[p].carry \in Profile
  BY JobType DEF Thread, TypeOK
<1> USE <1>0
<1>1. ASSUME job[p].pc \notin {"log", "resetLog"}
      PROVE  \A b \in Bucket : active[p][b] # NoCandidate =>
                 current[b] = active[p][b].base /\ current[b] # NoProfile
  BY <1>1, BaseIsProfile DEF SoloInv, BasesAreLive, At
<1>2. CASE GetHit(p)
  <2>1. /\ ReadDone(p, current[Surface(job[p])]) /\ current[Surface(job[p])] \in Profile
        /\ current' = current /\ job[p].pc = "get"
    BY <1>2 DEF GetHit, At, TypeOK
  <2> QED
    BY <1>1, <2>1, ReadDoneBases
<1>3. CASE GetError(p) \/ SetLost(p)
  <2>1. /\ ReadFailed(p) /\ UNCHANGED <<current, active>>
        /\ job[p].pc \notin {"log", "resetLog"}
    BY <1>3 DEF GetError, SetLost, ReadFailed
  <2>2. job'[p] = Idle
    BY <2>1, ReadEnds, Moves
  <2>3. ReadsAreCurrent(p)'
    BY <2>2, NoReadsPending DEF Idle, Seeding
  <2> QED
    BY <1>1, <2>1, <2>3 DEF SoloInv, BasesAreLive
<1>4. CASE GetMiss(p) \/ GetGlobal(p) \/ DefaultMissing(p)
  <2>1. /\ UNCHANGED <<current, active>> /\ job[p].pc \in {"get", "getGlobal", "exists"}
        /\ \/ Goto(p, "getGlobal") \/ Goto(p, "freeze")
           \/ GotoWith(p, "seed", Compiled[p]) \/ GotoWith(p, "fill", current[Global])
    BY <1>4 DEF GetMiss, GetGlobal, DefaultMissing, At, redis
  <2>2. BasesAreLive(p)'
    BY <1>1, <2>1 DEF BasesAreLive
  <2>3. /\ job'[p].bucket = job[p].bucket /\ job'[p].hot = job[p].hot
        /\ Surface(job'[p]) = Surface(job[p])
    BY <2>1, Moves DEF Surface
  <2>4. CASE GetMiss(p)
    <3>1. CASE Surface(job[p]) = Global
      <4>1. current[Global] = NoProfile /\ GotoWith(p, "seed", Compiled[p])
        BY <2>4, <3>1 DEF GetMiss
      <4>2. job'[p].pc = "seed" /\ job'[p].carry = Compiled[p]
        BY <4>1, Moves
      <4> QED
        BY <2>1, <2>2, <2>3, <3>1, <4>1, <4>2 DEF SoloInv, ReadsAreCurrent
    <3>2. CASE Surface(job[p]) # Global
      <4>1. current[job[p].bucket] = NoProfile /\ Goto(p, "getGlobal")
        BY <2>4, <3>2, SurfaceOf DEF GetMiss
      <4>2. job'[p].pc = "getGlobal"
        BY <4>1, Moves
      <4> QED
        BY <2>1, <2>2, <2>3, <3>2, <4>1, <4>2 DEF SoloInv, ReadsAreCurrent
    <3> QED
      BY <3>1, <3>2
  <2>5. CASE GetGlobal(p)
    <3>1. Surface(job[p]) # Global /\ current[job[p].bucket] = NoProfile
      BY <2>5 DEF GetGlobal, At, SoloInv, ReadsAreCurrent, Seeding
    <3>2. \/ /\ current[Global] = NoProfile
             /\ job'[p].pc = "seed" /\ job'[p].carry = Compiled[p]
          \/ job'[p].pc = "fill" /\ job'[p].carry = current[Global]
      BY <2>5, Moves DEF GetGlobal
    <3> QED
      BY <2>1, <2>2, <2>3, <3>1, <3>2 DEF SoloInv, ReadsAreCurrent
  <2>6. CASE DefaultMissing(p)
    <3>1. job[p].pc = "exists" /\ job'[p].pc = "freeze" /\ job'[p].carry = job[p].carry
      BY <2>6, Moves DEF DefaultMissing, At
    <3> QED
      BY <2>1, <2>2, <2>3, <3>1 DEF SoloInv, ReadsAreCurrent, Seeding
  <2> QED
    BY <1>4, <2>4, <2>5, <2>6
<1>5. CASE Seed(p)
  <2>1. /\ job[p].pc = "seed" /\ current' = [current EXCEPT ![Global] = job[p].carry]
        /\ Goto(p, "exists") /\ UNCHANGED active
    BY <1>5 DEF Seed, At
  <2>2. \A b \in Bucket : current'[b] = IF b = Global THEN job[p].carry ELSE current[b]
    BY <2>1 DEF TypeOK
  <2>3. current[Global] = NoProfile
    BY <2>1 DEF SoloInv, ReadsAreCurrent
  <2>4. BasesAreLive(p)'
    BY <1>1, <2>1, <2>2, <2>3 DEF BasesAreLive
  <2>5. /\ job'[p].pc = "exists" /\ job'[p].carry = job[p].carry
        /\ job'[p].bucket = job[p].bucket /\ Surface(job'[p]) = Surface(job[p])
    BY <2>1, Moves DEF Surface
  <2>6. Surface(job[p]) # Global => job[p].bucket # Global /\ current[job[p].bucket] = NoProfile
    BY <2>1, SurfaceOf DEF SoloInv, ReadsAreCurrent, Seeding
  <2>7. /\ current'[Global] = job'[p].carry
        /\ Surface(job'[p]) # Global => current'[job'[p].bucket] = NoProfile
    BY <2>2, <2>5, <2>6
  <2>8. ReadsAreCurrent(p)'
    BY <2>5, <2>7 DEF ReadsAreCurrent
  <2> QED
    BY <2>4, <2>8 DEF SoloInv
<1>6. CASE DefaultExists(p) \/ FreezeDefault(p)
  <2>0. job[p].pc \in {"exists", "freeze"} /\ current' = current /\ Seeded(p)
    BY <1>6 DEF DefaultExists, FreezeDefault, At
  <2>1. /\ job[p].pc \in {"exists", "freeze"} /\ current' = current
        /\ Seeded(p) /\ job[p].carry \in Profile
    BY <2>0 DEF Carrying
  <2>2. current[Global] = job[p].carry
    BY <2>1 DEF SoloInv, ReadsAreCurrent
  <2>3. CASE Surface(job[p]) = Global
    <3>1. ReadDone(p, job[p].carry)
      BY <2>1, <2>3 DEF Seeded
    <3> QED
      BY <1>1, <2>1, <2>2, <2>3, <3>1, ReadDoneBases
  <2>4. CASE Surface(job[p]) # Global
    <3>1. Goto(p, "fill") /\ UNCHANGED active
      BY <2>1, <2>4 DEF Seeded
    <3>2. /\ job'[p].pc = "fill" /\ job'[p].carry = job[p].carry
          /\ job'[p].bucket = job[p].bucket /\ Surface(job'[p]) = Surface(job[p])
      BY <3>1, Moves DEF Surface
    <3>3. current[job[p].bucket] = NoProfile
      BY <2>1, <2>4 DEF SoloInv, ReadsAreCurrent, Seeding
    <3>4. ReadsAreCurrent(p)'
      BY <2>1, <2>2, <2>4, <3>2, <3>3 DEF ReadsAreCurrent
    <3> QED
      BY <1>1, <2>1, <3>1, <3>4 DEF SoloInv, BasesAreLive
  <2> QED
    BY <2>3, <2>4
<1>7. CASE FillBucket(p)
  <2>0. /\ job[p].pc = "fill" /\ ReadDone(p, job[p].carry)
        /\ current' = [current EXCEPT ![job[p].bucket] = job[p].carry]
    BY <1>7 DEF FillBucket, At
  <2>1. /\ job[p].pc = "fill" /\ job[p].carry \in Profile
        /\ current' = [current EXCEPT ![job[p].bucket] = job[p].carry]
        /\ ReadDone(p, job[p].carry)
    BY <2>0 DEF Carrying
  <2>2. \A b \in Bucket : current'[b] = IF b = job[p].bucket THEN job[p].carry ELSE current[b]
    BY <2>1 DEF TypeOK
  <2>3. current[job[p].bucket] = NoProfile /\ Surface(job[p]) = job[p].bucket
    BY <2>1, SurfaceOf DEF SoloInv, ReadsAreCurrent, Seeding
  <2>4. \A b \in Bucket : active[p][b] # NoCandidate => current'[b] = active[p][b].base
    BY <1>1, <2>1, <2>2, <2>3
  <2> QED
    BY <2>1, <2>2, <2>3, <2>4, ReadDoneBases
<1> QED
  BY <1>2, <1>3, <1>4, <1>5, <1>6, <1>7 DEF ReadStep

LEMMA SoloWriteStep ==
    ASSUME TypeOK, NEW p \in Proc, ~ReplyLost, SoloInv(p), WriteStep(p)
    PROVE  SoloInv(p)'
<1>0. p \in Thread /\ JobOK /\ job[p].bucket \in Bucket
  BY JobType DEF Thread, TypeOK
<1> USE <1>0
<1>1. CASE Promote(p) \/ RollbackSet(p)
  <2>1. /\ job[p].pc \in {"promote", "rollbackSet"} /\ UNCHANGED active /\ Goto(p, "log")
        /\ \A b \in Bucket : b # job[p].bucket => current'[b] = current[b]
    BY <1>1 DEF Promote, RollbackSet, At, TypeOK
  <2>2. job'[p].pc = "log" /\ job'[p].bucket = job[p].bucket
    BY <2>1, Moves
  <2>3. BasesAreLive(p)'
    BY <2>1, <2>2 DEF SoloInv, BasesAreLive, At
  <2> QED
    BY <2>2, <2>3, NoReadsPending DEF SoloInv, Seeding
<1>5. CASE PromoteLost(p)
  <2>1. /\ UNCHANGED current /\ job[p].pc = "promote" /\ Done(p)
        /\ active' = [active EXCEPT ![p][job[p].bucket]
                         = Unconfirmed(active[p][job[p].bucket])]
    BY <1>5 DEF PromoteLost, Stays, At, redis, TypeOK
  <2>2. job'[p].pc = "idle"
    BY <2>1, Moves DEF Idle
  <2>3. ASSUME NEW b \in Bucket
        PROVE  /\ (active'[p][b] = NoCandidate) <=> (active[p][b] = NoCandidate)
               /\ active[p][b] # NoCandidate => active'[p][b].base = active[p][b].base
    <3>1. active[p][b] \in Candidate \cup {NoCandidate}
      BY DEF TypeOK
    <3>2. active'[p][b] \in {active[p][b], Unconfirmed(active[p][b])}
      BY <2>1 DEF TypeOK
    <3> QED
      BY <3>1, <3>2, UnconfirmedIsCandidate
  <2>4. BasesAreLive(p)'
    BY <2>1, <2>3 DEF SoloInv, BasesAreLive, At
  <2> QED
    BY <2>2, <2>4, NoReadsPending DEF SoloInv, Seeding
<1>2. CASE RollbackGet(p) \/ ResetGet(p)
  <2>1. /\ UNCHANGED <<active, current>>
        /\ job[p].pc \in {"rollbackGet", "resetGet"}
        /\ \E q : GotoWith(p, "rollbackSet", q) \/ GotoWith(p, "resetSet", q)
    BY <1>2 DEF RollbackGet, ResetGet, LoadDefault, At, redis
  <2>2. job'[p].pc \in {"rollbackSet", "resetSet"}
    BY <2>1, Moves
  <2>3. BasesAreLive(p)'
    BY <2>1 DEF SoloInv, BasesAreLive, At
  <2> QED
    BY <2>2, <2>3, NoReadsPending DEF SoloInv, Seeding
<1>3. CASE ResetSet(p)
  <2>1. /\ job[p].pc = "resetSet" /\ UNCHANGED active
        /\ Goto(p, "resetLog") \/ (Done(p) /\ UNCHANGED current)
    BY <1>3 DEF ResetSet, At
  <2>2. job'[p].pc = "resetLog" \/ (job'[p].pc = "idle" /\ UNCHANGED current)
    BY <2>1, Moves DEF Idle
  <2>3. BasesAreLive(p)'
    BY <2>1, <2>2 DEF SoloInv, BasesAreLive, At
  <2> QED
    BY <2>2, <2>3, NoReadsPending DEF SoloInv, Seeding
<1>4. CASE Log(p) \/ ResetLog(p)
  <2>1. /\ job[p].pc \in {"log", "resetLog"} /\ UNCHANGED current /\ Done(p)
        /\ \/ job[p].pc = "resetLog" /\ \A b \in Bucket : active'[p][b] = NoCandidate
           \/ /\ job[p].pc = "log"
              /\ \A b \in Bucket :
                    active'[p][b] = IF b = job[p].bucket THEN NoCandidate ELSE active[p][b]
    BY <1>4 DEF Log, ResetLog, At, TypeOK
  <2>2. job'[p].pc = "idle"
    BY <2>1, Moves DEF Idle
  <2>3. BasesAreLive(p)'
    BY <2>1 DEF SoloInv, BasesAreLive, At
  <2> QED
    BY <2>2, <2>3, NoReadsPending DEF SoloInv, Seeding
<1> QED
  BY <1>1, <1>2, <1>3, <1>4, <1>5 DEF WriteStep

(* A request that reads the live profile starts with its first read.       *)
LEMMA ReadingBegins ==
    ASSUME NEW p \in Thread, job \in [Thread -> Job],
           \/ QueryGlobal(p) \/ \E b \in Topic : QueryTopic(p, b)
           \/ ReadSamples(p) \/ \E b \in Bucket : Stats(p, b)
    PROVE  job'[p].pc \in {"get", "samples"}
<1>1. CASE QueryGlobal(p)
  <2> DEFINE j == [job[p] EXCEPT !.pc = "get", !.op = "query"]
  <2>1. job' = [job EXCEPT ![p] = j] /\ j.pc = "get"
    BY <1>1 DEF QueryGlobal, Job
  <2> QED
    BY <2>1
<1>2. CASE \E b \in Topic : QueryTopic(p, b)
  <2>1. PICK b \in Topic : QueryTopic(p, b)
    BY <1>2
  <2> DEFINE j == [job[p] EXCEPT !.pc = "samples", !.op = "query", !.bucket = b]
  <2>2. job' = [job EXCEPT ![p] = j] /\ j.pc = "samples"
    BY <2>1 DEF QueryTopic, Job
  <2> QED
    BY <2>2
<1>3. CASE ReadSamples(p)
  <2>1. PICK n : job' = [job EXCEPT ![p].pc = "get", ![p].hot = n >= SampleFloor]
    BY <1>3 DEF ReadSamples
  <2> DEFINE j == [job[p] EXCEPT !.pc = "get", !.hot = n >= SampleFloor]
  <2>2. job' = [job EXCEPT ![p] = j] /\ j.pc = "get"
    BY <2>1 DEF Job
  <2> QED
    BY <2>2
<1>4. CASE \E b \in Bucket : Stats(p, b)
  <2>1. PICK b \in Bucket : Stats(p, b)
    BY <1>4
  <2>2. PICK own \in BOOLEAN : own = (b # Global)
    OBVIOUS
  <2> DEFINE j == [job[p] EXCEPT !.pc = "get", !.op = "stats",
                                 !.bucket = b, !.hot = own]
  <2>3. job' = [job EXCEPT ![p] = j]
    BY <2>1, <2>2, Zenon DEF Stats
  <2>4. j.pc = "get"
    BY DEF Job
  <2> QED
    BY <2>3, <2>4
<1> QED
  BY <1>1, <1>2, <1>3, <1>4

(* Feedback counts a sample; the other requests only begin.                *)
LEMMA SoloRequest ==
    ASSUME TypeOK, NEW p \in Proc, SoloInv(p),
           Request(p) \/ ReadSamples(p) \/ Restart(p) \/ \E b \in Bucket : Stats(p, b)
    PROVE  SoloInv(p)'
<1>0. p \in Thread /\ JobOK /\ job \in [Thread -> Job]
  BY DEF Thread, TypeOK, JobOK
<1> USE <1>0
<1>1. CASE Restart(p)
  <2>1. job'[p] = WarmUp /\ \A b \in Bucket : active'[p][b] = NoCandidate
    BY <1>1 DEF Restart, TypeOK
  <2>2. job'[p].pc = "get"
    BY <2>1 DEF WarmUp
  <2> QED
    BY <2>1, <2>2, NoReadsPending DEF SoloInv, BasesAreLive, Seeding
<1>2. CASE \E b \in Bucket, q \in Profile, s \in Signal : Feedback(p, b, q, s)
  <2>1. PICK b \in Bucket, q \in Profile, s \in Signal : Feedback(p, b, q, s)
    BY <1>2
  <2> DEFINE c == Credited(active[p][b], q, s)
  <2>2. /\ job[p].pc = "idle" /\ UNCHANGED current
        /\ active[p][b] \in Candidate /\ active[p][b] # NoCandidate
        /\ active' = [active EXCEPT ![p][b] = c]
        /\ job' = [job EXCEPT ![p] =
                     IF Verdict(c, q) = "idle" THEN Idle
                     ELSE [pc |-> Verdict(c, q), op |-> "none", bucket |-> b,
                           hot |-> FALSE, carry |-> VerdictCarry(c, q), raw |-> s.raw]]
    BY <2>1 DEF Feedback, At, redis, TypeOK
  <2>3. c.base = active[p][b].base
    BY <2>2, CreditedIsCandidate
  <2>4. Verdict(c, q) \notin Seeding /\ "idle" \notin Seeding
    BY DEF Verdict, Seeding
  <2> HIDE DEF c
  <2>5. \A d \in Bucket : active'[p][d] = IF d = b THEN c ELSE active[p][d]
    BY <2>2 DEF TypeOK
  <2>6. job'[p].pc \notin Seeding
    BY <2>2, <2>4 DEF Idle
  <2>7. BasesAreLive(p)'
    BY <2>2, <2>3, <2>5 DEF SoloInv, BasesAreLive, At
  <2> QED
    BY <2>6, <2>7, NoReadsPending DEF SoloInv
<1>3. CASE \/ QueryGlobal(p) \/ \E b \in Topic : QueryTopic(p, b)
           \/ Reset(p) \/ ReadSamples(p) \/ \E b \in Bucket : Stats(p, b)
  <2>1. UNCHANGED <<current, active>> /\ job[p].pc \in {"idle", "samples"}
    BY <1>3 DEF QueryGlobal, QueryTopic, Reset, ReadSamples, Stats, At, redis
  <2>2. job'[p].pc \in {"get", "samples", "resetGet"}
    <3>1. CASE Reset(p)
      BY <3>1, Moves DEF Reset
    <3> QED
      BY <1>3, <3>1, ReadingBegins
  <2>3. BasesAreLive(p)'
    BY <2>1 DEF SoloInv, BasesAreLive, At
  <2> QED
    BY <2>2, <2>3, NoReadsPending DEF SoloInv, Seeding
<1> QED
  BY <1>1, <1>2, <1>3 DEF Request

(* A dashboard that misses no profile reads and no more.                   *)
LEMMA DashboardReads ==
    ASSUME TypeOK, DashboardIsQuiet, NEW d \in Dashboard,
           ReadStep(d) \/ \E b \in Bucket : Stats(d, b)
    PROVE  /\ UNCHANGED <<current, deflt, audit, active>>
           /\ \A u \in Thread : u # d => job'[u] = job[u]
<1>0. d \in Thread /\ JobOK /\ job[d].op # "query"
  BY DEF Thread, TypeOK, JobOK
<1>1. CASE \E b \in Bucket : Stats(d, b)
  BY <1>0, <1>1 DEF Stats, redis, TypeOK, JobOK
<1>2. CASE ReadStep(d)
  <2>1. job[d].pc = "get" /\ current[Surface(job[d])] # NoProfile
    BY <1>2 DEF ReadStep, GetHit, GetMiss, GetGlobal, GetError, Seed, DefaultExists,
                DefaultMissing, FreezeDefault, FillBucket, SetLost, At, DashboardIsQuiet
  <2>2. GetHit(d) \/ GetError(d)
    BY <1>2, <2>1 DEF ReadStep, GetMiss, GetGlobal, Seed, DefaultExists,
                DefaultMissing, FreezeDefault, FillBucket, SetLost, At
  <2>3. /\ ReadFailed(d) \/ \E base : ReadDone(d, base)
        /\ UNCHANGED <<current, deflt, audit>>
    BY <2>2 DEF GetHit, GetError
  <2>4. UNCHANGED active
    BY <1>0, <2>3 DEF ReadFailed, ReadDone
  <2> QED
    BY <1>0, <2>3, <2>4, ReadEnds, Moves
<1> QED
  BY <1>1, <1>2

LEMMA SoloStep ==
    ASSUME TypeOK, NEW p, Proc = {p}, ~ReplyLost, DashboardIsQuiet, SoloInv(p), [Next]_vars
    PROVE  SoloInv(p)'
<1>0. p \in Proc /\ p \in Thread /\ \A t \in Thread : t = p \/ (t \in Dashboard /\ t # p)
  BY ConstantsAssumption DEF Thread
<1>1. ASSUME UNCHANGED <<current, active>>, job'[p] = job[p] PROVE SoloInv(p)'
  BY <1>1 DEF SoloInv, ReadsAreCurrent, BasesAreLive, Surface, At
<1>2. CASE Request(p) \/ ReadSamples(p) \/ Restart(p) \/ \E b \in Bucket : Stats(p, b)
  BY <1>0, <1>2, SoloRequest
<1>3. CASE WriteStep(p)
  BY <1>0, <1>3, SoloWriteStep
<1>4. CASE ReadStep(p)
  BY <1>0, <1>4, SoloReadStep
<1>5. ASSUME NEW d \in Dashboard, ReadStep(d) \/ \E b \in Bucket : Stats(d, b)
      PROVE  SoloInv(p)'
  <2>1. UNCHANGED <<current, active>> /\ job'[p] = job[p]
    <3>1. d # p
      BY <1>0, ConstantsAssumption
    <3> QED
      BY <1>0, <1>5, <3>1, DashboardReads
  <2> QED
    BY <1>1, <2>1
<1>6. CASE \E tr \in Bucket \X Profile : ExpireTrace(tr)
  BY <1>1, <1>6 DEF ExpireTrace
<1>7. CASE UNCHANGED vars
  BY <1>1, <1>7 DEF vars
<1> QED
  BY <1>0, <1>2, <1>3, <1>4, <1>5, <1>6, <1>7 DEF Next

LEMMA SoloStarts ==
    ASSUME NEW p \in Proc, Init PROVE SoloInv(p)
<1>1. job[p] = WarmUp /\ \A b \in Bucket : active[p][b] = NoCandidate
  BY DEF Init, Thread
<1> QED
  BY <1>1 DEF SoloInv, ReadsAreCurrent, BasesAreLive, Seeding, WarmUp

(* bandit.go:160-236: with one process, whatever commands fail without     *)
(* effect and whenever it is restarted, an experiment's base is what is    *)
(* live in its bucket until the verdict is written, so that a promotion is *)
(* one dial step away from what it replaces.                               *)
THEOREM BaseStaysLive ==
    ASSUME NEW p, Proc = {p}, Dashboard = {}, "ambiguous" \notin Faults
    PROVE  Spec => []BaseIsLive
<1>0. p \in Proc /\ ~ReplyLost
  BY DEF ReplyLost
<1>1. Init => SoloInv(p)
  BY <1>0, SoloStarts
<1>2. TypeOK /\ SoloInv(p) /\ [Next]_vars => SoloInv(p)'
  BY <1>0, SoloStep DEF DashboardIsQuiet
<1>3. SoloInv(p) => BaseIsLive
  BY DEF SoloInv, BasesAreLive, BaseIsLive, At
<1> QED
  BY <1>1, <1>2, <1>3, TypeCorrect, PTL DEF Spec

(* Who writes a live profile, and what.                                    *)
LEMMA LiveWriters ==
    ASSUME [Next]_vars, current' # current
    PROVE  \/ \E t \in Thread : Seed(t) \/ FillBucket(t)
           \/ \E p \in Proc : Promote(p) \/ RollbackSet(p) \/ ResetSet(p)
<1>1. ASSUME NEW t \in Thread, ReadStep(t) PROVE Seed(t) \/ FillBucket(t)
  BY <1>1 DEF ReadStep, GetHit, GetMiss, GetGlobal, GetError, DefaultExists,
              DefaultMissing, FreezeDefault, SetLost, redis
<1>2. ASSUME NEW p \in Proc, WriteStep(p)
      PROVE  Promote(p) \/ RollbackSet(p) \/ ResetSet(p)
  BY <1>2 DEF WriteStep, PromoteLost, RollbackGet, Log, ResetGet, ResetLog, redis
<1>3. ASSUME NEW p \in Proc PROVE ~(Request(p) \/ ReadSamples(p) \/ Restart(p))
  BY DEF Request, QueryGlobal, QueryTopic, Feedback, Reset, ReadSamples, Restart, redis
<1>4. /\ ~UNCHANGED vars
      /\ ~ \E t \in Thread, d \in Bucket : Stats(t, d)
      /\ ~ \E tr \in Bucket \X Profile : ExpireTrace(tr)
  BY DEF Stats, ExpireTrace, redis, vars
<1> QED
  BY <1>1, <1>2, <1>3, <1>4 DEF Next

(* docs/heuristics.md: for one process, the intent-global profile does what*)
(* the documentation promises: it is seeded once, and then moves by one    *)
(* dial step or goes back to the default.                                  *)
THEOREM ProfilesAreTuned ==
    ASSUME NEW p, Proc = {p}, Dashboard = {}, "ambiguous" \notin Faults
    PROVE  Spec => TunedSpec
<1> DEFINE Default == Compiled[CHOOSE t \in Thread : TRUE]
<1>0. /\ p \in Proc /\ ~ReplyLost /\ Thread = {p} /\ Default = Compiled[p]
      /\ CompiledSet = {Default} /\ Global \in Bucket
  BY DEF ReplyLost, Thread, CompiledSet, Bucket
<1> HIDE DEF Default
<1>1. Init => SoloInv(p) /\ Tuned!Init
  BY <1>0, SoloStarts DEF Init, Tuned!Init
<1>2. TypeOK /\ SoloInv(p) /\ [Next]_vars => SoloInv(p)'
  BY <1>0, SoloStep DEF DashboardIsQuiet
<1>3. TypeOK /\ VerdictInv /\ SoloInv(p) /\ [Next]_vars => [Tuned!Next]_(current[Global])
  <2> SUFFICES ASSUME TypeOK, VerdictInv, SoloInv(p), [Next]_vars,
                      current'[Global] # current[Global]
               PROVE  Tuned!Next
    OBVIOUS
  <2>0. /\ p \in Thread /\ job[p].bucket \in Bucket /\ Default \in Profile
        /\ job[p].pc \in Carrying => job[p].carry \in Profile
    BY <1>0, JobType, ConstantsAssumption
  <2>1. job[p].pc \in Restoring => job[p].carry = Default
    BY <1>0 DEF VerdictInv, DefaultsOK
  <2>2. ASSUME current'[Global] = Default PROVE Tuned!Next
    BY <2>2 DEF Tuned!Next, Tuned!Seed, Tuned!Restore, Default
  <2>3. ASSUME Seed(p) \/ RollbackSet(p) \/ ResetSet(p) PROVE Tuned!Next
    <3>1. job[p].carry = Default
      BY <2>1, <2>3 DEF Seed, RollbackSet, ResetSet, At, Restoring
    <3>2. current'[Global] = Default
      BY <1>0, <2>0, <2>3, <3>1 DEF Seed, RollbackSet, ResetSet, TypeOK
    <3> QED
      BY <2>2, <3>2
  <2>4. ~FillBucket(p)
    <3> SUFFICES ASSUME FillBucket(p) PROVE FALSE
      OBVIOUS
    <3>1. job[p].pc = "fill" /\ current' = [current EXCEPT ![job[p].bucket] = job[p].carry]
      BY DEF FillBucket, At
    <3>2. job[p].bucket # Global
      BY <3>1, SurfaceOf DEF SoloInv, ReadsAreCurrent
    <3> QED
      BY <1>0, <3>1, <3>2 DEF TypeOK
  <2>5. CASE Promote(p)
    <3> DEFINE c == active[p][Global]
    <3>1. /\ job[p].pc = "promote" /\ job[p].bucket = Global
          /\ current'[Global] = job[p].carry
      BY <2>0, <2>5 DEF Promote, At, TypeOK
    <3>2. c # NoCandidate /\ job[p].carry = c.profile
      BY <1>0, <3>1 DEF VerdictInv, SlotsOK, PromotionOK, At
    <3>3. c.profile \in Perturb[c.base]
      BY <1>0, <3>2 DEF VerdictInv, SlotsOK, SlotOK
    <3>4. current[Global] = c.base /\ c.base # NoProfile
      BY <1>0, <3>1, <3>2, BaseIsProfile DEF SoloInv, BasesAreLive, At
    <3>5. Tuned!Tune
      BY <3>1, <3>2, <3>3, <3>4 DEF Tuned!Tune
    <3> QED
      BY <3>5 DEF Tuned!Next
  <2> QED
    BY <1>0, <2>3, <2>4, <2>5, LiveWriters
<1> QED
  BY <1>1, <1>2, <1>3, TypeCorrect, VerdictsHold, PTL DEF Spec, TunedSpec, Tuned!Spec

-----------------------------------------------------------------------------
(***************************************************************************)
(* The history.  While nothing fails, one process logs every write before  *)
(* it takes its next request.                                              *)
(***************************************************************************)
Recording(p, b) == job[p].bucket = b /\ job[p].pc \in {"log", "resetLog"}

RecordInv(p) ==
    /\ \A b \in Bucket : audit[b] # NoProfile => current[b] = audit[b] \/ Recording(p, b)
    /\ job[p].pc \in {"log", "resetLog"} => current[job[p].bucket] = job[p].carry
    /\ job[p].pc \in {"idle", "resetGet", "resetSet", "resetLog"} => job[p].bucket = Global

(* A step that neither writes a profile nor starts to log one.             *)
LEMMA QuietRecord ==
    ASSUME NEW p, RecordInv(p), UNCHANGED <<current, audit>>,
           job[p].pc \notin {"log", "resetLog"}, job'[p].pc \notin {"log", "resetLog"},
           job'[p].pc \in {"idle", "resetGet", "resetSet"} => job'[p].bucket = Global
    PROVE  RecordInv(p)'
BY DEF RecordInv, Recording

LEMMA RecordReadStep ==
    ASSUME TypeOK, NEW p \in Proc, SoloInv(p), RecordInv(p), Faults = {}, ReadStep(p)
    PROVE  RecordInv(p)'
<1>0. p \in Thread /\ JobOK /\ ~Failing /\ ~ReplyLost
  BY DEF Thread, TypeOK, Failing, ReplyLost
<1>1. ASSUME ReadFailed(p) \/ \E base : ReadDone(p, base)
      PROVE  job'[p].pc = "idle" /\ job'[p].bucket = Global
  BY <1>0, <1>1, ReadEnds, Moves DEF Idle
<1>2. /\ UNCHANGED audit /\ job[p].pc \in ReadPC
      /\ \/ job'[p].pc \in ReadPC
         \/ job'[p].pc = "idle" /\ job'[p].bucket = Global
  BY <1>0, <1>1, Moves
     DEF ReadStep, GetHit, GetMiss, GetGlobal, GetError, Seed, Seeded, DefaultExists,
         DefaultMissing, FreezeDefault, FillBucket, SetLost, At, redis, ReadPC
<1>3. \/ UNCHANGED current
      \/ \E b \in Bucket : /\ current[b] = NoProfile
                          /\ \A d \in Bucket : d # b => current'[d] = current[d]
  <2>1. CASE Seed(p)
    BY <2>1, JobType, <1>0 DEF Seed, At, SoloInv, ReadsAreCurrent, TypeOK
  <2>2. CASE FillBucket(p)
    <3>1. job[p].pc = "fill" /\ current' = [current EXCEPT ![job[p].bucket] = job[p].carry]
      BY <2>2 DEF FillBucket, At
    <3>2. current[job[p].bucket] = NoProfile
      BY <3>1 DEF SoloInv, ReadsAreCurrent, Seeding
    <3> QED
      BY <3>1, <3>2, JobType, <1>0 DEF TypeOK
  <2> QED
    BY <2>1, <2>2 DEF ReadStep, GetHit, GetMiss, GetGlobal, GetError, DefaultExists,
                      DefaultMissing, FreezeDefault, SetLost, redis
<1>4. \A b \in Bucket : audit'[b] # NoProfile => current'[b] = audit'[b]
  BY <1>2, <1>3 DEF RecordInv, Recording, ReadPC
<1> QED
  BY <1>2, <1>4 DEF RecordInv, ReadPC

LEMMA RecordWriteStep ==
    ASSUME TypeOK, NEW p \in Proc, RecordInv(p), Faults = {}, WriteStep(p)
    PROVE  RecordInv(p)'
<1>0. p \in Thread /\ JobOK /\ ~Failing /\ ~ReplyLost /\ job[p].bucket \in Bucket
  BY JobType DEF Thread, TypeOK, Failing, ReplyLost
<1>1. CASE Promote(p) \/ RollbackSet(p) \/ ResetSet(p)
  <2>1. /\ job[p].pc \in {"promote", "rollbackSet", "resetSet"}
        /\ job[p].pc = "resetSet" => job[p].bucket = Global
    BY <1>1 DEF Promote, RollbackSet, ResetSet, At, RecordInv
  <2>2. /\ current' = [current EXCEPT ![job[p].bucket] = job[p].carry] /\ UNCHANGED audit
        /\ \/ job[p].pc # "resetSet" /\ Goto(p, "log")
           \/ job[p].pc = "resetSet" /\ Goto(p, "resetLog")
    BY <1>0, <1>1, <2>1 DEF Promote, RollbackSet, ResetSet, At
  <2>3. /\ job'[p].pc \in {"log", "resetLog"}
        /\ job'[p].pc = "resetLog" => job[p].pc = "resetSet"
        /\ job'[p].bucket = job[p].bucket /\ job'[p].carry = job[p].carry
    BY <1>0, <2>2, Moves
  <2>4. \A b \in Bucket :
           current'[b] = IF b = job[p].bucket THEN job[p].carry ELSE current[b]
    BY <2>2 DEF TypeOK
  <2>5. \A b \in Bucket : audit[b] # NoProfile => current[b] = audit[b]
    BY <2>1 DEF RecordInv, Recording
  <2> QED
    BY <1>0, <2>1, <2>2, <2>3, <2>4, <2>5 DEF RecordInv, Recording
<1>2. CASE RollbackGet(p) \/ ResetGet(p)
  <2>1. /\ UNCHANGED <<current, audit>> /\ job[p].pc \in {"rollbackGet", "resetGet"}
        /\ \/ \E q : GotoWith(p, "rollbackSet", q)
           \/ job[p].pc = "resetGet" /\ \E q : GotoWith(p, "resetSet", q)
    BY <1>2 DEF RollbackGet, ResetGet, LoadDefault, At, redis
  <2>2. /\ job'[p].pc \in {"rollbackSet", "resetSet"} /\ job'[p].bucket = job[p].bucket
        /\ job'[p].pc = "resetSet" => job[p].pc = "resetGet"
    BY <1>0, <2>1, Moves
  <2> QED
    BY <2>1, <2>2, QuietRecord DEF RecordInv
<1>3. CASE Log(p) \/ ResetLog(p)
  <2>1. /\ job[p].pc \in {"log", "resetLog"} /\ UNCHANGED current /\ Done(p)
        /\ job[p].pc = "resetLog" => job[p].bucket = Global
        /\ audit' = [audit EXCEPT ![job[p].bucket] = job[p].carry]
    BY <1>0, <1>3 DEF Log, ResetLog, At, RecordInv
  <2>2. job'[p].pc = "idle" /\ job'[p].bucket = Global
    BY <1>0, <2>1, Moves DEF Idle
  <2>3. \A b \in Bucket :
           audit'[b] = IF b = job[p].bucket THEN job[p].carry ELSE audit[b]
    BY <2>1 DEF TypeOK
  <2>4. \A b \in Bucket : audit'[b] # NoProfile => current'[b] = audit'[b]
    BY <2>1, <2>3 DEF RecordInv, Recording
  <2> QED
    BY <2>2, <2>4 DEF RecordInv
<1>4. ~PromoteLost(p)
  BY <1>0 DEF PromoteLost
<1> QED
  BY <1>1, <1>2, <1>3, <1>4 DEF WriteStep

(* An experiment given up leaves its base live, and is logged as such.      *)
LEMMA RecordRequest ==
    ASSUME TypeOK, NEW p \in Proc, SoloInv(p), RecordInv(p),
           Request(p) \/ ReadSamples(p) \/ \E b \in Bucket : Stats(p, b)
    PROVE  RecordInv(p)'
<1>0. p \in Thread /\ JobOK /\ job \in [Thread -> Job]
  BY DEF Thread, TypeOK, JobOK
<1>1. UNCHANGED <<current, audit>> /\ job[p].pc \in {"idle", "samples"}
  BY DEF Request, QueryGlobal, QueryTopic, Feedback, Reset, ReadSamples, Stats, At, redis
<1>2. CASE Reset(p)
  <2>1. job[p].pc = "idle" /\ Goto(p, "resetGet")
    BY <1>2 DEF Reset, At
  <2>2. job'[p].pc = "resetGet" /\ job'[p].bucket = Global
    BY <1>0, <2>1, Moves DEF RecordInv
  <2> QED
    BY <1>1, <2>2, QuietRecord
<1>3. CASE \E b \in Bucket, q \in Profile, s \in Signal : Feedback(p, b, q, s)
  <2>1. PICK b \in Bucket, q \in Profile, s \in Signal : Feedback(p, b, q, s)
    BY <1>3
  <2> DEFINE v == Verdict(Credited(active[p][b], q, s), q)
             w == VerdictCarry(Credited(active[p][b], q, s), q)
  <2>2. /\ job' = [job EXCEPT ![p] = IF v = "idle" THEN Idle
                    ELSE [pc |-> v, op |-> "none", bucket |-> b,
                          hot |-> FALSE, carry |-> w, raw |-> s.raw]]
        /\ job[p].pc = "idle" /\ active[p][b] \in Candidate /\ active[p][b] # NoCandidate
    BY <2>1 DEF Feedback, At, TypeOK
  <2>3. v \in {"idle", "promote", "rollbackGet", "log"}
    BY <2>1, <2>2, CreditedIsCandidate, VerdictType
  <2>4. v = "log" => w = active[p][b].base
    <3>1. Credited(active[p][b], q, s).base = active[p][b].base
      BY <2>1, <2>2, CreditedIsCandidate
    <3>2. v = "log" => w = Credited(active[p][b], q, s).base
      BY DEF VerdictCarry
    <3> QED
      BY <3>1, <3>2
  <2>5. active[p][b].base = current[b]
    BY <2>2 DEF SoloInv, BasesAreLive, At
  <2> HIDE DEF v, w
  <2>6. /\ job'[p].pc \in {"idle", "promote", "rollbackGet", "log"}
        /\ job'[p].pc = "idle" => job'[p].bucket = Global
        /\ job'[p].pc = "log" => v = "log" /\ job'[p].bucket = b /\ job'[p].carry = w
    BY <1>0, <2>2, <2>3 DEF Idle
  <2>7. \A d \in Bucket : audit'[d] # NoProfile => current'[d] = audit'[d]
    BY <1>1 DEF RecordInv, Recording
  <2> QED
    BY <1>1, <2>4, <2>5, <2>6, <2>7 DEF RecordInv
<1>4. CASE \/ QueryGlobal(p) \/ \E b \in Topic : QueryTopic(p, b)
           \/ ReadSamples(p) \/ \E b \in Bucket : Stats(p, b)
  <2>1. job'[p].pc \in {"get", "samples"}
    BY <1>0, <1>4, ReadingBegins
  <2> QED
    BY <1>1, <2>1, QuietRecord
<1> QED
  BY <1>2, <1>3, <1>4 DEF Request

(* bandit.go:215-250: while nothing fails and no process dies, the newest  *)
(* history entry of a surface tells what is live on it whenever the        *)
(* process is not writing it.                                              *)
THEOREM HistoryTellsLive ==
    ASSUME NEW p, Proc = {p}, Dashboard = {}, Faults = {}
    PROVE  Spec => []AuditMatchesLive
<1>0. p \in Proc /\ Thread = {p} /\ ~ReplyLost /\ p \in Thread
  BY DEF ReplyLost, Thread
<1>1. Init => SoloInv(p) /\ RecordInv(p)
  <2> SUFFICES ASSUME Init PROVE RecordInv(p)
    BY <1>0, SoloStarts
  <2>1. job[p] = WarmUp /\ \A b \in Bucket : audit[b] = NoProfile
    BY <1>0 DEF Init
  <2> QED
    BY <2>1 DEF RecordInv, WarmUp
<1>2. TypeOK /\ SoloInv(p) /\ [Next]_vars => SoloInv(p)'
  BY <1>0, SoloStep DEF DashboardIsQuiet
<1>3. TypeOK /\ SoloInv(p) /\ RecordInv(p) /\ [Next]_vars => RecordInv(p)'
  <2> SUFFICES ASSUME TypeOK, SoloInv(p), RecordInv(p), [Next]_vars PROVE RecordInv(p)'
    OBVIOUS
  <2>1. CASE Request(p) \/ ReadSamples(p) \/ \E b \in Bucket : Stats(p, b)
    BY <1>0, <2>1, RecordRequest
  <2>2. CASE WriteStep(p)
    BY <1>0, <2>2, RecordWriteStep
  <2>3. CASE ReadStep(p)
    BY <1>0, <2>3, RecordReadStep
  <2>4. ~Restart(p)
    BY DEF Restart
  <2>5. CASE UNCHANGED vars \/ \E tr \in Bucket \X Profile : ExpireTrace(tr)
    BY <2>5 DEF ExpireTrace, vars, RecordInv, Recording
  <2> QED
    BY <1>0, <2>1, <2>2, <2>3, <2>4, <2>5 DEF Next
<1>4. RecordInv(p) => AuditMatchesLive
  BY <1>0 DEF RecordInv, Recording, AuditMatchesLive, Writing, WritePC
<1> QED
  BY <1>1, <1>2, <1>3, <1>4, TypeCorrect, PTL DEF Spec

-----------------------------------------------------------------------------
(***************************************************************************)
(* The frozen default.  While nothing fails, nobody serves a request       *)
(* before the intent-global profile exists, and the thread that created it *)
(* goes on to freeze it.  Any number of processes and dashboards.          *)
(***************************************************************************)
Freezing(t) == job[t].pc \in {"exists", "freeze"}

(* Past the warm-up, or a dashboard at work.                               *)
ServesReads(t) ==
    \/ t \in Proc /\ job[t].op # "warm"
    \/ t \in Dashboard /\ job[t].pc # "idle"

ThreadSeeds(t) ==
    LET j == job[t] IN
    /\ ServesReads(t) \/ Freezing(t) => current[Global] # NoProfile
    /\ j.pc \in {"idle", "samples"} \cup WritePC => j.op # "warm"
    /\ j.pc \in {"samples"} \cup WritePC => t \in Proc
    /\ j.op = "warm" => j.bucket = Global /\ t \in Proc
    /\ j.pc \in {"getGlobal", "fill"} => Surface(j) # Global

SeedInv == (\A t \in Thread : ThreadSeeds(t)) /\ FrozenDefaultExists

(* What a step of one thread has to keep.                                  *)
LEMMA SeedStep ==
    ASSUME SeedInv, NEW t \in Thread, ThreadSeeds(t)',
           \A u \in Thread : u # t => job'[u] = job[u],
           current[Global] # NoProfile => current'[Global] # NoProfile,
           \/ deflt' # NoProfile
           \/ deflt' = deflt /\ Freezing(t)'
           \/ deflt' = deflt /\ ~Freezing(t) /\ (current[Global] = NoProfile
                                                 => current'[Global] = NoProfile)
    PROVE  SeedInv'
<1>1. ASSUME NEW u \in Thread PROVE ThreadSeeds(u)'
  BY DEF SeedInv, ThreadSeeds, ServesReads, Freezing, Surface
<1>2. FrozenDefaultExists'
  BY DEF SeedInv, FrozenDefaultExists, Freezing
<1> QED
  BY <1>1, <1>2 DEF SeedInv

LEMMA MovesKeep ==
    ASSUME JobOK, NEW t \in Thread, NEW label, Goto(t, label) \/ \E q : GotoWith(t, label, q)
    PROVE  /\ job'[t].pc = label /\ job'[t].op = job[t].op
           /\ job'[t].bucket = job[t].bucket /\ Surface(job'[t]) = Surface(job[t])
           /\ \A u \in Thread : u # t => job'[u] = job[u]
<1>0. job \in [Thread -> Job]
  BY DEF JobOK
<1>1. CASE Goto(t, label)
  <2> DEFINE j == [job[t] EXCEPT !.pc = label]
  <2>1. job' = [job EXCEPT ![t] = j]
    BY <1>1 DEF Goto
  <2>2. /\ j.pc = label /\ j.op = job[t].op /\ j.bucket = job[t].bucket
        /\ Surface(j) = Surface(job[t])
    BY <1>0 DEF Job, Surface
  <2> HIDE DEF j
  <2> QED
    BY <1>0, <2>1, <2>2
<1>2. ASSUME NEW q, GotoWith(t, label, q)
      PROVE  /\ job'[t].pc = label /\ job'[t].op = job[t].op
             /\ job'[t].bucket = job[t].bucket /\ Surface(job'[t]) = Surface(job[t])
             /\ \A u \in Thread : u # t => job'[u] = job[u]
  <2> DEFINE j == [job[t] EXCEPT !.pc = label, !.carry = q]
  <2>1. job' = [job EXCEPT ![t] = j]
    BY <1>2 DEF GotoWith
  <2>2. /\ j.pc = label /\ j.op = job[t].op /\ j.bucket = job[t].bucket
        /\ Surface(j) = Surface(job[t])
    BY <1>0 DEF Job, Surface
  <2> HIDE DEF j
  <2> QED
    BY <1>0, <2>1, <2>2
<1> QED
  BY <1>1, <1>2

(* A read can only end once the intent-global profile exists.              *)
LEMMA ReadEndSeeds ==
    ASSUME TypeOK, SeedInv, NEW t \in Thread, NEW base, ReadDone(t, base),
           current'[Global] # NoProfile,
           deflt' # NoProfile \/ (deflt' = deflt /\ ~Freezing(t)
                                  /\ current[Global] # NoProfile)
    PROVE  SeedInv'
<1>1. job'[t] = Idle /\ \A u \in Thread : u # t => job'[u] = job[u]
  BY ReadEnds, Moves DEF TypeOK
<1>2. ThreadSeeds(t)'
  BY <1>1 DEF ThreadSeeds, ServesReads, Idle, Freezing, WritePC
<1> QED
  BY <1>1, <1>2, SeedStep

LEMMA SeedReadStep ==
    ASSUME TypeOK, SeedInv, NEW t \in Thread, Faults = {}, ReadStep(t)
    PROVE  SeedInv'
<1>0. /\ JobOK /\ ~Failing /\ ~ReplyLost /\ ThreadSeeds(t)
      /\ Global \in Bucket /\ job[t].bucket \in Bucket /\ Surface(job[t]) \in Bucket
      /\ NoProfile \notin Profile
      /\ job[t].pc \in Carrying => job[t].carry \in Profile
  BY JobType, ConstantsAssumption DEF TypeOK, SeedInv, Failing, ReplyLost
<1> USE <1>0
<1>1. CASE GetHit(t)
  <2>1. /\ job[t].pc = "get" /\ current[Surface(job[t])] # NoProfile
        /\ ReadDone(t, current[Surface(job[t])]) /\ UNCHANGED <<current, deflt>>
    BY <1>1 DEF GetHit, At
  <2>2. current[Global] # NoProfile
    BY <2>1 DEF ThreadSeeds, ServesReads, Surface, Thread
  <2> QED
    BY <2>1, <2>2, ReadEndSeeds DEF Freezing
<1>2. CASE GetMiss(t) \/ GetGlobal(t)
  <2>1. /\ UNCHANGED <<current, deflt>> /\ job[t].pc \in {"get", "getGlobal"}
        /\ \/ \E q : GotoWith(t, "seed", q)
           \/ Surface(job[t]) # Global /\ Goto(t, "getGlobal")
           \/ Surface(job[t]) # Global /\ \E q : GotoWith(t, "fill", q)
    BY <1>2 DEF GetMiss, GetGlobal, At, redis, ThreadSeeds, ServesReads
  <2>2. /\ job'[t].pc \in {"seed", "getGlobal", "fill"} /\ job'[t].op = job[t].op
        /\ job'[t].bucket = job[t].bucket /\ Surface(job'[t]) = Surface(job[t])
        /\ job'[t].pc \in {"getGlobal", "fill"} => Surface(job[t]) # Global
        /\ \A u \in Thread : u # t => job'[u] = job[u]
    <3>1. CASE \E q : GotoWith(t, "seed", q)
      BY <3>1, MovesKeep
    <3>2. CASE Surface(job[t]) # Global /\ Goto(t, "getGlobal")
      BY <3>2, MovesKeep
    <3>3. CASE Surface(job[t]) # Global /\ \E q : GotoWith(t, "fill", q)
      BY <3>3, MovesKeep
    <3> QED
      BY <2>1, <3>1, <3>2, <3>3
  <2>3. ThreadSeeds(t)'
    BY <2>1, <2>2 DEF ThreadSeeds, ServesReads, Freezing, WritePC
  <2> QED
    BY <2>1, <2>2, <2>3, SeedStep DEF Freezing
<1>3. CASE Seed(t)
  <2>1. /\ job[t].pc = "seed" /\ Goto(t, "exists") /\ UNCHANGED deflt
        /\ current' = [current EXCEPT ![Global] = job[t].carry]
    BY <1>3 DEF Seed, At
  <2>2. current'[Global] # NoProfile
    BY <2>1 DEF TypeOK, Carrying
  <2>3. /\ job'[t].pc = "exists" /\ job'[t].op = job[t].op
        /\ job'[t].bucket = job[t].bucket
        /\ \A u \in Thread : u # t => job'[u] = job[u]
    BY <2>1, MovesKeep
  <2>4. ThreadSeeds(t)'
    BY <2>2, <2>3 DEF ThreadSeeds, ServesReads, Freezing, WritePC
  <2> QED
    BY <2>1, <2>2, <2>3, <2>4, SeedStep DEF Freezing
<1>4. CASE DefaultMissing(t)
  <2>1. Freezing(t) /\ Goto(t, "freeze") /\ UNCHANGED <<current, deflt>>
    BY <1>4 DEF DefaultMissing, At, redis, Freezing
  <2>2. /\ job'[t].pc = "freeze" /\ job'[t].op = job[t].op
        /\ job'[t].bucket = job[t].bucket
        /\ \A u \in Thread : u # t => job'[u] = job[u]
    BY <2>1, MovesKeep
  <2>3. ThreadSeeds(t)'
    BY <2>1, <2>2 DEF ThreadSeeds, ServesReads, Freezing, WritePC
  <2> QED
    BY <2>1, <2>2, <2>3, SeedStep DEF Freezing
<1>5. CASE DefaultExists(t) \/ FreezeDefault(t)
  <2>1. Freezing(t) /\ Seeded(t) /\ UNCHANGED current /\ deflt' # NoProfile
    BY <1>5 DEF DefaultExists, FreezeDefault, At, Freezing, Carrying
  <2>2. current[Global] # NoProfile
    BY <2>1 DEF ThreadSeeds, ServesReads
  <2>3. CASE Surface(job[t]) = Global
    BY <2>1, <2>2, <2>3, ReadEndSeeds DEF Seeded
  <2>4. CASE Surface(job[t]) # Global
    <3>1. Goto(t, "fill")
      BY <2>1, <2>4 DEF Seeded
    <3>2. /\ job'[t].pc = "fill" /\ job'[t].op = job[t].op
          /\ job'[t].bucket = job[t].bucket /\ Surface(job'[t]) = Surface(job[t])
          /\ \A u \in Thread : u # t => job'[u] = job[u]
      BY <3>1, MovesKeep
    <3>3. ThreadSeeds(t)'
      BY <2>1, <2>2, <2>4, <3>2 DEF ThreadSeeds, ServesReads, Freezing, WritePC
    <3> QED
      BY <2>1, <3>2, <3>3, SeedStep
  <2> QED
    BY <2>3, <2>4
<1>6. CASE FillBucket(t)
  <2>1. /\ job[t].pc = "fill" /\ ReadDone(t, job[t].carry) /\ UNCHANGED deflt
        /\ current' = [current EXCEPT ![job[t].bucket] = job[t].carry]
    BY <1>6 DEF FillBucket, At
  <2>2. Surface(job[t]) # Global /\ job[t].bucket # Global /\ current[Global] # NoProfile
    BY <2>1, SurfaceOf DEF ThreadSeeds, ServesReads, Thread
  <2>3. current'[Global] = current[Global]
    BY <2>1, <2>2 DEF TypeOK
  <2> QED
    BY <2>1, <2>2, <2>3, ReadEndSeeds DEF Freezing
<1>7. ~GetError(t) /\ ~SetLost(t)
  BY DEF GetError, SetLost
<1> QED
  BY <1>1, <1>2, <1>3, <1>4, <1>5, <1>6, <1>7 DEF ReadStep

LEMMA SeedWriteStep ==
    ASSUME TypeOK, SeedInv, NEW p \in Proc, Faults = {}, WriteStep(p)
    PROVE  SeedInv'
<1>0. /\ p \in Thread /\ JobOK /\ ~Failing /\ ThreadSeeds(p)
      /\ Global \in Bucket /\ NoProfile \notin Profile
      /\ job[p].pc \in Carrying => job[p].carry \in Profile
  BY JobType, ConstantsAssumption DEF Thread, TypeOK, SeedInv, Failing
<1>1. /\ job[p].pc \in WritePC /\ UNCHANGED deflt
      /\ \/ Done(p)
         \/ \E label \in WritePC : Goto(p, label) \/ \E q : GotoWith(p, label, q)
  BY DEF WriteStep, Promote, PromoteLost, Stays, RollbackGet, RollbackSet, Log,
         ResetGet, ResetSet, ResetLog, LoadDefault, At, WritePC, redis
<1>2. job[p].op # "warm" /\ current[Global] # NoProfile /\ ~Freezing(p)
  BY <1>0, <1>1 DEF ThreadSeeds, ServesReads, Freezing, WritePC
<1>3. \/ UNCHANGED current
      \/ /\ job[p].carry \in Profile
         /\ \E b \in Bucket : current' = [current EXCEPT ![b] = job[p].carry]
  BY <1>0, JobType DEF WriteStep, Promote, PromoteLost, RollbackGet, RollbackSet, Log,
         ResetGet, ResetSet, ResetLog, At, Carrying, redis
<1>4. current'[Global] # NoProfile
  BY <1>0, <1>2, <1>3 DEF TypeOK
<1>5. /\ job'[p] = Idle \/ (job'[p].pc \in WritePC /\ job'[p].op = job[p].op)
      /\ \A u \in Thread : u # p => job'[u] = job[u]
  BY <1>0, <1>1, Moves, MovesKeep
<1>6. ThreadSeeds(p)'
  BY <1>2, <1>4, <1>5 DEF ThreadSeeds, ServesReads, Idle, WritePC, Freezing
<1> QED
  BY <1>0, <1>1, <1>2, <1>4, <1>5, <1>6, SeedStep

(* No request asks for a warm-up or starts with a write to a profile.      *)
LEMMA RequestsBegin ==
    ASSUME TypeOK, NEW t \in Thread, job[t].pc \in {"idle", "samples"} => job[t].op # "warm",
           \/ t \in Proc /\ (Request(t) \/ ReadSamples(t))
           \/ \E b \in Bucket : Stats(t, b)
    PROVE  /\ job'[t].op # "warm"
           /\ job'[t].pc \notin {"exists", "freeze", "getGlobal", "fill"}
           /\ job'[t].pc \in {"samples"} \cup WritePC => t \in Proc
           /\ \A u \in Thread : u # t => job'[u] = job[u]
<1>0. job \in [Thread -> Job] /\ JobOK
  BY DEF TypeOK, JobOK
<1>1. CASE QueryGlobal(t) /\ t \in Proc
  <2> DEFINE j == [job[t] EXCEPT !.pc = "get", !.op = "query"]
  <2>1. job' = [job EXCEPT ![t] = j] /\ j.pc = "get" /\ j.op = "query"
    BY <1>0, <1>1 DEF QueryGlobal, Job
  <2> HIDE DEF j
  <2> QED
    BY <1>0, <1>1, <2>1
<1>2. CASE t \in Proc /\ \E b \in Topic : QueryTopic(t, b)
  <2>1. PICK b \in Topic : QueryTopic(t, b)
    BY <1>2
  <2> DEFINE j == [job[t] EXCEPT !.pc = "samples", !.op = "query", !.bucket = b]
  <2>2. job' = [job EXCEPT ![t] = j] /\ j.pc = "samples" /\ j.op = "query"
    BY <1>0, <2>1 DEF QueryTopic, Job
  <2> HIDE DEF j
  <2> QED
    BY <1>0, <1>2, <2>2
<1>3. CASE t \in Proc /\ ReadSamples(t)
  <2>1. PICK n : job' = [job EXCEPT ![t].pc = "get", ![t].hot = n >= SampleFloor]
    BY <1>3 DEF ReadSamples
  <2> DEFINE j == [job[t] EXCEPT !.pc = "get", !.hot = n >= SampleFloor]
  <2>2. job' = [job EXCEPT ![t] = j] /\ j.pc = "get" /\ j.op = job[t].op
    BY <1>0, <2>1 DEF Job
  <2>3. job[t].op # "warm"
    BY <1>3 DEF ReadSamples, At
  <2> HIDE DEF j
  <2> QED
    BY <1>0, <1>3, <2>2, <2>3
<1>4. CASE t \in Proc /\ Reset(t)
  <2>1. job[t].op # "warm" /\ Goto(t, "resetGet")
    BY <1>4 DEF Reset, At
  <2> QED
    BY <1>0, <1>4, <2>1, MovesKeep
<1>5. CASE t \in Proc /\ \E b \in Bucket, q \in Profile, s \in Signal : Feedback(t, b, q, s)
  <2>1. PICK b \in Bucket, q \in Profile, s \in Signal : Feedback(t, b, q, s)
    BY <1>5
  <2> DEFINE v == Verdict(Credited(active[t][b], q, s), q)
             w == VerdictCarry(Credited(active[t][b], q, s), q)
  <2>2. job' = [job EXCEPT ![t] = IF v = "idle" THEN Idle
                    ELSE [pc |-> v, op |-> "none", bucket |-> b,
                          hot |-> FALSE, carry |-> w, raw |-> s.raw]]
    BY <2>1 DEF Feedback
  <2>3. v \in {"idle", "rollbackGet", "promote", "log"}
    <3>1. active[t][b] \in Candidate
      BY <1>5, <2>1 DEF Feedback, TypeOK
    <3> QED
      BY <2>1, <3>1, CreditedIsCandidate, VerdictType
  <2> HIDE DEF v, w
  <2> QED
    BY <1>0, <1>5, <2>2, <2>3 DEF Idle
<1>6. CASE \E b \in Bucket : Stats(t, b)
  <2>1. PICK b \in Bucket : Stats(t, b)
    BY <1>6
  <2>2. PICK own \in BOOLEAN : own = (b # Global)
    OBVIOUS
  <2> DEFINE j == [job[t] EXCEPT !.pc = "get", !.op = "stats",
                                 !.bucket = b, !.hot = own]
  <2>3. job' = [job EXCEPT ![t] = j]
    BY <2>1, <2>2, Zenon DEF Stats
  <2>4. j.pc = "get" /\ j.op = "stats"
    BY <1>0 DEF Job
  <2> HIDE DEF j
  <2> QED
    BY <1>0, <2>3, <2>4 DEF WritePC
<1> QED
  BY <1>1, <1>2, <1>3, <1>4, <1>5, <1>6 DEF Request

(* A request is only taken up once the intent-global profile exists.       *)
LEMMA SeedRequest ==
    ASSUME TypeOK, SeedInv, NEW t \in Thread,
           \/ t \in Proc /\ (Request(t) \/ ReadSamples(t))
           \/ \E b \in Bucket : Stats(t, b)
    PROVE  SeedInv'
<1>0. JobOK /\ job \in [Thread -> Job] /\ ThreadSeeds(t)
  BY DEF TypeOK, SeedInv, JobOK
<1>1. UNCHANGED <<current, deflt>> /\ job[t].pc \in {"idle", "samples"}
  BY DEF Request, QueryGlobal, QueryTopic, Feedback, Reset, ReadSamples, Stats, At, redis
<1>2. current[Global] # NoProfile
  <2>1. CASE t \in Proc
    BY <1>0, <1>1, <2>1 DEF ThreadSeeds, ServesReads
  <2>2. CASE t \in Dashboard
    <3>1. Host[t] \in Proc /\ job[Host[t]].op # "warm"
      BY <2>2, ConstantsAssumption
         DEF Request, QueryGlobal, QueryTopic, Feedback, Reset, ReadSamples, Stats
    <3> QED
      BY <3>1 DEF SeedInv, ThreadSeeds, ServesReads, Thread
  <2> QED
    BY <2>1, <2>2 DEF Thread
<1>3. /\ job'[t].op # "warm" /\ job'[t].pc \notin {"exists", "freeze", "getGlobal", "fill"}
      /\ job'[t].pc \in {"samples"} \cup WritePC => t \in Proc
      /\ \A u \in Thread : u # t => job'[u] = job[u]
  BY <1>0, RequestsBegin DEF ThreadSeeds, ServesReads
<1>4. ThreadSeeds(t)'
  BY <1>1, <1>2, <1>3 DEF ThreadSeeds, ServesReads, Freezing
<1> QED
  BY <1>1, <1>2, <1>3, <1>4, SeedStep DEF Freezing

(* store.go:95-116: while nothing fails, whatever the number of processes  *)
(* and dashboards and however their reads race, a live intent-global       *)
(* profile has its frozen default or a thread that is about to store it.   *)
THEOREM DefaultsAreFrozen ==
    ASSUME Faults = {} PROVE Spec => []FrozenDefaultExists
<1>1. Init => SeedInv
  <2> SUFFICES ASSUME Init PROVE SeedInv
    OBVIOUS
  <2>1. current[Global] = NoProfile
    BY DEF Init, Bucket
  <2>2. ASSUME NEW t \in Thread PROVE ThreadSeeds(t)
    <3>1. job[t] = IF t \in Proc THEN WarmUp ELSE Idle
      BY DEF Init
    <3> QED
      BY <3>1, ConstantsAssumption
         DEF ThreadSeeds, ServesReads, Freezing, WarmUp, Idle, WritePC, Thread
  <2> QED
    BY <2>1, <2>2 DEF SeedInv, FrozenDefaultExists
<1>2. TypeOK /\ SeedInv /\ [Next]_vars => SeedInv'
  <2> SUFFICES ASSUME TypeOK, SeedInv, [Next]_vars PROVE SeedInv'
    OBVIOUS
  <2>1. ASSUME NEW p \in Proc, Request(p) \/ ReadSamples(p) PROVE SeedInv'
    BY <2>1, SeedRequest DEF Thread
  <2>2. ASSUME NEW p \in Proc, WriteStep(p) PROVE SeedInv'
    BY <2>2, SeedWriteStep
  <2>3. ASSUME NEW t \in Thread, ReadStep(t) PROVE SeedInv'
    BY <2>3, SeedReadStep
  <2>4. ASSUME NEW t \in Thread, NEW b \in Bucket, Stats(t, b) PROVE SeedInv'
    BY <2>4, SeedRequest
  <2>5. ASSUME NEW p \in Proc PROVE ~Restart(p)
    BY DEF Restart
  <2>6. CASE UNCHANGED vars \/ \E tr \in Bucket \X Profile : ExpireTrace(tr)
    BY <2>6 DEF ExpireTrace, vars, SeedInv, ThreadSeeds, ServesReads, Freezing, FrozenDefaultExists
  <2> QED
    BY <2>1, <2>2, <2>3, <2>4, <2>5, <2>6 DEF Next
<1>3. SeedInv => FrozenDefaultExists
  BY DEF SeedInv
<1> QED
  BY <1>1, <1>2, <1>3, TypeCorrect, PTL DEF Spec
=============================================================================
