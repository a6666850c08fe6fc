---------------------------- MODULE ProfileBandit ---------------------------
(***************************************************************************)
(* The profile bandit of internal/heuristics: every agent connection is a  *)
(* devrouter process that serves its requests one after the other, keeps   *)
(* its own experiments in memory (Bandit.active) and shares the profiles,  *)
(* the topic registry and the query traces with the other processes        *)
(* through Redis.  One step is one Redis command together with the         *)
(* in-memory work up to the next one; another process can act between any  *)
(* two of them.  The model follows one intent and one repository.          *)
(***************************************************************************)
EXTENDS Integers, FiniteSets

CONSTANTS
    Proc,               \* devrouter processes, one per agent connection
    Dashboard,          \* dashboard goroutines: they only call Picker.Stats
    Host,               \* [Dashboard -> Proc], the process of each of them
    Tuning,             \* processes with knobs enabled and not frozen
    Topic,              \* topic buckets of the repository
    Global,             \* the intent-global surface
    Profile,            \* retrieval profiles
    Perturb,            \* [Profile -> SUBSET Profile], Bandit.perturb
    Compiled,           \* [Proc \cup Dashboard -> Profile], Default(intent)
    NoProfile,          \* a missing Redis key
    NoCandidate,        \* no experiment in a slot of Bandit.active
    Signal,             \* reward signals: [raw, mean, weight], in tenths
    PromotionWindow, MinBaseSamples, PromotionLift,
    RollbackStrikes, RollbackThreshold,
    SampleFloor,        \* TopicBanditSampleFloor
    Faults,             \* what may go wrong, see FaultKinds
    MaxTraces,          \* bound: traces alive when a query starts
    MaxSamples,         \* bound: centroid samples of a topic
    MaxCandidate,       \* bound: candidate samples of an experiment
    MaxBase,            \* bound: base samples of an experiment
    MaxActive           \* bound: experiments of a process at a time

Thread == Proc \cup Dashboard
Bucket == Topic \cup {Global}

(* A Redis command that fails without effect, one that takes effect but    *)
(* whose reply is lost, and a process that dies.                           *)
FaultKinds == {"error", "ambiguous", "crash"}

(* One experiment: a candidate profile against the base it was perturbed   *)
(* from.  Rewards are kept as a count and a sum.                           *)
Candidate == [profile : Profile, base : Profile,
              candN : Nat, candSum : Int, baseN : Nat, baseSum : Int,
              consecBad : Nat,
              unsaved : BOOLEAN]  \* history: its promotion was not confirmed

ASSUME ConstantsAssumption ==
    /\ Proc \cap Dashboard = {} /\ Tuning \subseteq Proc
    /\ Host \in [Dashboard -> Proc]
    /\ Global \notin Topic
    /\ Perturb \in [Profile -> SUBSET Profile]
    /\ Compiled \in [Thread -> Profile]
    /\ NoProfile \notin Profile
    /\ NoCandidate \notin Candidate
    /\ Signal \subseteq [raw : Int, mean : Int, weight : Nat]
    /\ PromotionWindow \in Nat \ {0} /\ MinBaseSamples \in Nat \ {0}
    /\ RollbackStrikes \in Nat \ {0}
    /\ PromotionLift \in Int /\ RollbackThreshold \in Int
    /\ SampleFloor \in Nat /\ MaxSamples \in Nat \ {0}
    /\ MaxCandidate \in Nat /\ MaxBase \in Nat /\ MaxActive \in Nat
    /\ MaxTraces \in Nat
    /\ Faults \subseteq FaultKinds

VARIABLES
    current,   \* Redis: the live profile of each surface
    deflt,     \* Redis: the frozen default of the intent
    audit,     \* Redis: target of the newest history entry of each surface
    samples,   \* Redis: centroid samples of each topic
    served,    \* Redis: traces <<bucket, profile>> feedback can refer to
    active,    \* memory: Bandit.active of each process, by bucket
    job        \* memory: what each thread is doing

redis == <<current, deflt, audit, samples, served>>
vars == <<current, deflt, audit, samples, served, active, job>>

(* Where a thread stands.  `op` tells what a profile read is for.          *)
ReadPC == {"samples", "get", "getGlobal", "seed", "exists", "freeze", "fill"}
WritePC == {"promote", "rollbackGet", "rollbackSet", "log",
            "resetGet", "resetSet", "resetLog"}
Job == [pc : {"idle"} \cup ReadPC \cup WritePC,
        op : {"none", "warm", "stats", "query"},
        bucket : Bucket,                      \* the bucket addressed
        hot : BOOLEAN,                        \* serve the bucket's own surface
        carry : Profile \cup {NoProfile},     \* a profile read or to be written
        raw : Int]                            \* raw reward being credited

Idle == [pc |-> "idle", op |-> "none", bucket |-> Global, hot |-> FALSE,
         carry |-> NoProfile, raw |-> 0]
WarmUp == [pc |-> "get", op |-> "warm", bucket |-> Global, hot |-> FALSE,
           carry |-> NoProfile, raw |-> 0]

(* The surface a profile read addresses: a cold bucket reads Global.       *)
Surface(j) == IF j.hot THEN j.bucket ELSE Global

At(t, label) == job[t].pc = label
Goto(t, label) == job' = [job EXCEPT ![t].pc = label]
GotoWith(t, label, p) == job' = [job EXCEPT ![t].pc = label, ![t].carry = p]
Done(t) == job' = [job EXCEPT ![t] = Idle]
Failing == "error" \in Faults
ReplyLost == "ambiguous" \in Faults

(***************************************************************************)
(* Reward arithmetic (reward.go, feedback.go).  What reaches the bandit is *)
(* the raw reward less the rolling mean of the bucket.                     *)
(***************************************************************************)
Adjusted(s) == s.raw - s.mean
Weighted(s) == Adjusted(s) * s.weight

(* mean(rewards) > mean(baseSamples) + PromotionLift, multiplied out.      *)
BeatsBase(c) == c.candSum * c.baseN >
                    (c.baseSum + PromotionLift * c.baseN) * c.candN

WindowFull(c) == c.candN >= PromotionWindow /\ c.baseN >= MinBaseSamples

Fresh(cand, base) == [profile |-> cand, base |-> base, candN |-> 0, candSum |-> 0,
                      baseN |-> 0, baseSum |-> 0, consecBad |-> 0,
                      unsaved |-> FALSE]

(* The bookkeeping of Bandit.Update for a sample of either arm.            *)
CreditCandidate(c, s) ==
    [c EXCEPT !.candN = c.candN + 1, !.candSum = c.candSum + Weighted(s),
              !.consecBad = IF Adjusted(s) < RollbackThreshold
                            THEN c.consecBad + 1 ELSE 0]
CreditBase(c, s) ==
    [c EXCEPT !.baseN = c.baseN + 1, !.baseSum = c.baseSum + Weighted(s)]

-----------------------------------------------------------------------------
(***************************************************************************)
(* Bandit.Select: which profile a query with this base is served, and what *)
(* is then under test in the slot.                                         *)
(***************************************************************************)
MayExplore(p, b, hot) == p \in Tuning /\ (b = Global \/ hot)

RoomForExperiment(p) ==
    Cardinality({b \in Bucket : active[p][b] # NoCandidate}) < MaxActive

SelectOutcomes(p, b, base, hot) ==
    LET slot == active[p][b] IN
    {[profile |-> base, slot |-> slot]}
    \cup (IF MayExplore(p, b, hot) /\ slot # NoCandidate
          THEN {[profile |-> slot.profile, slot |-> slot]} ELSE {})
    \cup (IF MayExplore(p, b, hot) /\ slot = NoCandidate
             /\ RoomForExperiment(p)
          THEN {[profile |-> q, slot |-> Fresh(q, base)] :
                    q \in Perturb[base] \ {base}} ELSE {})

(* The end of a query: the chosen profile is used and its trace stored.    *)
Serve(p, profile) ==
    /\ served' = served \cup {<<job[p].bucket, profile>>}
    /\ Done(p)

(* CurrentProfile returned base: queries go on to Select, warmDefaults and *)
(* Picker.Stats are done.                                                  *)
ReadDone(t, base) ==
    \/ /\ job[t].op = "query"
       /\ \E o \in SelectOutcomes(t, job[t].bucket, base, job[t].hot) :
            /\ Serve(t, o.profile)
            /\ active' = [active EXCEPT ![t][job[t].bucket] = o.slot]
    \/ /\ job[t].op \in {"warm", "stats"}
       /\ Done(t)
       /\ UNCHANGED <<served, active>>

(* CurrentProfile failed: a query is served Default(intent) without Select. *)
ReadFailed(t) ==
    /\ \/ job[t].op = "query" /\ Serve(t, Compiled[t])
       \/ job[t].op \in {"warm", "stats"} /\ Done(t) /\ UNCHANGED served
    /\ UNCHANGED active

-----------------------------------------------------------------------------
(***************************************************************************)
(* Picking a profile: HandleQueryWithPlan, PickWithTopic, CurrentProfile,  *)
(* CurrentProfileFor and EnsureDefault, one action per Redis command.      *)
(***************************************************************************)

(* A query without a repository or without a topic (the embedder or the    *)
(* registry failed) addresses the intent-global surface.                   *)
QueryGlobal(p) ==
    /\ At(p, "idle") /\ Cardinality(served) <= MaxTraces
    /\ job' = [job EXCEPT ![p].pc = "get", ![p].op = "query"]
    /\ UNCHANGED <<redis, active>>

(* TopicStore.Resolve: the query is absorbed by the topic, or starts it    *)
(* over in a free or evicted slot, or the HSET is lost.                    *)
QueryTopic(p, b) ==
    /\ At(p, "idle") /\ Cardinality(served) <= MaxTraces
    /\ \/ samples[b] \in 1 .. MaxSamples - 1
          /\ samples' = [samples EXCEPT ![b] = samples[b] + 1]
       \/ samples' = [samples EXCEPT ![b] = 1]
       \/ samples[b] = MaxSamples /\ UNCHANGED samples
       \/ Failing /\ UNCHANGED samples
    /\ job' = [job EXCEPT ![p].pc = "samples", ![p].op = "query", ![p].bucket = b]
    /\ UNCHANGED <<current, deflt, audit, served, active>>

(* TopicStore.Samples: an error reads as 0.                                *)
ReadSamples(p) ==
    /\ At(p, "samples")
    /\ \E n \in {samples[job[p].bucket]} \cup (IF Failing THEN {0} ELSE {}) :
         job' = [job EXCEPT ![p].pc = "get", ![p].hot = n >= SampleFloor]
    /\ UNCHANGED <<redis, active>>

GetHit(t) ==
    /\ At(t, "get") /\ current[Surface(job[t])] # NoProfile
    /\ ReadDone(t, current[Surface(job[t])])
    /\ UNCHANGED <<current, deflt, audit, samples>>

GetMiss(t) ==
    /\ At(t, "get") /\ current[Surface(job[t])] = NoProfile
    /\ IF Surface(job[t]) = Global THEN GotoWith(t, "seed", Compiled[t])
                                   ELSE Goto(t, "getGlobal")
    /\ UNCHANGED <<redis, active>>

GetGlobal(t) ==
    /\ At(t, "getGlobal")
    /\ IF current[Global] = NoProfile THEN GotoWith(t, "seed", Compiled[t])
                                      ELSE GotoWith(t, "fill", current[Global])
    /\ UNCHANGED <<redis, active>>

GetError(t) ==
    /\ Failing /\ job[t].pc \in {"get", "getGlobal"}
    /\ ReadFailed(t)
    /\ UNCHANGED <<current, deflt, audit, samples>>

(* Mutant: the live profile is seeded without its frozen default.          *)
SeedWithoutDefault(t) ==
    /\ At(t, "seed")
    /\ current' = [current EXCEPT ![Global] = job[t].carry]
    /\ ReadDone(t, job[t].carry)
    /\ UNCHANGED <<deflt, audit, samples>>

(* SetCurrent(seed): an error ends the read, whether or not it was applied. *)
Seed(t) ==
    /\ At(t, "seed")
    /\ current' = [current EXCEPT ![Global] = job[t].carry]
    /\ \/ Goto(t, "exists") /\ UNCHANGED <<served, active>>
       \/ ReplyLost /\ ReadFailed(t)
    /\ UNCHANGED <<deflt, audit, samples>>

(* A read that has its value: a bucket not seeded yet is filled with it.   *)
Seeded(t) ==
    IF Surface(job[t]) = Global THEN ReadDone(t, job[t].carry)
    ELSE Goto(t, "fill") /\ UNCHANGED <<served, active>>

(* EnsureDefault: EXISTS, where an error counts as "no", then SET.         *)
DefaultExists(t) ==
    /\ At(t, "exists") /\ deflt # NoProfile
    /\ Seeded(t)
    /\ UNCHANGED <<current, deflt, audit, samples>>

DefaultMissing(t) ==
    /\ At(t, "exists") /\ (deflt = NoProfile \/ Failing)
    /\ Goto(t, "freeze")
    /\ UNCHANGED <<redis, active>>

FreezeDefault(t) ==
    /\ At(t, "freeze")
    /\ deflt' = job[t].carry
    /\ Seeded(t) \/ (ReplyLost /\ ReadFailed(t))
    /\ UNCHANGED <<current, audit, samples>>

(* SetCurrentFor(bucket, seed).                                            *)
FillBucket(t) ==
    /\ At(t, "fill")
    /\ current' = [current EXCEPT ![job[t].bucket] = job[t].carry]
    /\ ReadDone(t, job[t].carry) \/ (ReplyLost /\ ReadFailed(t))
    /\ UNCHANGED <<deflt, audit, samples>>

(* Any of these SETs can also fail without effect.                         *)
SetLost(t) ==
    /\ Failing /\ job[t].pc \in {"seed", "freeze", "fill"}
    /\ ReadFailed(t)
    /\ UNCHANGED <<current, deflt, audit, samples>>

(* Picker.Stats reads (and so seeds) every surface it lists, for the agent *)
(* or for the dashboard, which is started after warmDefaults.              *)
Stats(t, b) ==
    /\ At(t, "idle")
    /\ t \in Dashboard => job[Host[t]].op # "warm"
    /\ b \in Topic => samples[b] > 0
    /\ job' = [job EXCEPT ![t].pc = "get", ![t].op = "stats",
                          ![t].bucket = b, ![t].hot = (b # Global)]
    /\ UNCHANGED <<redis, active>>

-----------------------------------------------------------------------------
(***************************************************************************)
(* Feedback: SubmitFeedback (or the repeat detector) credits the reward of *)
(* a served query to its bucket's slot, Bandit.Update decides.             *)
(***************************************************************************)

(* Mutant: base samples are not collected.                                 *)
CreditedCandidateOnly(c, profile, s) ==
    IF profile = c.profile THEN CreditCandidate(c, s) ELSE c

(* The slot after the sample, or the slot itself when the profile is       *)
(* neither arm ("stale profile, ignore").                                  *)
Credited(c, profile, s) ==
    CASE profile = c.profile -> CreditCandidate(c, s)
      [] profile = c.base /\ profile # c.profile -> CreditBase(c, s)
      [] OTHER -> c

(* Mutant: a candidate that did not beat its base is left to go on.        *)
VerdictKeepsLosers(c, profile) ==
    IF profile = c.profile /\ c.consecBad >= RollbackStrikes THEN "rollbackGet"
    ELSE IF WindowFull(c) /\ BeatsBase(c) THEN "promote" ELSE "idle"

(* Where Update goes next with an updated slot.                            *)
Verdict(c, profile) ==
    IF profile = c.profile /\ c.consecBad >= RollbackStrikes THEN "rollbackGet"
    ELSE IF ~WindowFull(c) THEN "idle"
    ELSE IF BeatsBase(c) THEN "promote" ELSE "log"

(* What the next step writes: the promoted profile, or in a discard's      *)
(* history entry the base that stays.                                      *)
VerdictCarry(c, profile) ==
    CASE Verdict(c, profile) = "promote" -> c.profile
      [] Verdict(c, profile) = "log" -> c.base
      [] OTHER -> NoProfile

WithinBound(c) == c.candN <= MaxCandidate /\ c.baseN <= MaxBase

(* Frozen or knobless processes, empty slots and stale profiles change     *)
(* nothing: those calls of Update are stuttering steps.                    *)
Feedback(p, b, profile, s) ==
    /\ At(p, "idle") /\ <<b, profile>> \in served
    /\ active[p][b] # NoCandidate
    /\ profile \in {active[p][b].profile, active[p][b].base}
    /\ LET c == Credited(active[p][b], profile, s) IN
       /\ WithinBound(c)
       /\ active' = [active EXCEPT ![p][b] = c]
       /\ job' = [job EXCEPT ![p] =
                    IF Verdict(c, profile) = "idle" THEN Idle
                    ELSE [pc |-> Verdict(c, profile), op |-> "none", bucket |-> b,
                          hot |-> FALSE, carry |-> VerdictCarry(c, profile),
                          raw |-> s.raw]]
    /\ UNCHANGED redis

(* Mutant: a promotion is not logged.                                      *)
PromoteUnlogged(p) ==
    /\ At(p, "promote")
    /\ current' = [current EXCEPT ![job[p].bucket] = job[p].carry]
    /\ active' = [active EXCEPT ![p][job[p].bucket] = NoCandidate]
    /\ Done(p)
    /\ UNCHANGED <<deflt, audit, samples, served>>

(* promote: on an error the experiment stays, with its full window.        *)
Unconfirmed(c) == IF c = NoCandidate THEN c ELSE [c EXCEPT !.unsaved = TRUE]
Stays(p) == Done(p) /\ active' = [active EXCEPT ![p][job[p].bucket] = Unconfirmed(@)]

Promote(p) ==
    /\ At(p, "promote")
    /\ current' = [current EXCEPT ![job[p].bucket] = job[p].carry]
    /\ \/ Goto(p, "log") /\ UNCHANGED active
       \/ ReplyLost /\ Stays(p)
    /\ UNCHANGED <<deflt, audit, samples, served>>

PromoteLost(p) ==
    /\ Failing /\ At(p, "promote") /\ Stays(p)
    /\ UNCHANGED redis

(* Mutant: a missing default is not replaced by the compiled one.          *)
LoadDefaultNoFallback(p, target) == GotoWith(p, target, deflt)

(* LoadDefault: a missing key and an error both fall back to the compiled  *)
(* default.                                                                *)
LoadDefault(p, target) ==
    \/ deflt # NoProfile /\ GotoWith(p, target, deflt)
    \/ (deflt = NoProfile \/ Failing) /\ GotoWith(p, target, Compiled[p])

RollbackGet(p) ==
    /\ At(p, "rollbackGet")
    /\ LoadDefault(p, "rollbackSet")
    /\ UNCHANGED <<redis, active>>

(* Mutant: a rollback restores the experiment's base.                      *)
RollbackSetBase(p) ==
    /\ At(p, "rollbackSet")
    /\ current' = [current EXCEPT ![job[p].bucket] = active[p][job[p].bucket].base]
    /\ Goto(p, "log")
    /\ UNCHANGED <<deflt, audit, samples, served, active>>

(* rollback ignores the result of its SetCurrentFor.                       *)
RollbackSet(p) ==
    /\ At(p, "rollbackSet")
    /\ \/ current' = [current EXCEPT ![job[p].bucket] = job[p].carry]
       \/ Failing /\ UNCHANGED current
    /\ Goto(p, "log")
    /\ UNCHANGED <<deflt, audit, samples, served, active>>

(* Mutant: the experiment is not deleted after its verdict.                *)
LogKeepsExperiment(p) ==
    /\ At(p, "log")
    /\ audit' = [audit EXCEPT ![job[p].bucket] = job[p].carry]
    /\ Done(p)
    /\ UNCHANGED <<current, deflt, samples, served, active>>

(* AppendHistoryFor, whose error is ignored, then delete(b.active, key).   *)
Log(p) ==
    /\ At(p, "log")
    /\ \/ audit' = [audit EXCEPT ![job[p].bucket] = job[p].carry]
       \/ Failing /\ UNCHANGED audit
    /\ active' = [active EXCEPT ![p][job[p].bucket] = NoCandidate]
    /\ Done(p)
    /\ UNCHANGED <<current, deflt, samples, served>>

-----------------------------------------------------------------------------
(***************************************************************************)
(* dev_heuristics_reset: Picker.Reset, ResetIntent.  Frozen processes may  *)
(* reset too.                                                              *)
(***************************************************************************)
Reset(p) ==
    /\ At(p, "idle")
    /\ Goto(p, "resetGet")
    /\ UNCHANGED <<redis, active>>

ResetGet(p) ==
    /\ At(p, "resetGet")
    /\ LoadDefault(p, "resetSet")
    /\ UNCHANGED <<redis, active>>

(* An error of SetCurrent is returned and leaves the experiments alone.    *)
ResetSet(p) ==
    /\ At(p, "resetSet")
    /\ \/ /\ current' = [current EXCEPT ![Global] = job[p].carry]
          /\ Goto(p, "resetLog") \/ (ReplyLost /\ Done(p))
       \/ Failing /\ UNCHANGED current /\ Done(p)
    /\ UNCHANGED <<deflt, audit, samples, served, active>>

(* Mutant: a reset leaves the experiments running.                         *)
ResetLogKeepsExperiments(p) ==
    /\ At(p, "resetLog")
    /\ audit' = [audit EXCEPT ![Global] = job[p].carry]
    /\ Done(p)
    /\ UNCHANGED <<current, deflt, samples, served, active>>

ResetLog(p) ==
    /\ At(p, "resetLog")
    /\ \/ audit' = [audit EXCEPT ![Global] = job[p].carry]
       \/ Failing /\ UNCHANGED audit
    /\ active' = [active EXCEPT ![p] = [b \in Bucket |-> NoCandidate]]
    /\ Done(p)
    /\ UNCHANGED <<current, deflt, samples, served>>

-----------------------------------------------------------------------------
(* The agent disconnects or the process dies, and another one takes its    *)
(* place, with its dashboard: NewPicker starts with no experiments and     *)
(* runs warmDefaults.                                                      *)
Restart(p) ==
    /\ "crash" \in Faults
    /\ active' = [active EXCEPT ![p] = [b \in Bucket |-> NoCandidate]]
    /\ job' = [t \in Thread |-> IF t = p THEN WarmUp
                                ELSE IF t \in Dashboard /\ Host[t] = p THEN Idle
                                ELSE job[t]]
    /\ UNCHANGED redis

(* A trace outlives its TTL.                                               *)
ExpireTrace(tr) ==
    /\ tr \in served
    /\ served' = served \ {tr}
    /\ UNCHANGED <<current, deflt, audit, samples, active, job>>

Init ==
    /\ current = [b \in Bucket |-> NoProfile]
    /\ deflt = NoProfile
    /\ audit = [b \in Bucket |-> NoProfile]
    /\ samples = [b \in Topic |-> 0]
    /\ served = {}
    /\ active = [p \in Proc |-> [b \in Bucket |-> NoCandidate]]
    /\ job = [t \in Thread |-> IF t \in Proc THEN WarmUp ELSE Idle]

ReadStep(t) ==
    \/ GetHit(t) \/ GetMiss(t) \/ GetGlobal(t) \/ GetError(t)
    \/ Seed(t) \/ DefaultExists(t) \/ DefaultMissing(t) \/ FreezeDefault(t)
    \/ FillBucket(t) \/ SetLost(t)

WriteStep(p) ==
    \/ Promote(p) \/ PromoteLost(p) \/ RollbackGet(p) \/ RollbackSet(p) \/ Log(p)
    \/ ResetGet(p) \/ ResetSet(p) \/ ResetLog(p)

Request(p) ==
    \/ QueryGlobal(p)
    \/ \E b \in Topic : QueryTopic(p, b)
    \/ \E b \in Bucket, q \in Profile, s \in Signal : Feedback(p, b, q, s)
    \/ Reset(p)

Next ==
    \/ \E p \in Proc : Request(p) \/ ReadSamples(p) \/ WriteStep(p) \/ Restart(p)
    \/ \E t \in Thread : ReadStep(t)
    \/ \E t \in Thread, b \in Bucket : Stats(t, b)
    \/ \E tr \in Bucket \X Profile : ExpireTrace(tr)

Spec == Init /\ [][Next]_vars

-----------------------------------------------------------------------------
(***************************************************************************)
(* Properties.                                                             *)
(***************************************************************************)

(* Whatever is about to be written is a profile: store.go never stores an  *)
(* empty one.  Dashboard threads serve no queries.                         *)
Carrying == {"seed", "exists", "freeze", "fill",
             "promote", "rollbackSet", "log", "resetSet", "resetLog"}

JobOK ==
    /\ job \in [Thread -> Job]
    /\ \A t \in Thread : job[t].pc \in Carrying => job[t].carry \in Profile
    /\ \A d \in Dashboard : job[d].op # "query"

(* Every key, slot and job holds what the code can put there.              *)
TypeOK ==
    /\ current \in [Bucket -> Profile \cup {NoProfile}]
    /\ deflt \in Profile \cup {NoProfile}
    /\ audit \in [Bucket -> Profile \cup {NoProfile}]
    /\ samples \in [Topic -> 0 .. MaxSamples]
    /\ served \subseteq Bucket \X Profile
    /\ active \in [Proc -> [Bucket -> Candidate \cup {NoCandidate}]]
    /\ JobOK

(* A process is carrying out a verdict or a reset on the surface.          *)
Writing(p, b) == job[p].bucket = b /\ job[p].pc \in WritePC

(* Update has reached a verdict on the surface's experiment and is         *)
(* carrying it out.                                                        *)
VerdictPC == {"promote", "rollbackGet", "rollbackSet", "log"}
Concluding(p, b) == job[p].bucket = b /\ job[p].pc \in VerdictPC

(* bandit.go:215-236: an experiment tests one dial step, three strikes     *)
(* always end it, and a full window is always followed by its verdict: it  *)
(* stays only where the write of its own promotion was not confirmed.      *)
ExperimentsEndOnTime ==
    \A p \in Proc, b \in Bucket :
        LET c == active[p][b] IN
        c # NoCandidate =>
            /\ c.profile \in Perturb[c.base] \ {c.base}
            /\ c.consecBad >= RollbackStrikes => Concluding(p, b)
            /\ WindowFull(c) => Concluding(p, b) \/ c.unsaved

Unearned(b, v) ==
    /\ v # deflt /\ \A t \in Thread : v # Compiled[t]
    /\ ~ \E t \in Thread : At(t, "fill") /\ job[t].bucket = b
    /\ ~ \E p \in Proc :
            /\ active[p][b] # NoCandidate
            /\ active[p][b].profile = v
            /\ WindowFull(active[p][b]) /\ BeatsBase(active[p][b])
            /\ active[p][b].consecBad < RollbackStrikes

(* docs/heuristics.md:35-36, 131-141: whatever the processes and the       *)
(* network do, a live profile is replaced by a default, by a late seed, or *)
(* by a candidate that has a full window and beat its base.                *)
MoveIsEarned ==
    \A b \in Bucket :
        current[b] # NoProfile /\ current'[b] # current[b] => ~Unearned(b, current'[b])
LiveMovesAreEarned == [][MoveIsEarned]_vars

(* store.go:105-107: once the intent-global profile exists and nobody is   *)
(* still seeding it, the frozen default exists, so no rollback ever falls  *)
(* back to the compiled one.                                               *)
FrozenDefaultExists ==
    current[Global] # NoProfile /\ deflt = NoProfile
        => \E t \in Thread : job[t].pc \in {"exists", "freeze"}

(* What makes a promotion a step from the live profile: an experiment is   *)
(* always against the profile that is live in its bucket.  Only a          *)
(* promotion whose reply was lost has already made the candidate live.     *)
BaseIsLive ==
    \A p \in Proc, b \in Bucket :
        LET c == active[p][b] IN
        (c # NoCandidate /\ job[p].pc \notin {"log", "resetLog"}) =>
            \/ current[b] = c.base
            \/ current[b] = c.profile /\ c.unsaved

(* docs/heuristics.md:36: every change is logged, so the newest history    *)
(* entry of a surface tells what is live on it.                            *)
AuditMatchesLive ==
    \A b \in Bucket :
        audit[b] # NoProfile /\ (\A p \in Proc : ~Writing(p, b))
            => current[b] = audit[b]

(* docs/heuristics.md:139, 258, bandit.go:62, 128: a rollback is triggered *)
(* by a raw reward below the threshold.                                    *)
RollbackOnBadRaw ==
    \A p \in Proc : At(p, "rollbackGet") => job[p].raw < RollbackThreshold

(* docs/heuristics.md:59-60, 139: the intent-global profile is seeded once *)
(* and moves by one dial step at a time or back to the frozen default.     *)
(* What the documentation says of a topic's bucket after a reset           *)
(* (bandit.go:241-242) is not part of it: see the README.                  *)
Tuned == INSTANCE TunedProfile
             WITH Default <- Compiled[CHOOSE t \in Thread : TRUE], live <- current[Global]
TunedSpec == Tuned!Spec

-----------------------------------------------------------------------------
(***************************************************************************)
(* Progress.  The process keeps working through a request (WF), agents     *)
(* keep asking in every bucket and keep sending feedback for both arms,    *)
(* and the epsilon draw of Select lands on either arm again and again (SF: *)
(* a draw with a fixed probability, repeated forever).                     *)
(***************************************************************************)
OnArm(p, b, arm, q) ==
    /\ active[p][b] # NoCandidate
    /\ q = IF arm = "candidate" THEN active[p][b].profile ELSE active[p][b].base

ServesArm(p, b, arm) ==
    /\ job[p].op = "query" /\ job[p].bucket = b
    /\ GetHit(p)
    /\ \E q \in Profile : OnArm(p, b, arm, q) /\ <<b, q>> \in served'

CreditsArm(p, b, arm) ==
    \E q \in Profile, s \in Signal : OnArm(p, b, arm, q) /\ Feedback(p, b, q, s)

Fairness ==
    \A p \in Proc :
        /\ WF_vars(ReadSamples(p) \/ ReadStep(p) \/ WriteStep(p))
        /\ SF_vars(QueryGlobal(p))
        /\ \A b \in Topic : SF_vars(QueryTopic(p, b))
        /\ \A b \in Bucket, arm \in {"candidate", "base"} :
              SF_vars(ServesArm(p, b, arm)) /\ SF_vars(CreditsArm(p, b, arm))

FairSpec == Spec /\ Fairness

(* docs/heuristics.md:131-141: an experiment on the intent-global surface  *)
(* always comes to a verdict.                                              *)
ExperimentConcludes ==
    \A p \in Proc : active[p][Global] # NoCandidate ~> active[p][Global] = NoCandidate
=============================================================================
