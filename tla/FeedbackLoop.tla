---------------------------- MODULE FeedbackLoop ----------------------------
(***************************************************************************)
(* How rewards find their way back to what served a query: repeats of a    *)
(* recent query (DetectRepeat), dev_feedback with or without a query id    *)
(* (SubmitFeedback), and the experiments on the number of documents that   *)
(* an external source returns (SourceBandit).  A process handles one call  *)
(* at a time; one step is one Redis command.  Which topic and profile a    *)
(* query gets is the matter of TopicRegistry and ProfileBandit.            *)
(***************************************************************************)
EXTENDS RouterState

CONSTANTS
    Buckets,         \* <<intent, repository, topic>>, of one repository
    Served,          \* <<bucket, profile, surface>>: what a query may be served, and from where
    Sources,         \* external sources
    Texts,           \* query embeddings, as points on a line
    LeastDocs, MostDocs, SeedDocs,                   \* SourceDocsBounds, Config.MaxDocs
    RepeatMaxEntries,                                \* RepeatMaxEntriesPerRepo
    TrialWindow, TrialBase, TrialStrikes,            \* of the source bandit
    MaxPosed, MaxReports                             \* bounds: queries, feedbacks

ASSUME FeedbackAssumption ==
    /\ Texts \subseteq Nat /\ LeastDocs \in Nat \ {0, 1} /\ LeastDocs <= SeedDocs /\ SeedDocs <= MostDocs
    /\ SeedDocs \in Nat /\ MostDocs \in Nat /\ TrialStrikes \in Nat \ {0}
    /\ RepeatMaxEntries \in Nat /\ MaxPosed \in Nat /\ MaxReports \in Nat
    /\ (\A serving \in Served : serving[1] \in Buckets)
    /\ Nothing \notin [repeat : BOOLEAN, docs : [Sources -> Nat]]

QueryId == 1 .. MaxPosed
NoTrace == [known |-> FALSE, of |-> Nothing, arm |-> Nothing]

VARIABLES
    recent,        \* recent_queries:{repo} within the look-back window, oldest first
    traces,        \* feedback:trace:{id}: known if the hash exists; of: what PutTrace wrote
    rewards,       \* the reward rows, with the bucket whose list they are in
    breadths,      \* heuristics:source:...:current; 0 is no such key
    frozen,        \* heuristics:source:...:default
    trials,        \* memory: SourceBandit.active
    lastCall,      \* memory: the front of LastCallLRU
    call,          \* memory: the call a process handles
    reports,
    posed,         \* history: what each query was served, from which surface, and by whom
    shown,         \* history: the documents asked of each source
    samples,       \* history: the samples that experiments have counted
    repeats,       \* history: <<query, the earlier one it was taken to repeat>>
    joins          \* history: feedback: the query it names, the one credited, the process

memory == <<trials, lastCall>>
learned == <<breadths, frozen>>
logs == <<posed, shown, samples, repeats, joins>>
feedbackVars == <<recent, traces, rewards, learned, memory, call, reports, mishaps, logs>>

Idling == [at |-> "idle"]

InitFeedback ==
    /\ recent = <<>> /\ traces = [q \in QueryId |-> NoTrace] /\ rewards = {}
    /\ breadths = [b \in Buckets |-> [s \in Sources |-> 0]] /\ frozen = breadths
    /\ trials = [p \in Servers |-> [b \in Buckets |-> Nothing]]
    /\ lastCall = [p \in Servers |-> Nothing] /\ call = [p \in Servers |-> Idling]
    /\ reports = 0 /\ mishaps = 0
    /\ posed = <<>> /\ shown = [q \in QueryId |-> Nothing]
    /\ samples = {} /\ repeats = {} /\ joins = {}

Goes(p, c) == call' = [call EXCEPT ![p] = c]
On(p, at) == call[p].at = at
Then(p, at) == Goes(p, [call[p] EXCEPT !.at = at])

-----------------------------------------------------------------------------
(* Cosine similarity, in hundredths; only its relation to the thresholds   *)
(* matters.                                                                *)
Similarity(x, y) ==
    LET d == IF x < y THEN y - x ELSE x - y IN
    CASE d = 0 -> 100 [] d = 1 -> 80 [] d = 2 -> 70 [] OTHER -> 0

(* ComputeImplicit, what its reward less the mean may be (low: a strike),  *)
(* and what the router takes for a repeat.                                 *)
Fires(sim) == sim > 70
LowRewards(sim) == IF sim > 95 THEN {TRUE} ELSE BOOLEAN
IsRepeat(sim) == sim >= 70

(* The most similar of the oldest queries in the window; of equals, the    *)
(* oldest.  Nothing is similar to nothing.                                 *)
MostSimilar(x) ==
    LET seen == 1 .. (IF Len(recent) < RepeatMaxEntries THEN Len(recent) ELSE RepeatMaxEntries)
        sim(i) == Similarity(x, recent[i].text) IN
    {i \in seen : sim(i) > 0 /\ \A j \in seen : sim(j) < sim(i) \/ (sim(j) = sim(i) /\ i <= j)}

(* HandleQueryWithPlan, from where topic and profile are known: a repeat is*)
(* looked for before the query itself is recorded.  PickWithTopic serves   *)
(* the bucket of a hot topic from its own surface, that of a cold one from *)
(* the intent-global one; either way only bucket and profile are kept.     *)
Pose(p, b, profile, surface, x) ==
    /\ On(p, "idle") /\ Len(posed) < MaxPosed
    /\ posed' = Append(posed, [bucket |-> b, profile |-> profile, surface |-> surface, by |-> p])
    /\ LET query == Len(posed) + 1
           go(at, sim, due) ==
               Goes(p, [at |-> at, query |-> query, bucket |-> b, profile |-> profile, text |-> x,
                        sim |-> sim, due |-> due, todo |-> Sources, cell |-> Nothing,
                        docs |-> [s \in Sources |-> 0], arm |-> Nothing]) IN
       \/ /\ UNCHANGED mishaps
          /\ \E i \in MostSimilar(x) :
                 LET sim == Similarity(x, recent[i].text)
                     earlier == recent[i] IN
                 \/ /\ Fires(sim) /\ repeats' = repeats \cup {<<query, earlier.query>>}
                    /\ \E low \in LowRewards(sim) :
                           go("append", sim, [query |-> earlier.query, bucket |-> earlier.bucket,
                                              profile |-> earlier.profile, low |-> low,
                                              kind |-> "implicit_repeat", arm |-> Nothing])
                 \/ ~Fires(sim) /\ UNCHANGED repeats /\ go("record", sim, Nothing)
       \/ MostSimilar(x) = {} /\ go("record", 0, Nothing) /\ UNCHANGED <<repeats, mishaps>>
       \/ Fail /\ go("record", 0, Nothing) /\ UNCHANGED repeats
    /\ UNCHANGED <<recent, traces, rewards, learned, memory, reports, shown, samples, joins>>

-----------------------------------------------------------------------------
(* What a repeat and dev_feedback have in common: the row and the patch of *)
(* the trace, whose hash HSET makes if it is not there.  Nobody reads the  *)
(* one without the other, and every error is ignored.                      *)
AppendAndPatch(p) ==
    /\ On(p, "append") /\ Then(p, "credit")
    /\ LET due == call[p].due
           append == rewards' = rewards \cup {[query |-> due.query, bucket |-> due.bucket,
                                               profile |-> due.profile, kind |-> due.kind]}
           patch == traces' = [traces EXCEPT ![due.query].known = TRUE] IN
       \/ append /\ patch /\ UNCHANGED mishaps
       \/ append /\ Fail /\ UNCHANGED traces
       \/ patch /\ Fail /\ UNCHANGED rewards
    /\ UNCHANGED <<recent, learned, memory, reports, logs>>

NoTrial == Nothing
Counts(t, arm) == t # NoTrial /\ arm # Nothing /\ t.source = arm.source /\ arm.docs \in {t.docs, t.base}

(* Update: a sample of the candidate or of the base it was drawn against.  *)
Counted(t, arm, low) ==
    IF arm.docs = t.docs
    THEN [t EXCEPT !.tried = @ + 1, !.strikes = IF low THEN @ + 1 ELSE 0]
    ELSE [t EXCEPT !.kept = @ + 1]

Struck(t) == t.strikes >= TrialStrikes
WindowIsFull(t) == t.tried >= TrialWindow /\ t.kept >= TrialBase

EndTrial(p, b) == trials' = [trials EXCEPT ![p][b] = NoTrial]
Learn(b, s, docs) == breadths' = [breadths EXCEPT ![b][s] = docs]

(* Three strikes roll back to the frozen default, or to the base if it     *)
(* cannot be read; a full window is judged, and a promotion that cannot be *)
(* written is judged again with the next sample.                           *)
UpdateSource(p, b, t) ==
    \/ /\ Struck(t) /\ EndTrial(p, b)
       /\ \/ Learn(b, t.source, IF frozen[b][t.source] # 0 THEN frozen[b][t.source] ELSE t.base)
             /\ UNCHANGED mishaps
          \/ Fail /\ Learn(b, t.source, t.base)
          \/ Fail /\ UNCHANGED breadths
    \/ /\ ~Struck(t) /\ WindowIsFull(t)
       /\ \/ Learn(b, t.source, t.docs) /\ EndTrial(p, b) /\ UNCHANGED mishaps
          \/ Fail /\ trials' = [trials EXCEPT ![p][b] = t] /\ UNCHANGED breadths
          \/ EndTrial(p, b) /\ UNCHANGED <<breadths, mishaps>>
    \/ /\ ~Struck(t) /\ ~WindowIsFull(t)
       /\ trials' = [trials EXCEPT ![p][b] = t] /\ UNCHANGED <<breadths, mishaps>>

(* The profile is credited as ProfileBandit has it.  A repeat looks for    *)
(* the arm in the trace of the query it repeats, feedback has it already.  *)
Credit(p) ==
    /\ On(p, "credit")
    /\ LET due == call[p].due
           t == trials[p][due.bucket]
           arm == IF due.kind = "explicit" THEN due.arm ELSE traces[due.query].arm IN
       /\ IF due.kind = "explicit" THEN Goes(p, Idling) ELSE Then(p, "record")
       /\ \/ /\ Counts(t, arm) /\ UpdateSource(p, due.bucket, Counted(t, arm, due.low))
             /\ samples' = samples \cup {[query |-> due.query, source |-> arm.source, docs |-> arm.docs]}
          \/ /\ ~Counts(t, arm) /\ UNCHANGED <<trials, breadths, samples, mishaps>>
          \/ /\ due.kind # "explicit" /\ Fail /\ UNCHANGED <<trials, breadths, samples>>
    /\ UNCHANGED <<recent, traces, rewards, frozen, lastCall, reports, posed, shown, repeats, joins>>

-----------------------------------------------------------------------------
RecordQuery(p) ==
    /\ On(p, "record") /\ Then(p, "breadths")
    /\ LET c == call[p] IN
       \/ recent' = Append(recent, [query |-> c.query, bucket |-> c.bucket,
                                    profile |-> c.profile, text |-> c.text])
          /\ UNCHANGED mishaps
       \/ Fail /\ UNCHANGED recent
    /\ UNCHANGED <<traces, rewards, learned, memory, reports, logs>>

(* CurrentSourceBreadth: a cell that is missing is seeded, and so is the   *)
(* default that a rollback returns to.                                     *)
ReadBreadth(p, s) ==
    /\ On(p, "breadths") /\ s \in call[p].todo
    /\ LET c == call[p]
           got(docs, at) == Goes(p, [c EXCEPT !.at = at, !.todo = @ \ {s}, !.docs[s] = docs]) IN
       \/ breadths[c.bucket][s] # 0 /\ got(breadths[c.bucket][s], "breadths") /\ UNCHANGED mishaps
       \/ breadths[c.bucket][s] = 0
          /\ Goes(p, [c EXCEPT !.at = "seed", !.todo = @ \ {s}, !.docs[s] = SeedDocs,
                           !.cell = s])
          /\ UNCHANGED mishaps
       \/ Fail /\ got(SeedDocs, "breadths")
    /\ UNCHANGED <<recent, traces, rewards, learned, memory, reports, logs>>

(* SET of the cell and SETNX of its default, which nobody needs to tell    *)
(* apart: either may fail.                                                 *)
SeedBreadth(p) ==
    /\ On(p, "seed") /\ Then(p, "breadths")
    /\ LET set == Learn(call[p].bucket, call[p].cell, SeedDocs)
           freeze == frozen' = [frozen EXCEPT ![call[p].bucket][call[p].cell] =
                                    IF @ = 0 THEN SeedDocs ELSE @] IN
       \/ set /\ freeze /\ UNCHANGED mishaps
       \/ set /\ Fail /\ UNCHANGED frozen
       \/ freeze /\ Fail /\ UNCHANGED breadths
    /\ UNCHANGED <<recent, traces, rewards, memory, reports, logs>>

Clip(docs) == IF docs < LeastDocs THEN LeastDocs ELSE IF docs > MostDocs THEN MostDocs ELSE docs

Widened(docs) ==
    IF docs + docs \div 2 > MostDocs THEN MostDocs ELSE docs + docs \div 2

(* Mutant: repeats are sampled as well.                                    *)
ExploredAlways(repeat, arm) == arm

(* A repeat widens every source, so it is no sample of either arm.         *)
Explored(repeat, arm) == IF repeat THEN Nothing ELSE arm

(* SelectAll: an experiment is served with its candidate or its base; where*)
(* there is none, one source may start one.  A bucket with few queries     *)
(* explores nothing.                                                       *)
SelectAll(p) ==
    /\ On(p, "breadths") /\ call[p].todo = {}
    /\ LET c == call[p]
           t == trials[p][c.bucket]
           repeat == IsRepeat(c.sim)
           serve(docs, arm) ==
               /\ Goes(p, [c EXCEPT !.at = "put", !.arm = Explored(repeat, arm)])
               /\ shown' = [shown EXCEPT ![c.query] =
                      [repeat |-> repeat,
                       docs |-> IF repeat THEN [s \in Sources |-> Widened(docs[s])] ELSE docs]] IN
       \/ serve(c.docs, Nothing) /\ UNCHANGED trials
       \/ /\ t # NoTrial /\ UNCHANGED trials
          /\ \E docs \in {t.docs, t.base} :
                 serve([c.docs EXCEPT ![t.source] = docs], [source |-> t.source, docs |-> docs])
       \/ /\ t = NoTrial
          /\ \E s \in Sources : \E docs \in {Clip(c.docs[s] - 1), Clip(c.docs[s] + 1)} \ {c.docs[s]} :
                 /\ trials' = [trials EXCEPT ![p][c.bucket] =
                        [source |-> s, docs |-> docs, base |-> c.docs[s],
                         tried |-> 0, kept |-> 0, strikes |-> 0]]
                 /\ serve([c.docs EXCEPT ![s] = docs], [source |-> s, docs |-> docs])
    /\ UNCHANGED <<recent, traces, rewards, learned, lastCall, reports, mishaps, posed,
                   samples, repeats, joins>>

(* PutTrace adds to a hash that a repeat may already have patched.         *)
PutTrace(p) ==
    /\ On(p, "put") /\ Goes(p, Idling)
    /\ LET c == call[p]
           served == [query |-> c.query, bucket |-> c.bucket, profile |-> c.profile] IN
       /\ lastCall' = [lastCall EXCEPT ![p] = served]
       /\ \/ traces' = [traces EXCEPT ![c.query] = [known |-> TRUE, of |-> served, arm |-> c.arm]]
             /\ UNCHANGED mishaps
          \/ Fail /\ UNCHANGED traces
    /\ UNCHANGED <<recent, rewards, learned, trials, reports, logs>>

-----------------------------------------------------------------------------
Answered == {q \in 1 .. Len(posed) : shown[q] # Nothing}

Join(p, named, served, arm) ==
    /\ \E low \in BOOLEAN :
           Goes(p, [at |-> "append", due |->
               [query |-> served.query, bucket |-> served.bucket, profile |-> served.profile,
                kind |-> "explicit", arm |-> arm, low |-> low]])
    /\ joins' = joins \cup {[named |-> named, to |-> served.query, by |-> p]}

(* SubmitFeedback with the id of a query, or with none (0): its trace says *)
(* what to credit.  If there is none, or it cannot be read, the last call  *)
(* is credited; if all that is there is a patch, nothing is.               *)
SubmitFeedback(p, q) ==
    /\ On(p, "idle") /\ reports < MaxReports /\ reports' = reports + 1
    /\ LET trace == IF q = 0 THEN NoTrace ELSE traces[q]
           fallBack == Goes(p, [at |-> "fall back", named |-> q]) IN
       \/ trace.of # Nothing /\ Join(p, q, trace.of, trace.arm) /\ UNCHANGED mishaps
       \/ trace.of = Nothing /\ trace.known /\ UNCHANGED <<call, mishaps, joins>>
       \/ ~trace.known /\ fallBack /\ UNCHANGED <<mishaps, joins>>
       \/ trace.known /\ Fail /\ fallBack /\ UNCHANGED joins
    /\ UNCHANGED <<recent, traces, rewards, learned, memory, posed, shown, samples, repeats>>

(* MostRecent; its entry may be too old.  The trace, if it can be read,    *)
(* tells the arm.                                                          *)
FallBack(p) ==
    /\ On(p, "fall back")
    /\ LET served == lastCall[p]
           named == call[p].named IN
       \/ Goes(p, Idling) /\ UNCHANGED <<joins, mishaps>>
       \/ served # Nothing /\ Join(p, named, served, traces[served.query].arm) /\ UNCHANGED mishaps
       \/ served # Nothing /\ Fail /\ Join(p, named, served, Nothing)
    /\ UNCHANGED <<recent, traces, rewards, learned, memory, reports, posed, shown, samples, repeats>>

(* The oldest query leaves the look-back window.                           *)
Forget ==
    /\ recent # <<>> /\ recent' = Tail(recent)
    /\ UNCHANGED <<traces, rewards, learned, memory, call, reports, mishaps, logs>>

(* A process ends, and with it its experiments and its last call.          *)
EndProcess(p) ==
    /\ Fail /\ Goes(p, Idling)
    /\ trials' = [trials EXCEPT ![p] = [b \in Buckets |-> NoTrial]]
    /\ lastCall' = [lastCall EXCEPT ![p] = Nothing]
    /\ UNCHANGED <<recent, traces, rewards, learned, reports, logs>>

StepFeedback ==
    \/ \E p \in Servers :
           \/ \E serving \in Served, x \in Texts :
                  Pose(p, serving[1], serving[2], serving[3], x)
           \/ AppendAndPatch(p) \/ Credit(p) \/ RecordQuery(p)
           \/ \E s \in Sources : ReadBreadth(p, s)
           \/ SeedBreadth(p) \/ SelectAll(p) \/ PutTrace(p)
           \/ \E q \in Answered \cup {0} : SubmitFeedback(p, q)
           \/ FallBack(p) \/ EndProcess(p)
    \/ Forget

SpecFeedback == InitFeedback /\ [][StepFeedback]_feedbackVars

-----------------------------------------------------------------------------
FeedbackTypeOK ==
    /\ Len(posed) <= MaxPosed /\ repeats \subseteq QueryId \X QueryId
    /\ breadths \in [Buckets -> [Sources -> 0 .. MostDocs]]
    /\ frozen \in [Buckets -> [Sources -> {0, SeedDocs}]]
    /\ \A q \in QueryId : traces[q].of # Nothing => traces[q].known

(* Whatever credits a query, a repeat or feedback of any process, by its   *)
(* entry, its trace or the last call, credits the bucket the query was     *)
(* filed under and the profile it was served.  Whether the profile was     *)
(* that bucket's is another matter: see RewardsReachWhatServed.            *)
RewardsReachTheirBucket ==
    \A r \in rewards : r.bucket = posed[r.query].bucket /\ r.profile = posed[r.query].profile

(* No query is penalised for itself, nor two for each other, though their  *)
(* processes detect and record at the same time.                           *)
RepeatsGoBack ==
    \A pair \in repeats : pair[2] < pair[1]

(* router.go:1425 "a repeat widens every source, which would corrupt the   *)
(* A/B comparison": a sample that an experiment counts is of a query that  *)
(* was served exactly that many documents of that source.                  *)
SamplesAreOfWhatWasServed ==
    \A s \in samples : shown[s.query] # Nothing /\ shown[s.query].docs[s.source] = s.docs

(* Feedback reaches the query it names or else one of the process it came  *)
(* to, never one that another agent asked.                                 *)
FeedbackStaysHome ==
    \A j \in joins : j.to = j.named \/ posed[j.to].by = j.by

(* SourceDocsBounds is "the hard guardrail", through promotions, late      *)
(* seeds, rollbacks and widening; an experiment tries a step of one.       *)
BreadthsAreBounded ==
    /\ \A q \in Answered, s \in Sources : shown[q].docs[s] \in LeastDocs .. MostDocs
    /\ \A p \in Servers, b \in Buckets : LET t == trials[p][b] IN
           t # NoTrial => t.docs \in {t.base - 1, t.base + 1} /\ ~Struck(t)

(* docs/heuristics.md:219-222, feedback.go:143-146, router.go:644-647: a   *)
(* reward goes "to the exact bucket whose profile served the original      *)
(* query".                                                                 *)
RewardsReachWhatServed ==
    \A r \in rewards : r.bucket = posed[r.query].surface

RewardsFindTheirQuery ==
    /\ FeedbackTypeOK /\ RewardsReachTheirBucket /\ RepeatsGoBack
    /\ SamplesAreOfWhatWasServed /\ FeedbackStaysHome /\ BreadthsAreBounded
=============================================================================
