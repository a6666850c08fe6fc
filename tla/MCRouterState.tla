--------------------------- MODULE MCRouterState ---------------------------
(***************************************************************************)
(* What several devrouter processes keep in one Redis, checked side by     *)
(* side: the topics of a bucket, the memories of a repository, the rewards *)
(* of its queries, its entry points.  part says which of them a behaviour  *)
(* is of, and the others keep their initial state.                         *)
(***************************************************************************)
EXTENDS TopicRegistry, MemoryStore, FeedbackLoop, AnchorLearner, TLC

CONSTANTS p1, p2, b1, b2, r1, r2

VARIABLE part

mv == <<memories, decisions, overlay, flagged, schema, index, task, tasks, saved, overtaken,
        doomed, unread, revived, notice, complaints, cut>>
fv == <<recent, traces, rewards, breadths, frozen, trials, lastCall, call, reports, posed,
        shown, samples, repeats, joins>>
av == <<firings, wins, affinity, discovered, observations, ring, work, signals, decided,
        credited, stored, uncounted>>
all == <<part, mishaps, vars, mv, fv, av>>

InitAll ==
    /\ part \in {"topics", "memory", "feedback", "anchors"}
    /\ Init /\ InitFeedback /\ InitAnchors
    /\ InitMemory /\ (part # "memory" => schema = "v6")

(* A bound: two rewards and a failure meet in one process only.            *)
Alone == \E p \in Servers : posed # <<>> /\ \A i \in DOMAIN posed : posed[i].by = p
Bounded == mishaps + reports + signals < 3 \/ Alone

NextAll ==
    /\ UNCHANGED part
    /\ \/ part = "topics" /\ Next /\ UNCHANGED <<mishaps, mv, fv, av>>
       \/ part = "memory" /\ StepMemory /\ UNCHANGED <<vars, fv, av>>
       \/ part = "feedback" /\ StepFeedback /\ UNCHANGED <<vars, mv, av>> /\ Bounded'
       \/ part = "anchors" /\ StepAnchors /\ UNCHANGED <<vars, mv, fv>> /\ Bounded'

SpecAll == InitAll /\ [][NextAll]_all

(* What a query is served: the profile of its bucket's own surface when    *)
(* the topic is hot, one of the intent-global surface when it is cold.     *)
(* Then which files there are, and the keyword of a pattern.               *)
ColdTopics == {<<b1, r1, IntentGlobal>>, <<b2, r2, IntentGlobal>>}
HotOrCold == ColdTopics \cup {<<b1, r1, b1>>, <<b2, r2, b2>>}
SomeFiles == {<<1, 1>>, <<1, 3>>}
KeywordOfTwo(s) == IF s = 2 THEN Words ELSE {}

(* Processes are interchangeable, and so are the two surfaces.             *)
Interchangeable ==
    Permutations({p1, p2}) \cup {b1 :> b2 @@ b2 :> b1 @@ r1 :> r2 @@ r2 :> r1}

=============================================================================
