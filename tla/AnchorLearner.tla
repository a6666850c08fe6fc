--------------------------- MODULE AnchorLearner ---------------------------
(***************************************************************************)
(* internal/anchorlearn for one repository: which entry points are put     *)
(* before an agent that asks about a service (Decide), what is counted of  *)
(* them (RecordObservation), and how feedback and saved memories credit    *)
(* them or make new ones known.  Counters are in Redis, the ring of recent *)
(* queries in each process.  A process handles one call at a time.         *)
(***************************************************************************)
EXTENDS RouterState

CONSTANTS
    Services,       \* service tokens, numbered
    Suffixes,       \* path suffixes; a pattern is known by its suffix, in order of ids
    Static,         \* those of the static portfolio
    Controller,     \* the pattern of controllers, web/controllers/<noun>.go
    Noun,           \* the suffix of the controller that a query names
    Present,        \* <<service, suffix>>: the files that exist
    Words,          \* query keywords
    WordsOf(_),     \* the keywords of a static pattern
    MaxAnchors,     \* maxServiceAnchors
    MinFires,       \* MinFiresBeforeExploit
    RingSize,       \* recentObsRingSize
    MaxDecisions, MaxSignals   \* bounds

AnchorFiles == Services \X Suffixes
Observation == [files : SUBSET AnchorFiles, words : SUBSET Words, services : SUBSET Services]
Scopes == {"all", "repo"}

(* The pattern of controllers is no path: an anchor of it is the file of   *)
(* the controller that was found.                                          *)
FileOf(f) == IF f[2] = Controller THEN <<f[1], Noun>> ELSE f

ASSUME AnchorAssumption ==
    /\ Services \subseteq Nat /\ Suffixes \subseteq Nat /\ Static \subseteq Suffixes
    /\ {Controller, Noun} \subseteq Suffixes \ Static /\ Controller # Noun
    /\ \A f \in Present : f[2] # Controller
    /\ IsFiniteSet(Services) /\ IsFiniteSet(Suffixes) /\ IsFiniteSet(Words)
    /\ Present \subseteq Services \X Suffixes /\ MaxAnchors \in Nat \ {0, 1}
    /\ MinFires \in Nat \ {0} /\ RingSize \in Nat \ {0} /\ MaxDecisions \in Nat
    /\ Nothing \notin Observation

VARIABLES
    firings,       \* fired of anchor:pattern:{id} ("all") and anchor:repo:... ("repo")
    wins,          \* success of the same hashes, in halves
    affinity,      \* anchor:keyword:{kw}:{id}, in halves
    discovered,    \* anchor:discovered:{repo}
    observations,  \* anchor:obs:{query}
    ring,          \* memory: ids of the recent queries
    work,          \* memory: the call a process handles
    signals,
    decided,       \* history: what each query was given
    credited,      \* history: <<query, file>>
    stored,        \* history: files a memory was saved of
    uncounted      \* history: <<scope, suffix>> of which a firing was lost

counters == <<firings, wins, affinity, discovered>>
anchorVars == <<counters, observations, ring, work, signals, mishaps, decided, credited,
                stored, uncounted>>

Resting == [at |-> "resting"]

InitAnchors ==
    /\ firings = [c \in Scopes |-> [s \in Suffixes |-> 0]] /\ wins = firings
    /\ affinity = [w \in Words |-> [s \in Suffixes |-> 0]] /\ discovered = {}
    /\ observations = [q \in 1 .. MaxDecisions |-> Nothing] /\ ring = [p \in Servers |-> <<>>]
    /\ work = [p \in Servers |-> Resting] /\ signals = 0 /\ mishaps = 0
    /\ decided = <<>> /\ credited = {} /\ stored = {} /\ uncounted = {}

Turns(p, w) == work' = [work EXCEPT ![p] = w]
Doing(p, at) == work[p].at = at

-----------------------------------------------------------------------------
(* score: the smoothed rate of a pattern everywhere, blended with its rate *)
(* in this repository as it fires there, times a bonus for keywords.  Half *)
(* a success is none, as the count is cut to an integer.  Keywords count   *)
(* for two hits at most: half an affinity is one, and so is being a keyword*)
(* of the portfolio.                                                       *)
Lesser(x, y) == IF x < y THEN x ELSE y

Score(s, words, static) ==
    LET won(c) == wins[c][s] \div 2 + 1
        all(c) == firings[c][s] + 2
        local == Lesser(firings["repo"][s], MinFires)
        hits == {hit \in words \X (0 .. 2) :
                    IF hit[2] = 0 THEN static /\ s \in Static /\ hit[1] \in WordsOf(s)
                    ELSE hit[2] <= affinity[hit[1]][s]} IN
    [of |-> ((10 * MinFires - 7 * local) * won("all") * all("repo")
             + 7 * local * won("repo") * all("all")) * (20 + 3 * Lesser(Cardinality(hits), 2)),
     by |-> all("all") * all("repo")]

(* rankByScore, and the order of services in the query for equal patterns. *)
Ahead(f, g, words, static) ==
    LET x == Score(f[2], words, static)
        y == Score(g[2], words, static) IN
    \/ x.of * y.by > y.of * x.by
    \/ x.of * y.by = y.of * x.by /\ (f[2] < g[2] \/ (f[2] = g[2] /\ f[1] < g[1]))

BestRanked(pool, k, words, static) ==
    {f \in pool : Cardinality({g \in pool : Ahead(g, f, words, static)}) < k}

(* epsilonGreedyShuffle: a pattern that is unproven here takes the last    *)
(* place; it is drawn from the pool before the files were looked for.      *)
Unproven(pool) == {f \in pool : firings["repo"][f[2]] < MinFires}

Choices(pool, words, static) ==
    LET best(k) == BestRanked(pool \cap Present, k, words, static) IN
    {[files |-> best(MaxAnchors), explored |-> {}]}
    \cup {[files |-> best(MaxAnchors - 1) \cup {f}, explored |-> {f}] :
             f \in IF static THEN Unproven(pool) \ best(MaxAnchors) ELSE {}}

NoAnchors == [files |-> {}, explored |-> {}]
Given(pool, words, static) ==
    IF pool \cap Present = {} THEN {NoAnchors} ELSE Choices(pool, words, static)

(* probeControllerAnchor, for the first service that has the file.         *)
FirstController(services) ==
    {<<s, Controller>> : s \in {x \in services : /\ <<x, Noun>> \in Present
                                                /\ \A y \in services : <<y, Noun>> \in Present => x <= y}}

(* The service entry-point pass of the router, after a document of the     *)
(* repository that it may have put first.  The full portfolio if the query *)
(* traces a service, else what was discovered; then the controller of a    *)
(* query about one.  The reads of Decide are taken together.               *)
Decide(p, words, services, traces) ==
    /\ Doing(p, "resting") /\ Len(decided) < MaxDecisions
    /\ traces \/ discovered # {}
    /\ \E known \in {discovered, {}}, docs \in 0 .. 1, asked \in {{}, FirstController(services)} :
           /\ IF known = discovered THEN UNCHANGED mishaps ELSE Fail
           /\ \E given \in Given(services \X (IF traces THEN Static \cup known ELSE known), words, traces) :
                  LET probed == IF docs + Cardinality(given.files) < MaxAnchors + 1 THEN asked ELSE {}
                      files == given.files \cup probed IN
                  /\ files # {}
                  /\ decided' = Append(decided, [given EXCEPT !.files = files])
                  /\ Turns(p, [at |-> "record", query |-> Len(decided) + 1, todo |-> files,
                              seen |-> [files |-> files, words |-> words,
                                        services |-> {f[1] : f \in files}]])
    /\ UNCHANGED <<counters, observations, ring, signals, credited, stored, uncounted>>

(* RecordObservation: a firing of every pattern in both records, then the  *)
(* observation; NoteRecentQuery follows whether or not it was written.     *)
Fire(p, f) ==
    /\ Doing(p, "record") /\ f \in work[p].todo
    /\ \A g \in work[p].todo : f[2] < g[2] \/ (f[2] = g[2] /\ f[1] <= g[1])
    /\ Turns(p, [work[p] EXCEPT !.todo = @ \ {f}])
    /\ \E missed \in SUBSET Scopes :
           /\ IF missed = {} THEN UNCHANGED mishaps ELSE Fail
           /\ firings' = [c \in Scopes |-> IF c \in missed THEN firings[c]
                                           ELSE [firings[c] EXCEPT ![f[2]] = @ + 1]]
           /\ uncounted' = uncounted \cup {<<c, f[2]>> : c \in missed}
    /\ UNCHANGED <<wins, affinity, discovered, observations, ring, signals, decided, credited, stored>>

Pushed(ids, q) == Append(IF Len(ids) >= RingSize THEN Tail(ids) ELSE ids, q)

PutObservation(p) ==
    /\ Doing(p, "record") /\ work[p].todo = {} /\ Turns(p, Resting)
    /\ \/ observations' = [observations EXCEPT ![work[p].query] = work[p].seen] /\ UNCHANGED mishaps
       \/ Fail /\ UNCHANGED observations
    /\ ring' = [ring EXCEPT ![p] = Pushed(@, work[p].query)]
    /\ UNCHANGED <<counters, signals, decided, credited, stored, uncounted>>

-----------------------------------------------------------------------------
(* A success of pattern s, for a query of these words; increments that     *)
(* fail are ignored.                                                       *)
Win(s, words, weight) ==
    \E missed \in SUBSET Scopes :
        /\ IF missed = {} THEN UNCHANGED mishaps ELSE Fail
        /\ wins' = [c \in Scopes |-> IF c \in missed THEN wins[c]
                                     ELSE [wins[c] EXCEPT ![s] = @ + weight]]
        /\ affinity' = [w \in Words |-> IF w \in words THEN [affinity[w] EXCEPT ![s] = @ + weight]
                                        ELSE affinity[w]]

(* RewardFeedback: what the agent read is credited if its query was given  *)
(* it, to every pattern it was given as; half a success if the task failed.*)
RewardFeedback(p, q, read, success) ==
    /\ Doing(p, "resting") /\ signals < MaxSignals /\ signals' = signals + 1
    /\ observations[q] # Nothing
    /\ LET hits == {f \in observations[q].files : FileOf(f) \in read} IN
       Turns(p, IF hits = {} THEN Resting
               ELSE [at |-> "reward", query |-> q, words |-> observations[q].words, todo |-> hits,
                     weight |-> IF success THEN 2 ELSE 1])
    /\ UNCHANGED <<counters, observations, ring, mishaps, decided, credited, stored, uncounted>>

Reward(p, f) ==
    /\ Doing(p, "reward") /\ f \in work[p].todo
    /\ Turns(p, IF work[p].todo = {f} THEN Resting ELSE [work[p] EXCEPT !.todo = @ \ {f}])
    /\ Win(f[2], work[p].words, work[p].weight)
    /\ credited' = credited \cup {<<work[p].query, f>>}
    /\ UNCHANGED <<firings, discovered, observations, ring, signals, decided, stored, uncounted>>

(* RewardMemorySave: every recent query of the process whose observation   *)
(* can be read.                                                            *)
SaveMemory(p, f) ==
    /\ Doing(p, "resting") /\ signals < MaxSignals /\ signals' = signals + 1
    /\ stored' = stored \cup {f}
    /\ LET kept == {q \in 1 .. Len(decided) :
                       observations[q] # Nothing /\ \E i \in 1 .. Len(ring[p]) : ring[p][i] = q} IN
       \E unread \in SUBSET kept :
           /\ IF unread = {} THEN UNCHANGED mishaps ELSE Fail
           /\ Turns(p, [at |-> "attribute", file |-> f, todo |-> kept \ unread])
    /\ UNCHANGED <<counters, observations, ring, decided, credited, uncounted>>

(* The ring is walked from its oldest query, which has the lowest id.      *)
IsOldest(q, ids) == q \in ids /\ \A r \in ids : q <= r

(* Mutant: what the portfolio holds already is not looked up.              *)
IsDiscovered(s) == s \in discovered

IsKnown(s) == s \in Static \cup discovered

(* The anchor of a query that a saved file is credited to: the first one   *)
(* that is of this file, and the controller comes last.                    *)
IsAnchor(f, file, files) ==
    f \in files /\ FileOf(f) = file /\ (f[2] = Controller => file \notin files)
IsAnchored(file, files) == \E f \in files : FileOf(f) = file

(* attributeMemorySave: a file the query was given is credited; one beside *)
(* them, under a service they are of, is a discovery unless it is known,   *)
(* or what was discovered cannot be read.                                  *)
Attribute(p) ==
    /\ Doing(p, "attribute")
    /\ LET w == work[p]
           discover == Turns(p, [w EXCEPT !.at = "discover"]) IN
       \/ /\ w.todo = {} /\ Turns(p, Resting)
          /\ UNCHANGED <<wins, affinity, credited, mishaps>>
       \/ \E q \in w.todo :
              LET obs == observations[q]
                  skip == Turns(p, [w EXCEPT !.todo = @ \ {q}]) IN
              /\ IsOldest(q, w.todo)
              /\ \/ \E f \in obs.files :
                        /\ IsAnchor(f, w.file, obs.files) /\ skip
                        /\ Win(f[2], obs.words, 1) /\ credited' = credited \cup {<<q, f>>}
                 \/ /\ ~IsAnchored(w.file, obs.files)
                    /\ IF w.file[1] \in obs.services /\ ~IsKnown(w.file[2]) THEN discover ELSE skip
                    /\ UNCHANGED <<wins, affinity, credited, mishaps>>
                 \/ /\ ~IsAnchored(w.file, obs.files) /\ w.file[1] \in obs.services
                    /\ w.file[2] \notin Static /\ Fail /\ discover
                    /\ UNCHANGED <<wins, affinity, credited>>
    /\ UNCHANGED <<firings, discovered, observations, ring, signals, decided, stored, uncounted>>

(* A discovery: AddDiscovered, which ends it if it fails; then the firing  *)
(* and the half success it starts with in this repository, each a command  *)
(* of its own whose error is ignored.  Another process may act, or this    *)
(* one end, between any two.                                               *)
Proceeds(p, at) == Turns(p, [work[p] EXCEPT !.at = at])
Moves(p, q) == Turns(p, [work[p] EXCEPT !.at = "attribute", !.todo = @ \ {q}])

AddDiscovered(p, q) ==
    /\ Doing(p, "discover") /\ q \in work[p].todo /\ IsOldest(q, work[p].todo)
    /\ \/ /\ discovered' = discovered \cup {work[p].file[2]}
          /\ Proceeds(p, "seedFiring") /\ UNCHANGED mishaps
       \/ Fail /\ Moves(p, q) /\ UNCHANGED discovered
    /\ UNCHANGED <<firings, wins, affinity, observations, ring, signals, decided, credited, stored,
                   uncounted>>

SeedFiring(p) ==
    /\ Doing(p, "seedFiring") /\ Proceeds(p, "seedWin")
    /\ LET s == work[p].file[2] IN
       \/ firings' = [firings EXCEPT !["repo"][s] = @ + 1] /\ UNCHANGED <<mishaps, uncounted>>
       \/ Fail /\ uncounted' = uncounted \cup {<<"repo", s>>} /\ UNCHANGED firings
    /\ UNCHANGED <<wins, affinity, discovered, observations, ring, signals, decided, credited, stored>>

SeedWin(p, q) ==
    /\ Doing(p, "seedWin") /\ q \in work[p].todo /\ IsOldest(q, work[p].todo) /\ Moves(p, q)
    /\ LET s == work[p].file[2] IN
       /\ \/ wins' = [wins EXCEPT !["repo"][s] = @ + 1] /\ UNCHANGED mishaps
          \/ Fail /\ UNCHANGED wins
       /\ affinity' = [v \in Words |-> IF v \in observations[q].words
                                       THEN [affinity[v] EXCEPT ![s] = @ + 1] ELSE affinity[v]]
    /\ UNCHANGED <<firings, discovered, observations, ring, signals, decided, credited, stored, uncounted>>

(* The counters outlive a process, its ring does not.                      *)
Reboot(p) ==
    /\ Fail /\ Turns(p, Resting) /\ ring' = [ring EXCEPT ![p] = <<>>]
    /\ UNCHANGED <<counters, observations, signals, decided, credited, stored, uncounted>>

StepAnchors ==
    \E p \in Servers :
        \/ \E words \in SUBSET Words, services \in SUBSET Services, traces \in BOOLEAN :
               Decide(p, words, services, traces)
        \/ \E f \in AnchorFiles : Fire(p, f) \/ Reward(p, f)
        \/ PutObservation(p)
        \/ \E q \in 1 .. Len(decided), success \in BOOLEAN :
               \E read \in SUBSET Present : RewardFeedback(p, q, read, success)
        \/ \E f \in Present : SaveMemory(p, f)
        \/ \E q \in 1 .. MaxDecisions : AddDiscovered(p, q) \/ SeedWin(p, q)
        \/ Attribute(p) \/ SeedFiring(p) \/ Reboot(p)

SpecAnchors == InitAnchors /\ [][StepAnchors]_anchorVars

-----------------------------------------------------------------------------
AnchorTypeOK ==
    /\ firings \in [Scopes -> [Suffixes -> Nat]] /\ wins \in [Scopes -> [Suffixes -> Nat]]
    /\ affinity \in [Words -> [Suffixes -> Nat]] /\ discovered \subseteq Suffixes
    /\ \A p \in Servers : Len(ring[p]) <= RingSize

(* No pattern has a success that has never fired, in either record and     *)
(* whichever process credits it; one discovered starts with both.          *)
SuccessFollowsFiring ==
    \A c \in Scopes, s \in Suffixes : wins[c][s] > 0 /\ <<c, s>> \notin uncounted => firings[c][s] > 0

(* The firings that rates are divided by are of anchors that were given.   *)
FiringsWereGiven ==
    \A s \in Suffixes :
        firings["all"][s] <= Cardinality({pair \in (1 .. Len(decided)) \X AnchorFiles :
                                              pair[2] \in decided[pair[1]].files /\ pair[2][2] = s})

(* "already-probed Candidates" (router.go:3092): an agent is sent to files *)
(* that exist, but for one that is explored, which leaves one at least;    *)
(* MaxAnchors are from the learner and one more is a controller.           *)
AnchorsExist ==
    \A q \in 1 .. Len(decided) :
        /\ \A f \in decided[q].files \ decided[q].explored : FileOf(f) \in Present
        /\ \E f \in decided[q].files : FileOf(f) \in Present
        /\ Cardinality(decided[q].explored) <= 1
        /\ Cardinality({f \in decided[q].files : f[2] # Controller}) <= MaxAnchors
        /\ Cardinality(decided[q].files) <= MaxAnchors + 1

(* What is discovered was saved by an agent, and is not in the portfolio   *)
(* already, though processes discover at the same time.                    *)
DiscoveriesAreNew ==
    \A s \in discovered : s \notin Static /\ \E f \in stored : f[2] = s

(* Feedback and memories credit a query for files it was given only.       *)
CreditIsForWhatWasGiven ==
    \A pair \in credited : pair[2] \in decided[pair[1]].files

AnchorsAreEarned ==
    /\ AnchorTypeOK /\ SuccessFollowsFiring /\ FiringsWereGiven /\ AnchorsExist
    /\ DiscoveriesAreNew /\ CreditIsForWhatWasGiven
=============================================================================
