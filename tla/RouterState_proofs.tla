------------------------ MODULE RouterState_proofs ------------------------
(***************************************************************************)
(* Proofs about what devrouter processes keep in Redis: the memories of a  *)
(* repository (MemoryStore), the way rewards find back to a query          *)
(* (FeedbackLoop) and what anchors are credited with (AnchorLearner), for  *)
(* any processes, keys, queries, decisions, failing commands and crashes.  *)
(***************************************************************************)
EXTENDS MemoryStore, FeedbackLoop, AnchorLearner, FiniteSetTheorems, TLAPS

(* What a process can be doing to the memories.                            *)
Migrating == {"wipe", "drop", "look", "create"}
FlagTask ==
    [at : {"flag"}, read : SUBSET Files, clean : BOOLEAN, named : BOOLEAN, todo : SUBSET Keys]
CountTask == [at : {"count"}, key : Keys, count : Nat, after : FlagTask]
MemoryTask ==
    {Down, Serving, [at |-> "stamp"]}
    \cup [at : Migrating, anew : BOOLEAN]
    \cup [at : {"populate"}, todo : SUBSET Paths]
    \cup [at : {"embed"}, key : Paths, todo : SUBSET Paths]
    \cup [at : {"listing"}, name : Names]
    \cup [at : {"retire", "relate"}, old : Names, new : Names]
    \cup FlagTask \cup CountTask

StoreTypeOK ==
    /\ MemoryTypeOK
    /\ task \in [Servers -> MemoryTask]
    /\ notice \in [Names -> {"none", "pending", "unheard", "clear", "warned"}]
    /\ overlay \in [useful : [Files -> Nat], dead : [Files -> Nat], total : Nat]
    /\ revived \subseteq Names /\ mishaps \in Nat

(* What a process carries from one command to the next still fits what the *)
(* others have done meanwhile, unless a wipe was due that should not be.   *)
(* Before the schema is current nobody serves.                             *)
Starting == {"down", "stamp"} \cup Migrating
CountFits(t) == t.at = "count" => t.count <= complaints[t.key]
EmbedIsExcused(t) ==
    t.at = "embed" => t.key \notin saved \/ t.key \in overtaken \cup unread
LinkFits(t) ==
    /\ t.at \in {"retire", "relate"} => t.old \in Listed /\ t.new \in Listed
    /\ t.at = "relate" => t.old \in revived \/ decisions[t.old].status = "superseded"
StartFits(t) ==
    schema = "v6" \/ (t.at \in Starting /\ (t.at \in Migrating => t.anew = TRUE))

TasksFit ==
    \A p \in Servers :
        /\ CountFits(task[p])
        /\ doomed \/ (EmbedIsExcused(task[p]) /\ LinkFits(task[p]) /\ StartFits(task[p]))

(* A decision that is not listed is not there, and none refers to it.      *)
LinksAreListed ==
    doomed \/ \A d \in Names :
        /\ decisions[d] = NoDecision \/ d \in Listed
        /\ decisions[d].supersedes \in Listed \cup {Nothing}

(* While a version is to be migrated, there is nothing worth keeping.      *)
NothingToWipe ==
    doomed \/ (schema = "v6" /\ ~WipeIsDue) \/ (saved = {} /\ Listed = {})

CountsAreComplaints == \A k \in Keys : flagged[k] <= complaints[k]

KeptSoFar ==
    /\ AgentMemoriesSurvive /\ SupersededStaysSo /\ LinksAreListed /\ ConflictsAreNoticed
    /\ NothingToWipe /\ IndexComesBack /\ CountsAreComplaints /\ OverlayAddsUp

MemoryInv == StoreTypeOK /\ TasksFit /\ KeptSoFar

-----------------------------------------------------------------------------
(* A task is known by what it is at.                                       *)
LEMMA TaskShapes ==
    ASSUME NEW t \in MemoryTask
    PROVE  /\ t.at \in Migrating => t \in [at : Migrating, anew : BOOLEAN]
           /\ t.at = "populate" => t \in [at : {"populate"}, todo : SUBSET Paths]
           /\ t.at = "embed" => t \in [at : {"embed"}, key : Paths, todo : SUBSET Paths]
           /\ t.at = "listing" => t \in [at : {"listing"}, name : Names]
           /\ t.at \in {"retire", "relate"} => t \in [at : {"retire", "relate"}, old : Names, new : Names]
           /\ t.at = "flag" => t \in FlagTask
           /\ t.at = "count" => t \in CountTask
BY DEF MemoryTask, FlagTask, CountTask, Migrating, Down, Serving

LEMMA GoKeeps ==
    ASSUME task \in [Servers -> MemoryTask], NEW p \in Servers, NEW t \in MemoryTask, Go(p, t)
    PROVE  /\ task' \in [Servers -> MemoryTask] /\ task'[p] = t
           /\ \A q \in Servers \ {p} : task'[q] = task[q]
BY DEF Go

LEMMA FailCounts == ASSUME mishaps \in Nat, Fail PROVE mishaps' \in Nat /\ mishaps' # mishaps
BY DEF Fail

(* Resting processes rely on nothing but the schema.                       *)
LEMMA RestingFits ==
    ASSUME NEW t \in {Down, Serving}
    PROVE  /\ t \in MemoryTask /\ CountFits(t) /\ EmbedIsExcused(t) /\ LinkFits(t)
           /\ t = Down => StartFits(t)
           /\ t.at \notin Migrating
BY DEF Down, Serving, CountFits, EmbedIsExcused, LinkFits, StartFits, Starting, MemoryTask, Migrating

LEMMA MemoryInvStarts == InitMemory => MemoryInv
<1> SUFFICES ASSUME InitMemory PROVE MemoryInv
  OBVIOUS
<1>1. StoreTypeOK
  <2>1. NoDecision \in [status : {"none", "active", "superseded"}, listed : BOOLEAN,
                        supersedes : Names \cup {Nothing}, by : Names \cup {Nothing}]
    BY DEF NoDecision
  <2>2. task \in [Servers -> MemoryTask]
    BY RestingFits DEF InitMemory
  <2>3. overlay \in [useful : [Files -> Nat], dead : [Files -> Nat], total : Nat]
    BY DEF InitMemory
  <2> QED
    BY <2>1, <2>2, <2>3 DEF InitMemory, StoreTypeOK, MemoryTypeOK
<1>2. TasksFit
  BY RestingFits DEF InitMemory, TasksFit
<1>3. Listed = {}
  BY DEF InitMemory, Listed, NoDecision
<1>4. AgentMemoriesSurvive /\ SupersededStaysSo /\ ConflictsAreNoticed /\ NothingToWipe
  BY <1>3 DEF InitMemory, AgentMemoriesSurvive, SupersededStaysSo, ConflictsAreNoticed, NothingToWipe
<1>5. LinksAreListed
  BY DEF InitMemory, LinksAreListed, NoDecision
<1>6. IndexComesBack
  <2>1. index = "ready"
    BY DEF InitMemory
  <2> QED
    BY <2>1 DEF IndexComesBack, Exists
<1>8. CountsAreComplaints
  <2>1. \A k \in Keys : flagged[k] = 0 /\ complaints[k] = 0
    BY DEF InitMemory
  <2> QED
    BY <2>1 DEF CountsAreComplaints
<1>7. OverlayAddsUp
  <2>1. overlay.useful = [f \in Files |-> 0] /\ overlay.dead = [f \in Files |-> 0] /\ overlay.total = 0
    BY DEF InitMemory
  <2> QED
    BY <2>1 DEF OverlayAddsUp
<1> QED
  BY <1>1, <1>2, <1>4, <1>5, <1>6, <1>7, <1>8 DEF MemoryInv, KeptSoFar

-----------------------------------------------------------------------------
(* What a step leaves as it was goes on to hold.                           *)
LEMMA StoreIsKept ==
    ASSUME KeptSoFar, doomed => doomed',
           UNCHANGED <<memories, decisions, overlay, flagged, saved, overtaken, unread, revived,
                       notice, complaints>>
    PROVE  /\ AgentMemoriesSurvive' /\ SupersededStaysSo' /\ LinksAreListed' /\ ConflictsAreNoticed'
           /\ CountsAreComplaints' /\ OverlayAddsUp'
BY DEF KeptSoFar, AgentMemoriesSurvive, SupersededStaysSo, LinksAreListed, ConflictsAreNoticed,
       CountsAreComplaints, OverlayAddsUp, Listed

LEMMA ForgottenIsLess ==
    ASSUME NEW count \in Nat, NEW bound \in Nat, count <= bound, NEW left \in {count, 0}
    PROVE  left <= bound
OBVIOUS

LEMMA GrowsBy ==
    ASSUME NEW S, NEW k \in S, NEW f \in [S -> Nat], NEW g, g = [f EXCEPT ![k] = f[k] + 1]
    PROVE  g \in [S -> Nat] /\ g[k] = f[k] + 1 /\ \A j \in S : f[j] <= g[j]
OBVIOUS

LEMMA WipeStaysAway ==
    ASSUME task \in [Servers -> MemoryTask], NEW p \in Servers, NEW t \in MemoryTask, Go(p, t),
           t.at # "wipe"
    PROVE  WipeIsDue' => WipeIsDue
BY GoKeeps DEF WipeIsDue, About

LEMMA WipeStaysDue ==
    ASSUME NothingToWipe, doomed => doomed', UNCHANGED <<schema, saved, decisions>>,
           WipeIsDue' => WipeIsDue
    PROVE  NothingToWipe'
BY DEF NothingToWipe, Listed

LEMMA IndexStaysBack ==
    ASSUME task \in [Servers -> MemoryTask], NEW p \in Servers, NEW t \in MemoryTask, Go(p, t),
           IndexComesBack, index' = index, cut => cut',
           t.at \in {"look", "create"} \/ task[p].at \notin {"look", "create"} \/ Exists \/ cut'
    PROVE  IndexComesBack'
<1>1. task'[p] = t /\ \A q \in Servers \ {p} : task'[q] = task[q]
  BY GoKeeps
<1> QED
  BY <1>1 DEF IndexComesBack, About, Exists

LEMMA OthersFit ==
    ASSUME task \in [Servers -> MemoryTask], NEW p \in Servers, NEW t \in MemoryTask, Go(p, t),
           TasksFit, doomed => doomed', CountFits(t),
           doomed' \/ (EmbedIsExcused(t) /\ LinkFits(t) /\ StartFits(t)),
           UNCHANGED <<saved, overtaken, unread, revived, decisions, schema, complaints>>
    PROVE  TasksFit'
<1>1. task'[p] = t /\ \A q \in Servers \ {p} : task'[q] = task[q]
  BY GoKeeps
<1> SUFFICES ASSUME NEW q \in Servers
             PROVE  /\ CountFits(task[q])'
                    /\ doomed' \/ (EmbedIsExcused(task[q])' /\ LinkFits(task[q])' /\ StartFits(task[q])')
  BY DEF TasksFit
<1>2. /\ CountFits(task'[q])
      /\ doomed' \/ (EmbedIsExcused(task'[q]) /\ LinkFits(task'[q]) /\ StartFits(task'[q]))
  BY <1>1 DEF TasksFit
<1> QED
  BY <1>2 DEF CountFits, EmbedIsExcused, LinkFits, StartFits, Listed

(* A process that goes on without a change to the store.                   *)
LEMMA MovesOn ==
    ASSUME MemoryInv, NEW p \in Servers, NEW t \in MemoryTask, Go(p, t), mishaps' \in Nat,
           UNCHANGED <<store, past>>, CountFits(t), t.at # "wipe",
           doomed \/ (EmbedIsExcused(t) /\ LinkFits(t) /\ StartFits(t)),
           t.at \in {"look", "create"} \/ task[p].at \notin {"look", "create"} \/ Exists
    PROVE  MemoryInv'
<1>1. task \in [Servers -> MemoryTask]
  BY DEF MemoryInv, StoreTypeOK
<1>2. StoreTypeOK'
  BY <1>1, GoKeeps DEF MemoryInv, StoreTypeOK, MemoryTypeOK, store, past
<1>3. TasksFit'
  BY <1>1, OthersFit DEF MemoryInv, store, past
<1>4. KeptSoFar'
  BY <1>1, StoreIsKept, WipeStaysAway, WipeStaysDue, IndexStaysBack DEF MemoryInv, KeptSoFar, store, past
<1> QED
  BY <1>2, <1>3, <1>4 DEF MemoryInv

-----------------------------------------------------------------------------
(* NewStore.                                                               *)
LEMMA ReadVersionKeeps == ASSUME MemoryInv, NEW p \in Servers, ReadVersion(p) PROVE MemoryInv'
<1>0. task \in [Servers -> MemoryTask] /\ TasksFit /\ KeptSoFar /\ mishaps \in Nat
  BY DEF MemoryInv, StoreTypeOK
<1> PICK anew \in BOOLEAN, at \in {"look", "wipe"} :
        /\ Go(p, [at |-> at, anew |-> anew]) /\ mishaps' \in Nat
        /\ schema = "v6" \/ anew = TRUE
        /\ doomed \/ doomed' \/ schema # "v6" \/ at = "look"
  BY <1>0, FailCounts DEF ReadVersion
<1> DEFINE t == [at |-> at, anew |-> anew]
<1>1. t \in MemoryTask /\ t.at = at /\ t.anew = anew
  BY DEF MemoryTask, Migrating
<1>2. (doomed => doomed') /\ UNCHANGED <<store, saved, overtaken, unread, revived, notice, complaints, cut>>
  BY DEF ReadVersion
<1>3. task'[p] = t /\ task' \in [Servers -> MemoryTask] /\ \A q \in Servers \ {p} : task'[q] = task[q]
  BY <1>0, <1>1, GoKeeps
<1>4. StoreTypeOK'
  BY <1>2, <1>3 DEF MemoryInv, StoreTypeOK, MemoryTypeOK, store
<1>5. TasksFit'
  <2>1. CountFits(t) /\ EmbedIsExcused(t) /\ LinkFits(t) /\ StartFits(t)
    BY <1>1 DEF CountFits, EmbedIsExcused, LinkFits, StartFits, Starting, Migrating
  <2> QED
    BY <1>0, <1>1, <1>2, <2>1, OthersFit DEF store
<1>6. NothingToWipe'
  <2>1. CASE at = "look"
    BY <1>0, <1>1, <1>2, <2>1, WipeStaysAway, WipeStaysDue DEF KeptSoFar, store
  <2>2. CASE at = "wipe"
    BY <1>0, <1>2, <2>2 DEF KeptSoFar, NothingToWipe, Listed, store
  <2> QED
    BY <2>1, <2>2
<1>7. IndexComesBack'
  <2>1. task[p].at \notin {"look", "create"}
    BY DEF ReadVersion, About
  <2> QED
    BY <1>0, <1>1, <1>2, <2>1, IndexStaysBack DEF KeptSoFar, store
<1> QED
  BY <1>0, <1>2, <1>4, <1>5, <1>6, <1>7, StoreIsKept DEF MemoryInv, KeptSoFar, store

LEMMA WipeKeeps == ASSUME MemoryInv, NEW p \in Servers, Wipe(p) PROVE MemoryInv'
<1>0. task \in [Servers -> MemoryTask] /\ TasksFit /\ KeptSoFar /\ mishaps \in Nat /\ MemoryTypeOK
  BY DEF MemoryInv, StoreTypeOK
<1> DEFINE t == [task[p] EXCEPT !.at = "drop"]
<1>1. task[p] \in [at : Migrating, anew : BOOLEAN] /\ Go(p, t) /\ task[p].at = "wipe"
  BY <1>0, TaskShapes DEF Wipe, About, Migrating
<1>2. t \in MemoryTask /\ t.at = "drop" /\ t.anew = task[p].anew
  BY <1>1 DEF MemoryTask, Migrating
<1>3. task'[p] = t /\ task' \in [Servers -> MemoryTask] /\ \A q \in Servers \ {p} : task'[q] = task[q]
  BY <1>0, <1>1, <1>2, GoKeeps
<1> PICK left \in SUBSET (Keys \cup Names) :
        /\ mishaps' \in Nat
        /\ memories' = [k \in Keys |-> IF k \in left THEN memories[k] ELSE ""]
        /\ flagged' = [k \in Keys |-> IF k \in left THEN flagged[k] ELSE 0]
        /\ decisions' = [d \in Names |-> IF d \in left THEN decisions[d] ELSE NoDecision]
  BY <1>0, FailCounts DEF Wipe
<1>4. UNCHANGED <<overlay, schema, index, past>>
  BY DEF Wipe
<1>5. doomed \/ (saved = {} /\ Listed = {})
  <2>1. WipeIsDue
    BY <1>1 DEF WipeIsDue, About
  <2> QED
    BY <1>0, <2>1 DEF KeptSoFar, NothingToWipe
<1>6. doomed \/ (saved' = {} /\ Listed' = {})
  BY <1>4, <1>5 DEF Listed, NoDecision, past
<1>7. StoreTypeOK'
  <2>1. NoDecision \in [status : {"none", "active", "superseded"}, listed : BOOLEAN,
                        supersedes : Names \cup {Nothing}, by : Names \cup {Nothing}]
    BY DEF NoDecision
  <2>2. MemoryTypeOK'
    BY <1>0, <1>4, <2>1 DEF MemoryTypeOK, past
  <2> QED
    BY <1>3, <1>4, <2>2 DEF MemoryInv, StoreTypeOK, past
<1>8. doomed \/ decisions' = decisions
  BY <1>0, <1>5, <1>6 DEF KeptSoFar, LinksAreListed, MemoryTypeOK
<1>9. TasksFit'
  <2>1. CountFits(t) /\ EmbedIsExcused(t) /\ LinkFits(t) /\ (doomed \/ StartFits(t))
    BY <1>0, <1>1, <1>2 DEF CountFits, EmbedIsExcused, LinkFits, StartFits, Starting, Migrating, TasksFit
  <2>2. CASE doomed
    BY <1>0, <1>3, <1>4, <2>1, <2>2 DEF TasksFit, CountFits, past
  <2>3. CASE ~doomed
    BY <1>0, <1>1, <1>2, <1>4, <1>8, <2>1, <2>3, OthersFit DEF past
  <2> QED
    BY <2>2, <2>3
<1>10. AgentMemoriesSurvive' /\ SupersededStaysSo' /\ ConflictsAreNoticed' /\ NothingToWipe'
  BY <1>4, <1>6 DEF AgentMemoriesSurvive, SupersededStaysSo, ConflictsAreNoticed, NothingToWipe, past
<1>11. LinksAreListed'
  BY <1>0, <1>4, <1>8 DEF KeptSoFar, LinksAreListed, Listed, past
<1>12. OverlayAddsUp'
  BY <1>0, <1>4 DEF KeptSoFar, OverlayAddsUp
<1>14. CountsAreComplaints'
  <2> SUFFICES ASSUME NEW k \in Keys PROVE flagged'[k] <= complaints'[k]
    BY DEF CountsAreComplaints
  <2>1. flagged[k] <= complaints[k] /\ flagged[k] \in Nat /\ complaints[k] \in Nat
    BY <1>0 DEF KeptSoFar, CountsAreComplaints, MemoryTypeOK
  <2>2. flagged'[k] \in {flagged[k], 0} /\ complaints'[k] = complaints[k]
    BY <1>4 DEF past
  <2> QED
    BY <2>1, <2>2, ForgottenIsLess
<1>13. IndexComesBack'
  BY <1>0, <1>1, <1>2, <1>4, IndexStaysBack DEF KeptSoFar, past
<1> QED
  BY <1>7, <1>9, <1>10, <1>11, <1>12, <1>13, <1>14 DEF MemoryInv, KeptSoFar

LEMMA DropIndexKeeps == ASSUME MemoryInv, NEW p \in Servers, DropIndex(p) PROVE MemoryInv'
<1>0. task \in [Servers -> MemoryTask] /\ TasksFit /\ KeptSoFar
  BY DEF MemoryInv, StoreTypeOK
<1> DEFINE t == [task[p] EXCEPT !.at = "look"]
<1>1. task[p] \in [at : Migrating, anew : BOOLEAN] /\ Go(p, t) /\ task[p].at = "drop"
  BY <1>0, TaskShapes DEF DropIndex, About, Migrating
<1>2. t \in MemoryTask /\ t.at = "look" /\ t.anew = task[p].anew
  BY <1>1 DEF MemoryTask, Migrating
<1>3. UNCHANGED <<memories, decisions, overlay, flagged, schema, mishaps, past>> /\ index' = "missing"
  BY DEF DropIndex
<1>4. task'[p] = t /\ task' \in [Servers -> MemoryTask]
  BY <1>0, <1>1, <1>2, GoKeeps
<1>5. StoreTypeOK'
  BY <1>3, <1>4 DEF MemoryInv, StoreTypeOK, MemoryTypeOK, past
<1>6. TasksFit'
  <2>1. CountFits(t) /\ EmbedIsExcused(t) /\ LinkFits(t) /\ (doomed \/ StartFits(t))
    BY <1>0, <1>1, <1>2 DEF CountFits, EmbedIsExcused, LinkFits, StartFits, Starting, Migrating, TasksFit
  <2> QED
    BY <1>0, <1>1, <1>2, <1>3, <2>1, OthersFit DEF past
<1>7. NothingToWipe'
  BY <1>0, <1>1, <1>2, <1>3, WipeStaysAway, WipeStaysDue DEF KeptSoFar, past
<1>8. IndexComesBack'
  BY <1>2, <1>4 DEF IndexComesBack, About
<1> QED
  BY <1>0, <1>3, <1>5, <1>6, <1>7, <1>8, StoreIsKept DEF MemoryInv, KeptSoFar, past

(* What a migration that has its index goes on with.                       *)
LEMMA MigratedFits ==
    ASSUME MemoryInv, NEW p \in Servers, task[p].at \in {"look", "create"}
    PROVE  LET t == IF task[p].anew THEN [at |-> "stamp"] ELSE Serving IN
           /\ t \in MemoryTask /\ t.at \in {"stamp", "serving"} /\ CountFits(t)
           /\ doomed \/ (EmbedIsExcused(t) /\ LinkFits(t) /\ StartFits(t))
<1>1. task[p] \in [at : Migrating, anew : BOOLEAN] /\ (doomed \/ StartFits(task[p]))
  BY TaskShapes DEF MemoryInv, StoreTypeOK, TasksFit, Migrating
<1>2. CASE task[p].anew
  BY <1>2 DEF MemoryTask, CountFits, EmbedIsExcused, LinkFits, StartFits, Starting, Migrating
<1>3. CASE ~task[p].anew
  BY <1>1, <1>3, RestingFits DEF StartFits, Serving, Migrating
<1> QED
  BY <1>2, <1>3

LEMMA LookForIndexKeeps == ASSUME MemoryInv, NEW p \in Servers, LookForIndex(p) PROVE MemoryInv'
<1>0. task \in [Servers -> MemoryTask] /\ TasksFit /\ mishaps \in Nat
  BY DEF MemoryInv, StoreTypeOK
<1>1. task[p] \in [at : Migrating, anew : BOOLEAN] /\ task[p].at = "look" /\ UNCHANGED <<store, past>>
  BY <1>0, TaskShapes DEF LookForIndex, About, Migrating
<1>2. CASE Exists /\ Go(p, IF task[p].anew THEN [at |-> "stamp"] ELSE Serving) /\ UNCHANGED mishaps
  BY <1>0, <1>1, <1>2, MigratedFits, MovesOn
<1>3. CASE Go(p, [task[p] EXCEPT !.at = "create"]) /\ (UNCHANGED mishaps \/ Fail)
  <2> DEFINE t == [task[p] EXCEPT !.at = "create"]
  <2>1. t \in MemoryTask /\ t.at = "create" /\ t.anew = task[p].anew
    BY <1>1 DEF MemoryTask, Migrating
  <2>2. CountFits(t) /\ EmbedIsExcused(t) /\ LinkFits(t) /\ (doomed \/ StartFits(t))
    BY <1>0, <1>1, <2>1 DEF CountFits, EmbedIsExcused, LinkFits, StartFits, Starting, Migrating, TasksFit
  <2>3. mishaps' \in Nat
    BY <1>0, <1>3, FailCounts
  <2> QED
    BY <1>1, <1>3, <2>1, <2>2, <2>3, MovesOn
<1> QED
  BY <1>2, <1>3 DEF LookForIndex

LEMMA CreateIndexKeeps == ASSUME MemoryInv, NEW p \in Servers, CreateIndex(p) PROVE MemoryInv'
<1>0. task \in [Servers -> MemoryTask] /\ TasksFit /\ KeptSoFar /\ mishaps \in Nat
  BY DEF MemoryInv, StoreTypeOK
<1>1. task[p].at = "create"
  BY DEF CreateIndex, About
<1>2. PICK t \in MemoryTask :
        /\ Go(p, t) /\ mishaps' \in Nat /\ t.at \in {"stamp", "serving", "down"} /\ CountFits(t)
        /\ doomed \/ (EmbedIsExcused(t) /\ LinkFits(t) /\ StartFits(t))
        /\ Exists' \/ cut'
        /\ index' \in {index, "filling"}
  <2>1. CASE index' = "filling" /\ Go(p, IF task[p].anew THEN [at |-> "stamp"] ELSE Serving) /\ UNCHANGED mishaps
    <3> DEFINE t == IF task[p].anew THEN [at |-> "stamp"] ELSE Serving
    <3>1. /\ t \in MemoryTask /\ t.at \in {"stamp", "serving"} /\ CountFits(t)
          /\ doomed \/ (EmbedIsExcused(t) /\ LinkFits(t) /\ StartFits(t))
      BY <1>1, MigratedFits
    <3>2. Go(p, t) /\ mishaps' \in Nat /\ Exists'
      BY <1>0, <2>1 DEF Exists
    <3> HIDE DEF t
    <3> QED
      BY <2>1, <3>1, <3>2
  <2>2. Down \in MemoryTask /\ Down.at = "down" /\ CountFits(Down) /\ EmbedIsExcused(Down) /\ LinkFits(Down) /\ StartFits(Down)
    BY RestingFits DEF Down
  <2>3. CASE Go(p, Down) /\ (Exists \/ cut') /\ UNCHANGED index /\ (UNCHANGED mishaps \/ Fail)
    BY <1>0, <2>2, <2>3, FailCounts DEF Exists
  <2> QED
    BY <2>1, <2>3 DEF CreateIndex
<1>3. UNCHANGED <<memories, decisions, overlay, flagged, schema, saved, overtaken, doomed, unread, revived,
                  notice, complaints>>
  BY DEF CreateIndex
<1>4. task' \in [Servers -> MemoryTask]
  BY <1>0, <1>2, GoKeeps
<1>5. StoreTypeOK'
  BY <1>2, <1>3, <1>4 DEF MemoryInv, StoreTypeOK, MemoryTypeOK
<1>6. TasksFit'
  BY <1>0, <1>2, <1>3, OthersFit
<1>7. NothingToWipe'
  BY <1>0, <1>2, <1>3, WipeStaysAway, WipeStaysDue DEF KeptSoFar
<1>8. IndexComesBack'
  BY <1>2 DEF IndexComesBack
<1> QED
  BY <1>0, <1>3, <1>5, <1>6, <1>7, <1>8, StoreIsKept DEF MemoryInv, KeptSoFar

LEMMA IndexIsFilledKeeps == ASSUME MemoryInv, IndexIsFilled PROVE MemoryInv'
<1>1. UNCHANGED <<memories, decisions, overlay, flagged, schema, task, mishaps, past>> /\ index' = "ready"
  BY DEF IndexIsFilled
<1>2. StoreTypeOK'
  BY <1>1 DEF MemoryInv, StoreTypeOK, MemoryTypeOK, past
<1>3. TasksFit'
  BY <1>1 DEF MemoryInv, TasksFit, CountFits, EmbedIsExcused, LinkFits, StartFits, Listed, past
<1>4. NothingToWipe' /\ IndexComesBack'
  BY <1>1 DEF MemoryInv, KeptSoFar, NothingToWipe, IndexComesBack, Exists, Listed, WipeIsDue, About, past
<1> QED
  BY <1>1, <1>2, <1>3, <1>4, StoreIsKept DEF MemoryInv, KeptSoFar, past

LEMMA StampVersionKeeps == ASSUME MemoryInv, NEW p \in Servers, StampVersion(p) PROVE MemoryInv'
<1>0. task \in [Servers -> MemoryTask] /\ TasksFit /\ KeptSoFar /\ mishaps \in Nat
  BY DEF MemoryInv, StoreTypeOK
<1>1. /\ Go(p, Serving) /\ task[p].at = "stamp" /\ mishaps' \in Nat
      /\ schema' \in {schema, "v6"} /\ (doomed' <=> (doomed \/ schema' # "v6"))
      /\ UNCHANGED <<memories, decisions, overlay, flagged, index, saved, overtaken, unread, revived,
                     notice, complaints, cut>>
  BY <1>0, FailCounts DEF StampVersion, About
<1>2. Serving \in MemoryTask /\ Serving.at = "serving" /\ CountFits(Serving) /\ EmbedIsExcused(Serving) /\ LinkFits(Serving)
  BY RestingFits DEF Serving
<1>3. task'[p] = Serving /\ task' \in [Servers -> MemoryTask] /\ \A q \in Servers \ {p} : task'[q] = task[q]
  BY <1>0, <1>1, <1>2, GoKeeps
<1>4. StoreTypeOK'
  BY <1>1, <1>3 DEF MemoryInv, StoreTypeOK, MemoryTypeOK
<1>5. TasksFit'
  <2> SUFFICES ASSUME NEW q \in Servers
               PROVE  /\ CountFits(task[q])'
                      /\ doomed' \/ (EmbedIsExcused(task[q])' /\ LinkFits(task[q])' /\ StartFits(task[q])')
    BY DEF TasksFit
  <2>1. /\ CountFits(task'[q])
        /\ doomed' \/ (EmbedIsExcused(task'[q]) /\ LinkFits(task'[q]))
    BY <1>0, <1>1, <1>2, <1>3 DEF TasksFit
  <2>2. doomed' \/ StartFits(task[q])'
    BY <1>1 DEF StartFits
  <2> QED
    BY <1>1, <2>1, <2>2 DEF CountFits, EmbedIsExcused, LinkFits, Listed
<1>6. NothingToWipe'
  <2>1. WipeIsDue' => WipeIsDue
    BY <1>0, <1>1, <1>2, WipeStaysAway
  <2> QED
    BY <1>0, <1>1, <2>1 DEF KeptSoFar, NothingToWipe, Listed
<1>7. IndexComesBack'
  BY <1>0, <1>1, <1>2, IndexStaysBack DEF KeptSoFar
<1> QED
  BY <1>0, <1>1, <1>4, <1>5, <1>6, <1>7, StoreIsKept DEF MemoryInv, KeptSoFar

-----------------------------------------------------------------------------
(* Memories.                                                               *)
LEMMA ServingMeansCurrent ==
    ASSUME MemoryInv, NEW p \in Servers, task[p].at \notin Starting
    PROVE  doomed \/ schema = "v6"
BY DEF MemoryInv, TasksFit, StartFits

LEMMA SaveAgentKeeps ==
    ASSUME MemoryInv, NEW p \in Servers, NEW k \in Keys, SaveAgent(p, k)
    PROVE  MemoryInv'
<1>0. TasksFit /\ KeptSoFar /\ MemoryTypeOK
  BY DEF MemoryInv, StoreTypeOK
<1>1. /\ memories' = [memories EXCEPT ![k] = "agent"] /\ saved' = saved \cup {k} /\ unread' = unread \ {k}
      /\ overtaken' = IF \E q \in Servers : About(q, "embed") /\ task[q].key = k
                      THEN overtaken \cup {k} ELSE overtaken \ {k}
      /\ doomed' = (doomed \/ WipeIsDue)
      /\ UNCHANGED <<decisions, overlay, flagged, schema, index, task, mishaps, revived, notice,
                     complaints, cut>>
  BY DEF SaveAgent
<1>2. StoreTypeOK'
  <2>1. MemoryTypeOK'
    BY <1>0, <1>1 DEF MemoryTypeOK
  <2> QED
    BY <1>1, <2>1 DEF MemoryInv, StoreTypeOK
<1>3. TasksFit'
  <2> SUFFICES ASSUME NEW q \in Servers
               PROVE  /\ CountFits(task[q])'
                      /\ doomed' \/ (EmbedIsExcused(task[q])' /\ LinkFits(task[q])' /\ StartFits(task[q])')
    BY DEF TasksFit
  <2>1. /\ CountFits(task[q])
        /\ doomed' \/ (EmbedIsExcused(task[q]) /\ LinkFits(task[q]) /\ StartFits(task[q]))
    BY <1>0, <1>1 DEF TasksFit
  <2>2. EmbedIsExcused(task[q]) => EmbedIsExcused(task[q])'
    BY <1>1 DEF EmbedIsExcused, About
  <2>3. CountFits(task[q])'
    BY <1>1, <2>1 DEF CountFits
  <2>4. LinkFits(task[q]) => LinkFits(task[q])'
    BY <1>1 DEF LinkFits, Listed
  <2>5. doomed' \/ (StartFits(task[q]) => StartFits(task[q])')
    BY <1>1 DEF StartFits
  <2> QED
    BY <1>1, <2>1, <2>2, <2>3, <2>4, <2>5
<1>4. AgentMemoriesSurvive'
  <2>1. AgentMemoriesSurvive /\ memories \in [Keys -> {"", "auto", "agent"}] /\ saved \subseteq Keys
    BY <1>0 DEF KeptSoFar, MemoryTypeOK
  <2>2. ASSUME NEW l \in saved' \ (overtaken' \cup unread'), ~doomed' PROVE memories'[l] = "agent"
    <3>1. CASE l = k
      BY <1>1, <2>1, <3>1
    <3>2. CASE l # k
      <4>1. l \in saved \ (overtaken \cup unread) /\ ~doomed
        <5>1. overtaken \ {k} \subseteq overtaken' /\ (doomed => doomed')
          BY <1>1
        <5> QED
          BY <1>1, <2>2, <3>2, <5>1
      <4>2. memories[l] = "agent"
        BY <2>1, <4>1 DEF AgentMemoriesSurvive
      <4> QED
        BY <1>1, <2>1, <3>2, <4>2
    <3> QED
      BY <3>1, <3>2
  <2> QED
    BY <2>2 DEF AgentMemoriesSurvive
<1>5. NothingToWipe'
  <2>1. doomed \/ schema = "v6"
    BY ServingMeansCurrent DEF SaveAgent, About, Starting, Migrating
  <2>2. WipeIsDue' <=> WipeIsDue
    BY <1>1 DEF WipeIsDue, About
  <2> QED
    BY <1>1, <2>1, <2>2 DEF NothingToWipe
<1>6. SupersededStaysSo' /\ LinksAreListed' /\ ConflictsAreNoticed'
  BY <1>0, <1>1 DEF KeptSoFar, SupersededStaysSo, LinksAreListed, ConflictsAreNoticed, Listed
<1>7. IndexComesBack' /\ CountsAreComplaints' /\ OverlayAddsUp'
  BY <1>0, <1>1 DEF KeptSoFar, IndexComesBack, CountsAreComplaints, OverlayAddsUp, Exists, About
<1> QED
  BY <1>2, <1>3, <1>4, <1>5, <1>6, <1>7 DEF MemoryInv, KeptSoFar

LEMMA PopulateKeeps == ASSUME MemoryInv, NEW p \in Servers, Populate(p) PROVE MemoryInv'
<1> DEFINE t == [at |-> "populate", todo |-> Paths]
<1>1. t \in MemoryTask /\ t.at = "populate"
  BY DEF MemoryTask
<1>2. /\ Go(p, t) /\ UNCHANGED <<store, past>> /\ mishaps' \in Nat
      /\ task[p].at = "serving" /\ (doomed \/ schema = "v6")
  BY ServingMeansCurrent DEF Populate, MemoryInv, StoreTypeOK, About, Starting, Migrating
<1>3. CountFits(t) /\ EmbedIsExcused(t) /\ LinkFits(t) /\ (doomed \/ StartFits(t))
  BY <1>1, <1>2 DEF CountFits, EmbedIsExcused, LinkFits, StartFits
<1> QED
  BY <1>1, <1>2, <1>3, MovesOn

LEMMA EndPopulateKeeps == ASSUME MemoryInv, NEW p \in Servers, EndPopulate(p) PROVE MemoryInv'
<1>1. /\ Go(p, Serving) /\ UNCHANGED <<store, past>> /\ mishaps' \in Nat
      /\ task[p].at = "populate" /\ (doomed \/ schema = "v6")
  BY ServingMeansCurrent DEF EndPopulate, MemoryInv, StoreTypeOK, About, Starting, Migrating
<1>2. Serving \in MemoryTask /\ Serving.at = "serving"
  BY RestingFits DEF Serving
<1>3. CountFits(Serving) /\ EmbedIsExcused(Serving) /\ LinkFits(Serving) /\ (doomed \/ StartFits(Serving))
  BY <1>1, RestingFits DEF StartFits
<1> QED
  BY <1>1, <1>2, <1>3, MovesOn

LEMMA CheckSourceKeeps ==
    ASSUME MemoryInv, NEW p \in Servers, NEW k \in Keys, CheckSource(p, k)
    PROVE  MemoryInv'
<1> DEFINE rest == task[p].todo \ {k}
           go == [at |-> "populate", todo |-> rest]
           embed == [at |-> "embed", key |-> k, todo |-> rest]
<1>0. task \in [Servers -> MemoryTask] /\ TasksFit /\ KeptSoFar /\ MemoryTypeOK /\ mishaps \in Nat
  BY DEF MemoryInv, StoreTypeOK
<1>1. task[p] \in [at : {"populate"}, todo : SUBSET Paths] /\ task[p].at = "populate" /\ k \in task[p].todo
  BY <1>0, TaskShapes DEF CheckSource, About
<1>2. go \in MemoryTask /\ embed \in MemoryTask
  <2>1. rest \in SUBSET Paths /\ k \in Paths
    BY <1>1
  <2> HIDE DEF rest
  <2> QED
    BY <2>1 DEF MemoryTask
<1>3. doomed \/ schema = "v6"
  BY <1>1, ServingMeansCurrent DEF Starting, Migrating
<1>4. CountFits(go) /\ EmbedIsExcused(go) /\ LinkFits(go) /\ (doomed \/ StartFits(go))
  BY <1>3 DEF CountFits, EmbedIsExcused, LinkFits, StartFits
<1>5. CountFits(embed) /\ LinkFits(embed) /\ (doomed \/ StartFits(embed))
  BY <1>3 DEF CountFits, LinkFits, StartFits
<1>6. CASE SkipsAgents(k) /\ Go(p, go) /\ UNCHANGED <<mishaps, unread>>
  <2>1. UNCHANGED <<store, past>> /\ go.at = "populate"
    BY <1>6 DEF CheckSource, past
  <2> QED
    BY <1>0, <1>1, <1>2, <1>4, <1>6, <2>1, MovesOn
<1>7. CASE ~SkipsAgents(k) /\ Go(p, embed) /\ UNCHANGED <<mishaps, unread>>
  <2>1. UNCHANGED <<store, past>> /\ embed.at = "embed" /\ embed.key = k
    BY <1>7 DEF CheckSource, past
  <2>2. doomed \/ EmbedIsExcused(embed)
    BY <1>0, <1>7, <2>1 DEF EmbedIsExcused, KeptSoFar, AgentMemoriesSurvive, SkipsAgents
  <2> QED
    BY <1>0, <1>1, <1>2, <1>5, <1>7, <2>1, <2>2, MovesOn
<1>8. CASE Fail /\ Go(p, embed) /\ unread' = unread \cup {k}
  <2>1. /\ UNCHANGED <<store, saved, overtaken, doomed, revived, notice, complaints, cut>>
        /\ mishaps' \in Nat /\ embed.at = "embed" /\ embed.key = k
    BY <1>0, <1>8, FailCounts DEF CheckSource
  <2>2. task'[p] = embed /\ task' \in [Servers -> MemoryTask] /\ \A q \in Servers \ {p} : task'[q] = task[q]
    BY <1>0, <1>2, <1>8, GoKeeps
  <2>3. StoreTypeOK'
    BY <1>8, <2>1, <2>2 DEF MemoryInv, StoreTypeOK, MemoryTypeOK, store
  <2>4. TasksFit'
    <3> SUFFICES ASSUME NEW q \in Servers
                 PROVE  /\ CountFits(task[q])'
                        /\ doomed' \/ (EmbedIsExcused(task[q])' /\ LinkFits(task[q])' /\ StartFits(task[q])')
      BY DEF TasksFit
    <3>1. /\ CountFits(task'[q])
          /\ doomed \/ (LinkFits(task'[q]) /\ StartFits(task'[q]))
      BY <1>0, <1>5, <2>2 DEF TasksFit
    <3>2. doomed \/ EmbedIsExcused(task[q])'
      <4>1. CASE q = p
        BY <1>8, <2>1, <2>2, <4>1 DEF EmbedIsExcused
      <4>2. CASE q # p
        BY <1>0, <1>8, <2>1, <2>2, <4>2 DEF EmbedIsExcused, TasksFit
      <4> QED
        BY <4>1, <4>2
    <3> QED
      BY <2>1, <3>1, <3>2 DEF CountFits, LinkFits, StartFits, Listed, store
  <2>5. AgentMemoriesSurvive'
    BY <1>0, <1>8, <2>1 DEF KeptSoFar, AgentMemoriesSurvive, store
  <2>6. NothingToWipe'
    BY <1>0, <1>2, <1>8, <2>1, WipeStaysAway, WipeStaysDue DEF KeptSoFar, store
  <2>7. IndexComesBack'
    BY <1>0, <1>1, <1>2, <1>8, <2>1, IndexStaysBack DEF KeptSoFar, store
  <2>8. SupersededStaysSo' /\ LinksAreListed' /\ ConflictsAreNoticed' /\ CountsAreComplaints' /\ OverlayAddsUp'
    BY <1>0, <2>1 DEF KeptSoFar, SupersededStaysSo, LinksAreListed, ConflictsAreNoticed, Listed,
                      CountsAreComplaints, OverlayAddsUp, store
  <2> QED
    BY <2>3, <2>4, <2>5, <2>6, <2>7, <2>8 DEF MemoryInv, KeptSoFar
<1> QED
  BY <1>6, <1>7, <1>8 DEF CheckSource

LEMMA WriteAutoKeeps == ASSUME MemoryInv, NEW p \in Servers, WriteAuto(p) PROVE MemoryInv'
<1> DEFINE t == [at |-> "populate", todo |-> task[p].todo]
<1>0. task \in [Servers -> MemoryTask] /\ TasksFit /\ KeptSoFar /\ MemoryTypeOK
  BY DEF MemoryInv, StoreTypeOK
<1>1. task[p] \in [at : {"embed"}, key : Paths, todo : SUBSET Paths] /\ task[p].at = "embed"
  BY <1>0, TaskShapes DEF WriteAuto, About
<1>2. t \in MemoryTask /\ t.at = "populate" /\ task[p].key \in Keys
  BY <1>1 DEF MemoryTask, Keys
<1>3. /\ Go(p, t) /\ memories' = [memories EXCEPT ![task[p].key] = "auto"]
      /\ UNCHANGED <<decisions, overlay, flagged, schema, index, mishaps, past>>
  BY DEF WriteAuto
<1>4. task'[p] = t /\ task' \in [Servers -> MemoryTask]
  BY <1>0, <1>2, <1>3, GoKeeps
<1>5. doomed \/ (schema = "v6" /\ (task[p].key \notin saved \/ task[p].key \in overtaken \cup unread))
  BY <1>0, <1>1, ServingMeansCurrent DEF TasksFit, EmbedIsExcused, Starting, Migrating
<1>6. StoreTypeOK'
  <2>1. MemoryTypeOK'
    BY <1>0, <1>3 DEF MemoryTypeOK, past
  <2> QED
    BY <1>3, <1>4, <2>1 DEF MemoryInv, StoreTypeOK, past
<1>7. TasksFit'
  <2>1. CountFits(t) /\ EmbedIsExcused(t) /\ LinkFits(t) /\ (doomed \/ StartFits(t))
    BY <1>5 DEF CountFits, EmbedIsExcused, LinkFits, StartFits
  <2> QED
    BY <1>0, <1>2, <1>3, <2>1, OthersFit DEF past
<1>8. AgentMemoriesSurvive'
  BY <1>0, <1>2, <1>3, <1>5 DEF KeptSoFar, AgentMemoriesSurvive, MemoryTypeOK, past
<1>9. NothingToWipe'
  BY <1>0, <1>2, <1>3, WipeStaysAway, WipeStaysDue DEF KeptSoFar, past
<1>10. IndexComesBack'
  BY <1>0, <1>1, <1>2, <1>3, IndexStaysBack DEF KeptSoFar, past
<1>11. SupersededStaysSo' /\ LinksAreListed' /\ ConflictsAreNoticed' /\ CountsAreComplaints' /\ OverlayAddsUp'
  BY <1>0, <1>3 DEF KeptSoFar, SupersededStaysSo, LinksAreListed, ConflictsAreNoticed, Listed,
                    CountsAreComplaints, OverlayAddsUp, past
<1> QED
  BY <1>6, <1>7, <1>8, <1>9, <1>10, <1>11 DEF MemoryInv, KeptSoFar

-----------------------------------------------------------------------------
(* Decisions.                                                              *)
DecisionRecord == [status : {"none", "active", "superseded"}, listed : BOOLEAN,
                   supersedes : Names \cup {Nothing}, by : Names \cup {Nothing}]

LEMMA SaveDecisionKeeps ==
    ASSUME MemoryInv, NEW p \in Servers, NEW d \in Names, SaveDecision(p, d)
    PROVE  MemoryInv'
<1> DEFINE t == [at |-> "listing", name |-> d]
           fresh == [status |-> "active", supersedes |-> Nothing, by |-> Nothing, listed |-> TRUE]
<1>0. task \in [Servers -> MemoryTask] /\ TasksFit /\ KeptSoFar /\ MemoryTypeOK /\ revived \subseteq Names
  BY DEF MemoryInv, StoreTypeOK
<1>1. t \in MemoryTask /\ t.at = "listing"
  BY DEF MemoryTask
<1>2. /\ Go(p, t) /\ decisions' = [decisions EXCEPT ![d] = fresh]
      /\ revived' = IF decisions[d].status = "superseded" THEN revived \cup {d} ELSE revived
      /\ notice' = [notice EXCEPT ![d] = "pending"] /\ doomed' = (doomed \/ WipeIsDue)
      /\ UNCHANGED <<memories, overlay, flagged, schema, index, mishaps, saved, overtaken, unread,
                     complaints, cut>>
  BY DEF SaveDecision
<1>3. task'[p] = t /\ task' \in [Servers -> MemoryTask] /\ \A q \in Servers \ {p} : task'[q] = task[q]
  BY <1>0, <1>1, <1>2, GoKeeps
<1>4. task[p].at = "serving" /\ (doomed \/ schema = "v6")
  BY ServingMeansCurrent DEF SaveDecision, About, Starting, Migrating
<1>5. fresh \in DecisionRecord
  BY DEF DecisionRecord
<1>6. /\ decisions \in [Names -> DecisionRecord] /\ decisions' \in [Names -> DecisionRecord]
      /\ decisions'[d] = fresh /\ \A e \in Names \ {d} : decisions'[e] = decisions[e]
  BY <1>0, <1>2, <1>5 DEF MemoryTypeOK, DecisionRecord
<1> HIDE DEF fresh
<1>7. fresh.listed = TRUE /\ fresh.status = "active" /\ fresh.supersedes = Nothing
  BY DEF fresh
<1>8. Listed' = Listed \cup {d}
  BY <1>6, <1>7 DEF Listed
<1>9. StoreTypeOK'
  <2>1. MemoryTypeOK'
    BY <1>0, <1>2, <1>6 DEF MemoryTypeOK, DecisionRecord
  <2> QED
    BY <1>0, <1>2, <1>3, <2>1 DEF MemoryInv, StoreTypeOK
<1>11. TasksFit'
  <2> SUFFICES ASSUME NEW q \in Servers
               PROVE  /\ CountFits(task[q])'
                      /\ doomed' \/ (EmbedIsExcused(task[q])' /\ LinkFits(task[q])' /\ StartFits(task[q])')
    BY DEF TasksFit
  <2>1. CASE q = p
    BY <1>1, <1>2, <1>3, <1>4, <2>1 DEF CountFits, EmbedIsExcused, LinkFits, StartFits
  <2>2. CASE q # p
    <3>1. /\ task'[q] = task[q] /\ CountFits(task[q])
          /\ doomed \/ (EmbedIsExcused(task[q]) /\ LinkFits(task[q]) /\ StartFits(task[q]))
      BY <1>0, <1>3, <2>2 DEF TasksFit
    <3>2. LinkFits(task[q]) => LinkFits(task[q])'
      <4> SUFFICES ASSUME LinkFits(task[q]), task[q].at \in {"retire", "relate"}
                   PROVE  LinkFits(task[q])'
        BY <3>1 DEF LinkFits
      <4>1. task[q].old \in Listed' /\ task[q].new \in Listed' /\ task[q].old \in Names
        BY <1>8 DEF LinkFits, Listed
      <4>2. task[q].at = "relate" => task[q].old \in revived' \/ decisions'[task[q].old].status = "superseded"
        BY <1>2, <1>6, <4>1 DEF LinkFits
      <4> QED
        BY <3>1, <4>1, <4>2 DEF LinkFits
    <3> QED
      BY <1>2, <3>1, <3>2 DEF CountFits, EmbedIsExcused, StartFits
  <2> QED
    BY <2>1, <2>2
<1>12. LinksAreListed'
  <2> SUFFICES ASSUME ~doomed', NEW e \in Names
               PROVE  /\ decisions'[e] = NoDecision \/ e \in Listed'
                      /\ decisions'[e].supersedes \in Listed' \cup {Nothing}
    BY DEF LinksAreListed
  <2>1. /\ decisions[e] = NoDecision \/ e \in Listed
        /\ decisions[e].supersedes \in Listed \cup {Nothing}
    BY <1>0, <1>2 DEF KeptSoFar, LinksAreListed
  <2> QED
    BY <1>6, <1>7, <1>8, <2>1
<1>13. SupersededStaysSo'
  <2> SUFFICES ASSUME ~doomed', NEW c \in Listed', NEW e \in Listed',
                      decisions'[c].supersedes = e, e \notin revived'
               PROVE  decisions'[e].status = "superseded"
    BY DEF SupersededStaysSo
  <2>1. c # d /\ c \in Listed /\ decisions[c].supersedes = e /\ ~doomed /\ e \in Names
    BY <1>2, <1>6, <1>7, <1>8, MemoryAssumption DEF Listed
  <2>2. e \in Listed /\ e \notin revived
    BY <1>0, <1>2, <2>1, MemoryAssumption DEF KeptSoFar, LinksAreListed, Listed
  <2>3. decisions[e].status = "superseded"
    BY <1>0, <2>1, <2>2 DEF KeptSoFar, SupersededStaysSo
  <2>4. e # d
    BY <1>2, <2>3
  <2> QED
    BY <1>6, <2>1, <2>3, <2>4
<1>14. ConflictsAreNoticed'
  <2>1. notice \in [Names -> {"none", "pending", "unheard", "clear", "warned"}]
    BY DEF MemoryInv, StoreTypeOK
  <2>2. notice'[d] = "pending" /\ \A e \in Names \ {d} : notice'[e] = notice[e]
    BY <1>2, <2>1
  <2> QED
    BY <1>0, <1>2, <1>8, <2>2 DEF KeptSoFar, ConflictsAreNoticed, Listed
<1>15. NothingToWipe'
  <2>1. WipeIsDue' => WipeIsDue
    BY <1>0, <1>1, <1>2, WipeStaysAway
  <2> QED
    BY <1>2, <1>4, <2>1 DEF NothingToWipe
<1>16. IndexComesBack'
  BY <1>0, <1>1, <1>2, <1>4, IndexStaysBack DEF KeptSoFar
<1>17. AgentMemoriesSurvive' /\ CountsAreComplaints' /\ OverlayAddsUp'
  BY <1>0, <1>2 DEF KeptSoFar, AgentMemoriesSurvive, CountsAreComplaints, OverlayAddsUp
<1> QED
  BY <1>9, <1>11, <1>12, <1>13, <1>14, <1>15, <1>16, <1>17 DEF MemoryInv, KeptSoFar

LEMMA ListConflictsKeeps == ASSUME MemoryInv, NEW p \in Servers, ListConflicts(p) PROVE MemoryInv'
<1> DEFINE d == task[p].name
<1>0. task \in [Servers -> MemoryTask] /\ TasksFit /\ KeptSoFar /\ mishaps \in Nat
  BY DEF MemoryInv, StoreTypeOK
<1>1. task[p].at = "listing" /\ d \in Names /\ (doomed \/ schema = "v6")
  BY <1>0, TaskShapes, ServingMeansCurrent DEF ListConflicts, About, Starting, Migrating
<1>2. PICK heard \in {"unheard", "clear", "warned"} :
        /\ notice' = [notice EXCEPT ![d] = heard] /\ mishaps' \in Nat
        /\ heard = "clear" => Listed \ {d} = {}
  BY <1>0, FailCounts DEF ListConflicts
<1>3. Go(p, Serving) /\ UNCHANGED <<store, saved, overtaken, doomed, unread, revived, complaints, cut>>
  BY DEF ListConflicts
<1>4. /\ Serving \in MemoryTask /\ Serving.at = "serving" /\ CountFits(Serving) /\ EmbedIsExcused(Serving)
      /\ LinkFits(Serving) /\ (doomed \/ StartFits(Serving))
  BY <1>1, RestingFits DEF Serving, StartFits
<1>5. task' \in [Servers -> MemoryTask]
  BY <1>0, <1>3, <1>4, GoKeeps
<1>6. StoreTypeOK'
  BY <1>2, <1>3, <1>5 DEF MemoryInv, StoreTypeOK, MemoryTypeOK, store
<1>7. TasksFit'
  BY <1>0, <1>3, <1>4, OthersFit DEF store
<1>8. ConflictsAreNoticed'
  <2>1. notice \in [Names -> {"none", "pending", "unheard", "clear", "warned"}]
    BY DEF MemoryInv, StoreTypeOK
  <2> HIDE DEF d
  <2>2. notice'[d] = heard /\ \A e \in Names \ {d} : notice'[e] = notice[e]
    BY <1>1, <1>2, <2>1
  <2>3. Listed' = Listed
    BY <1>3 DEF Listed, store
  <2> QED
    BY <1>0, <1>2, <1>3, <2>2, <2>3 DEF KeptSoFar, ConflictsAreNoticed, Listed
<1>9. NothingToWipe'
  BY <1>0, <1>3, <1>4, WipeStaysAway, WipeStaysDue DEF KeptSoFar, store
<1>10. IndexComesBack'
  BY <1>0, <1>1, <1>3, <1>4, IndexStaysBack DEF KeptSoFar, store
<1>11. AgentMemoriesSurvive' /\ SupersededStaysSo' /\ LinksAreListed' /\ CountsAreComplaints' /\ OverlayAddsUp'
  BY <1>0, <1>3 DEF KeptSoFar, AgentMemoriesSurvive, SupersededStaysSo, LinksAreListed, Listed,
                    CountsAreComplaints, OverlayAddsUp, store
<1> QED
  BY <1>6, <1>7, <1>8, <1>9, <1>10, <1>11 DEF MemoryInv, KeptSoFar

LEMMA SupersedeKeeps ==
    ASSUME MemoryInv, NEW p \in Servers, NEW old \in Names, NEW new \in Names, Supersede(p, old, new)
    PROVE  MemoryInv'
<1> DEFINE t == [at |-> "retire", old |-> old, new |-> new]
<1>1. t \in MemoryTask /\ t.at = "retire" /\ t.old = old /\ t.new = new
  BY DEF MemoryTask
<1>2. /\ Go(p, t) /\ UNCHANGED <<store, past>> /\ mishaps' \in Nat
      /\ task[p].at = "serving" /\ (doomed \/ schema = "v6")
  BY ServingMeansCurrent DEF Supersede, MemoryInv, StoreTypeOK, About, Starting, Migrating
<1>3. doomed \/ (old \in Listed /\ new \in Listed)
  BY DEF Supersede, MemoryInv, KeptSoFar, LinksAreListed
<1>4. CountFits(t) /\ EmbedIsExcused(t) /\ (doomed \/ (LinkFits(t) /\ StartFits(t)))
  BY <1>1, <1>2, <1>3 DEF CountFits, EmbedIsExcused, LinkFits, StartFits
<1> QED
  BY <1>1, <1>2, <1>4, MovesOn

(* The two writes of a supersession list nothing, and break no link.       *)
LEMMA LinkingKeeps ==
    ASSUME MemoryInv, NEW p \in Servers, NEW t \in MemoryTask, Go(p, t),
           UNCHANGED <<memories, overlay, flagged, schema, index, mishaps, saved, overtaken, doomed,
                       unread, notice, complaints, cut>>,
           decisions' \in [Names -> DecisionRecord], revived' \subseteq Names, Listed' = Listed,
           \A d \in Names : decisions'[d] = decisions[d] \/ d \in Listed \/ doomed,
           task[p].at \in {"retire", "relate"}, t.at \in {"relate", "serving"},
           \/ doomed \/ t.at = "serving"
           \/ /\ t.old \in Listed /\ t.new \in Listed
              /\ t.old \in revived' \/ decisions'[t.old].status = "superseded",
           \A d \in Names : decisions[d].status = "superseded" \/ d \in revived
                           => decisions'[d].status = "superseded" \/ d \in revived',
           LinksAreListed', SupersededStaysSo'
    PROVE  MemoryInv'
<1>0. task \in [Servers -> MemoryTask] /\ TasksFit /\ KeptSoFar /\ MemoryTypeOK
  BY DEF MemoryInv, StoreTypeOK
<1>1. task'[p] = t /\ task' \in [Servers -> MemoryTask] /\ \A q \in Servers \ {p} : task'[q] = task[q]
  BY <1>0, GoKeeps
<1>2. doomed \/ schema = "v6"
  BY ServingMeansCurrent DEF Starting, Migrating
<1>3. StoreTypeOK'
  <2>1. MemoryTypeOK'
    BY <1>0 DEF MemoryTypeOK, DecisionRecord
  <2> QED
    BY <1>1, <2>1 DEF MemoryInv, StoreTypeOK
<1>4. TasksFit'
  <2> SUFFICES ASSUME NEW q \in Servers
               PROVE  /\ CountFits(task[q])'
                      /\ doomed' \/ (EmbedIsExcused(task[q])' /\ LinkFits(task[q])' /\ StartFits(task[q])')
    BY DEF TasksFit
  <2>1. CASE q = p
    BY <1>1, <1>2, <2>1 DEF CountFits, EmbedIsExcused, LinkFits, StartFits
  <2>2. CASE q # p
    <3>1. /\ task'[q] = task[q] /\ CountFits(task[q])
          /\ doomed \/ (EmbedIsExcused(task[q]) /\ LinkFits(task[q]) /\ StartFits(task[q]))
      BY <1>0, <1>1, <2>2 DEF TasksFit
    <3>2. LinkFits(task[q]) => LinkFits(task[q])'
      BY <3>1 DEF LinkFits, Listed
    <3> QED
      BY <3>1, <3>2 DEF CountFits, EmbedIsExcused, StartFits
  <2> QED
    BY <2>1, <2>2
<1>5. NothingToWipe'
  <2>1. WipeIsDue' => WipeIsDue
    BY <1>0, WipeStaysAway
  <2> QED
    BY <1>0, <2>1 DEF KeptSoFar, NothingToWipe
<1>6. IndexComesBack'
  BY <1>0, IndexStaysBack DEF KeptSoFar
<1>7. AgentMemoriesSurvive' /\ ConflictsAreNoticed' /\ CountsAreComplaints' /\ OverlayAddsUp'
  BY <1>0 DEF KeptSoFar, AgentMemoriesSurvive, ConflictsAreNoticed, CountsAreComplaints, OverlayAddsUp
<1> QED
  BY <1>3, <1>4, <1>5, <1>6, <1>7 DEF MemoryInv, KeptSoFar

(* A write that failed ends the operation.                                 *)
LEMMA GivesUp ==
    ASSUME MemoryInv, NEW p \in Servers, task[p].at \notin Starting, Go(p, Serving), mishaps' \in Nat,
           UNCHANGED <<store, past>>
    PROVE  MemoryInv'
<1>1. Serving \in MemoryTask /\ Serving.at = "serving"
  BY RestingFits DEF Serving
<1>2. CountFits(Serving) /\ EmbedIsExcused(Serving) /\ LinkFits(Serving) /\ (doomed \/ StartFits(Serving))
  BY ServingMeansCurrent, RestingFits DEF StartFits
<1>3. task[p].at \notin {"look", "create"}
  BY DEF Starting, Migrating
<1> QED
  BY <1>1, <1>2, <1>3, MovesOn

LEMMA RetireOldKeeps == ASSUME MemoryInv, NEW p \in Servers, RetireOld(p) PROVE MemoryInv'
<1> DEFINE old == task[p].old
           new == task[p].new
           t == [task[p] EXCEPT !.at = "relate"]
<1>0. task \in [Servers -> MemoryTask] /\ TasksFit /\ KeptSoFar /\ MemoryTypeOK /\ revived \subseteq Names
      /\ mishaps \in Nat
  BY DEF MemoryInv, StoreTypeOK
<1>1. task[p] \in [at : {"retire", "relate"}, old : Names, new : Names] /\ task[p].at = "retire"
  BY <1>0, TaskShapes DEF RetireOld, About
<1>2. doomed \/ (old \in Listed /\ new \in Listed)
  BY <1>0, <1>1 DEF TasksFit, LinkFits
<1>3. CASE Fail /\ Go(p, Serving) /\ UNCHANGED <<decisions, revived>>
  <2>1. UNCHANGED <<store, past>> /\ mishaps' \in Nat
    BY <1>0, <1>3, FailCounts DEF RetireOld, store, past
  <2>2. task[p].at \notin Starting
    BY <1>1 DEF Starting, Migrating
  <2> QED
    BY <1>3, <2>1, <2>2, GivesUp
<1>4. CASE /\ Go(p, t) /\ revived' = revived \ {old} /\ UNCHANGED mishaps
           /\ decisions' = [decisions EXCEPT ![old].status = "superseded", ![old].by = new]
  <2>1. UNCHANGED <<memories, overlay, flagged, schema, index, saved, overtaken, doomed,
                    unread, notice, complaints, cut>>
    BY DEF RetireOld
  <2>2. t \in MemoryTask /\ t.at = "relate" /\ t.old = old /\ t.new = new
    BY <1>1 DEF MemoryTask
  <2>3. /\ decisions \in [Names -> DecisionRecord] /\ decisions' \in [Names -> DecisionRecord]
        /\ decisions'[old].status = "superseded" /\ decisions'[old].listed = decisions[old].listed
        /\ decisions'[old].supersedes = decisions[old].supersedes
        /\ \A d \in Names \ {old} : decisions'[d] = decisions[d]
    <3>1. decisions \in [Names -> DecisionRecord] /\ decisions[old] \in DecisionRecord
          /\ old \in Names /\ new \in Names
      BY <1>0, <1>1 DEF MemoryTypeOK, DecisionRecord
    <3> DEFINE r == [decisions[old] EXCEPT !.status = "superseded", !.by = new]
    <3>2. decisions' = [decisions EXCEPT ![old] = r]
      BY <1>4
    <3>3. /\ r \in DecisionRecord /\ r.status = "superseded" /\ r.listed = decisions[old].listed
          /\ r.supersedes = decisions[old].supersedes
      BY <3>1 DEF DecisionRecord
    <3> HIDE DEF r, old, new
    <3> QED
      BY <3>1, <3>2, <3>3
  <2> HIDE DEF old, new, t
  <2>4. Listed' = Listed
    BY <2>3 DEF Listed
  <2>5. doomed \/ (t.old \in Listed /\ t.new \in Listed /\ decisions'[t.old].status = "superseded")
    BY <1>2, <2>2, <2>3
  <2>6. LinksAreListed'
    BY <1>0, <1>2, <2>1, <2>3, <2>4 DEF KeptSoFar, LinksAreListed
  <2>7. SupersededStaysSo'
    BY <1>0, <1>4, <2>1, <2>3, <2>4 DEF KeptSoFar, SupersededStaysSo, Listed
  <2>8. \A d \in Names : decisions[d].status = "superseded" \/ d \in revived
                        => decisions'[d].status = "superseded" \/ d \in revived'
    BY <1>4, <2>3
  <2>9. \A d \in Names : decisions'[d] = decisions[d] \/ d \in Listed \/ doomed
    BY <1>2, <2>3
  <2> QED
    BY <1>0, <1>1, <1>4, <2>1, <2>2, <2>3, <2>4, <2>5, <2>6, <2>7, <2>8, <2>9, LinkingKeeps
<1> QED
  BY <1>3, <1>4 DEF RetireOld

LEMMA RelateNewKeeps == ASSUME MemoryInv, NEW p \in Servers, RelateNew(p) PROVE MemoryInv'
<1> DEFINE old == task[p].old
           new == task[p].new
<1>0. task \in [Servers -> MemoryTask] /\ TasksFit /\ KeptSoFar /\ MemoryTypeOK /\ revived \subseteq Names
      /\ mishaps \in Nat
  BY DEF MemoryInv, StoreTypeOK
<1>1. task[p] \in [at : {"retire", "relate"}, old : Names, new : Names] /\ task[p].at = "relate"
  BY <1>0, TaskShapes DEF RelateNew, About
<1>2. doomed \/ (old \in Listed /\ new \in Listed /\ (old \in revived \/ decisions[old].status = "superseded"))
  BY <1>0, <1>1 DEF TasksFit, LinkFits
<1>3. Go(p, Serving)
  BY DEF RelateNew
<1>4. CASE Fail /\ UNCHANGED decisions
  <2>1. UNCHANGED <<store, past>> /\ mishaps' \in Nat
    BY <1>0, <1>4, FailCounts DEF RelateNew, store
  <2>2. task[p].at \notin Starting
    BY <1>1 DEF Starting, Migrating
  <2> QED
    BY <1>3, <2>1, <2>2, GivesUp
<1>5. CASE decisions' = [decisions EXCEPT ![new].supersedes = old] /\ UNCHANGED mishaps
  <2>1. UNCHANGED <<memories, overlay, flagged, schema, index, past>>
    BY DEF RelateNew
  <2>2. Serving \in MemoryTask /\ Serving.at = "serving"
    BY RestingFits DEF Serving
  <2>3. /\ decisions \in [Names -> DecisionRecord] /\ decisions' \in [Names -> DecisionRecord]
        /\ \A d \in Names : decisions'[d].status = decisions[d].status /\ decisions'[d].listed = decisions[d].listed
        /\ decisions'[new].supersedes = old
        /\ \A d \in Names \ {new} : decisions'[d] = decisions[d]
    <3>1. decisions \in [Names -> DecisionRecord] /\ decisions[new] \in DecisionRecord
          /\ old \in Names /\ new \in Names
      BY <1>0, <1>1 DEF MemoryTypeOK, DecisionRecord
    <3> DEFINE r == [decisions[new] EXCEPT !.supersedes = old]
    <3>2. decisions' = [decisions EXCEPT ![new] = r]
      BY <1>5
    <3>3. /\ r \in DecisionRecord /\ r.supersedes = old
          /\ r.status = decisions[new].status /\ r.listed = decisions[new].listed
      BY <3>1 DEF DecisionRecord
    <3> HIDE DEF r, old, new
    <3> QED
      BY <3>1, <3>2, <3>3
  <2> HIDE DEF old, new
  <2>4. Listed' = Listed
    BY <2>3 DEF Listed
  <2>5. LinksAreListed'
    BY <1>0, <1>2, <2>1, <2>3, <2>4 DEF KeptSoFar, LinksAreListed, past
  <2>6. SupersededStaysSo'
    BY <1>0, <1>2, <2>1, <2>3, <2>4 DEF KeptSoFar, SupersededStaysSo, Listed, past
  <2>7. \A d \in Names : decisions[d].status = "superseded" \/ d \in revived
                        => decisions'[d].status = "superseded" \/ d \in revived'
    BY <2>1, <2>3 DEF past
  <2>8. \A d \in Names : decisions'[d] = decisions[d] \/ d \in Listed \/ doomed
    BY <1>2, <2>3
  <2> QED
    BY <1>0, <1>1, <1>3, <1>5, <2>1, <2>2, <2>3, <2>4, <2>5, <2>6, <2>7, <2>8, LinkingKeeps DEF past
<1> QED
  BY <1>4, <1>5 DEF RelateNew

-----------------------------------------------------------------------------
(* Feedback: counts and the overlay.                                       *)
LEMMA FeedbackKeeps ==
    ASSUME MemoryInv, NEW p \in Servers, NEW read \in SUBSET Files, NEW given \in SUBSET saved,
           NEW further \in BOOLEAN, NEW success \in BOOLEAN, NEW named \in BOOLEAN,
           Feedback(p, read, given, further, success, named)
    PROVE  MemoryInv'
<1> DEFINE todo == IF further /\ read # {} THEN {k \in given : Owned(k) \cap read = {}} ELSE {}
           clean == success /\ ~further
           t == [at |-> "flag", read |-> read, clean |-> clean, named |-> named, todo |-> todo]
<1>1. Go(p, t) /\ UNCHANGED <<store, past>> /\ mishaps' \in Nat /\ task[p].at = "serving"
  BY DEF Feedback, MemoryInv, StoreTypeOK, About
<1>2. todo \in SUBSET Keys /\ clean \in BOOLEAN
  <2>1. given \subseteq Keys
    BY DEF MemoryInv, StoreTypeOK, MemoryTypeOK
  <2>2. todo \subseteq given
    OBVIOUS
  <2>3. clean \in BOOLEAN
    OBVIOUS
  <2> HIDE DEF todo, clean
  <2> QED
    BY <2>1, <2>2, <2>3
<1> HIDE DEF todo, clean
<1>3. t \in FlagTask /\ t.at = "flag"
  BY <1>2 DEF FlagTask
<1>4. t \in MemoryTask
  BY <1>3 DEF MemoryTask
<1> HIDE DEF t
<1>5. doomed \/ schema = "v6"
  BY <1>1, ServingMeansCurrent DEF Starting, Migrating
<1>6. CountFits(t) /\ EmbedIsExcused(t) /\ LinkFits(t) /\ (doomed \/ StartFits(t))
  BY <1>3, <1>5 DEF CountFits, EmbedIsExcused, LinkFits, StartFits
<1> QED
  BY <1>1, <1>3, <1>4, <1>6, MovesOn

LEMMA ReadCountKeeps ==
    ASSUME MemoryInv, NEW p \in Servers, NEW k \in Keys, ReadCount(p, k)
    PROVE  MemoryInv'
<1> DEFINE after == [task[p] EXCEPT !.todo = @ \ {k}]
           count == [at |-> "count", key |-> k, count |-> flagged[k] + 1, after |-> after]
<1>0. task \in [Servers -> MemoryTask] /\ TasksFit /\ KeptSoFar /\ MemoryTypeOK /\ mishaps \in Nat
  BY DEF MemoryInv, StoreTypeOK
<1>1. task[p] \in FlagTask /\ task[p].at = "flag"
  BY <1>0, TaskShapes DEF ReadCount, About
<1>2. after \in FlagTask /\ after \in MemoryTask /\ after.at = "flag"
  <2>1. after \in FlagTask /\ after.at = "flag"
    BY <1>1 DEF FlagTask
  <2> QED
    BY <2>1 DEF MemoryTask
<1>3. doomed \/ schema = "v6"
  BY <1>1, ServingMeansCurrent DEF Starting, Migrating
<1>4. UNCHANGED <<store, saved, overtaken, doomed, unread, revived, notice, cut>>
  BY DEF ReadCount
<1> HIDE DEF after
<1>5. CASE Fail /\ Go(p, after) /\ UNCHANGED complaints
  <2>1. CountFits(after) /\ EmbedIsExcused(after) /\ LinkFits(after) /\ (doomed \/ StartFits(after))
    BY <1>2, <1>3 DEF CountFits, EmbedIsExcused, LinkFits, StartFits
  <2> QED
    BY <1>0, <1>1, <1>2, <1>4, <1>5, <2>1, FailCounts, MovesOn DEF past
<1>6. CASE Go(p, count) /\ complaints' = [complaints EXCEPT ![k] = @ + 1] /\ UNCHANGED mishaps
  <2>1. flagged[k] \in Nat /\ complaints[k] \in Nat /\ flagged[k] <= complaints[k]
    BY <1>0 DEF MemoryTypeOK, KeptSoFar, CountsAreComplaints
  <2>2. /\ complaints' \in [Keys -> Nat] /\ complaints'[k] = complaints[k] + 1
        /\ \A j \in Keys : complaints[j] <= complaints'[j]
    <3>1. complaints \in [Keys -> Nat] /\ complaints' = [complaints EXCEPT ![k] = complaints[k] + 1]
      BY <1>0, <1>6 DEF MemoryTypeOK
    <3> QED
      BY <3>1, GrowsBy
  <2>3. count \in CountTask /\ count.at = "count" /\ count.key = k /\ count.count = flagged[k] + 1
    BY <1>2, <2>1 DEF CountTask
  <2>4. count \in MemoryTask
    BY <2>3 DEF MemoryTask
  <2> HIDE DEF count
  <2>5. task'[p] = count /\ task' \in [Servers -> MemoryTask] /\ \A q \in Servers \ {p} : task'[q] = task[q]
    BY <1>0, <1>6, <2>4, GoKeeps
  <2>6. StoreTypeOK'
    BY <1>4, <1>6, <2>2, <2>5 DEF MemoryInv, StoreTypeOK, MemoryTypeOK, store
  <2>7. TasksFit'
    <3> SUFFICES ASSUME NEW q \in Servers
                 PROVE  /\ CountFits(task[q])'
                        /\ doomed' \/ (EmbedIsExcused(task[q])' /\ LinkFits(task[q])' /\ StartFits(task[q])')
      BY DEF TasksFit
    <3>1. CASE q = p
      <4>1. flagged[k] + 1 <= complaints'[k]
        BY <2>1, <2>2
      <4> QED
        BY <1>3, <1>4, <2>3, <2>5, <3>1, <4>1 DEF CountFits, EmbedIsExcused, LinkFits, StartFits, store
    <3>2. CASE q # p
      <4>1. /\ task'[q] = task[q] /\ CountFits(task[q])
            /\ doomed \/ (EmbedIsExcused(task[q]) /\ LinkFits(task[q]) /\ StartFits(task[q]))
        BY <1>0, <2>5, <3>2 DEF TasksFit
      <4>2. CountFits(task[q])'
        <5> SUFFICES ASSUME task[q].at = "count" PROVE task[q].count <= complaints'[task[q].key]
          BY <4>1 DEF CountFits
        <5>1. task[q] \in CountTask
          BY <1>0, TaskShapes
        <5>2. task[q].count \in Nat /\ task[q].key \in Keys
          BY <5>1 DEF CountTask
        <5>3. task[q].count <= complaints[task[q].key] /\ complaints[task[q].key] \in Nat
              /\ complaints'[task[q].key] \in Nat /\ complaints[task[q].key] <= complaints'[task[q].key]
          BY <1>0, <2>2, <4>1, <5>2 DEF CountFits, MemoryTypeOK
        <5> QED
          BY <5>2, <5>3
      <4> QED
        BY <1>4, <4>1, <4>2 DEF EmbedIsExcused, LinkFits, StartFits, Listed, store
    <3> QED
      BY <3>1, <3>2
  <2>8. CountsAreComplaints'
    <3> SUFFICES ASSUME NEW j \in Keys PROVE flagged'[j] <= complaints'[j]
      BY DEF CountsAreComplaints
    <3>1. /\ flagged'[j] = flagged[j] /\ flagged[j] \in Nat /\ complaints[j] \in Nat /\ complaints'[j] \in Nat
          /\ flagged[j] <= complaints[j] /\ complaints[j] <= complaints'[j]
      BY <1>0, <1>4, <2>2 DEF MemoryTypeOK, KeptSoFar, CountsAreComplaints, store
    <3> QED
      BY <3>1
  <2>9. NothingToWipe'
    BY <1>0, <1>4, <1>6, <2>3, <2>4, WipeStaysAway, WipeStaysDue DEF KeptSoFar, store
  <2>10. IndexComesBack'
    BY <1>0, <1>1, <1>4, <1>6, <2>4, IndexStaysBack DEF KeptSoFar, store
  <2>11. AgentMemoriesSurvive' /\ SupersededStaysSo' /\ LinksAreListed' /\ ConflictsAreNoticed' /\ OverlayAddsUp'
    BY <1>0, <1>4 DEF KeptSoFar, AgentMemoriesSurvive, SupersededStaysSo, LinksAreListed,
                      ConflictsAreNoticed, Listed, OverlayAddsUp, store
  <2> QED
    BY <2>6, <2>7, <2>8, <2>9, <2>10, <2>11 DEF MemoryInv, KeptSoFar
<1> QED
  BY <1>5, <1>6 DEF ReadCount, after

(* What changes the counts or the overlay alone.                           *)
LEMMA CountingKeeps ==
    ASSUME MemoryInv, mishaps' \in Nat, task' \in [Servers -> MemoryTask], TasksFit',
           UNCHANGED <<memories, decisions, schema, index, past>>, WipeIsDue' => WipeIsDue,
           IndexComesBack', CountsAreComplaints', OverlayAddsUp', flagged' \in [Keys -> Nat],
           overlay' \in [useful : [Files -> Nat], dead : [Files -> Nat], total : Nat]
    PROVE  MemoryInv'
<1>1. StoreTypeOK'
  BY DEF MemoryInv, StoreTypeOK, MemoryTypeOK, past
<1>2. AgentMemoriesSurvive' /\ SupersededStaysSo' /\ LinksAreListed' /\ ConflictsAreNoticed' /\ NothingToWipe'
  BY DEF MemoryInv, KeptSoFar, AgentMemoriesSurvive, SupersededStaysSo, LinksAreListed,
         ConflictsAreNoticed, NothingToWipe, Listed, past
<1> QED
  BY <1>1, <1>2 DEF MemoryInv, KeptSoFar

LEMMA WriteCountKeeps == ASSUME MemoryInv, NEW p \in Servers, WriteCount(p) PROVE MemoryInv'
<1> DEFINE t == task[p].after
<1>0. /\ task \in [Servers -> MemoryTask] /\ TasksFit /\ KeptSoFar /\ MemoryTypeOK /\ mishaps \in Nat
      /\ overlay \in [useful : [Files -> Nat], dead : [Files -> Nat], total : Nat]
  BY DEF MemoryInv, StoreTypeOK
<1>1. task[p] \in CountTask /\ task[p].at = "count" /\ CountFits(task[p])
  BY <1>0, TaskShapes DEF WriteCount, About, TasksFit
<1>2. t \in FlagTask /\ task[p].key \in Keys /\ task[p].count \in Nat /\ task[p].count <= complaints[task[p].key]
  BY <1>1 DEF CountTask, CountFits
<1>3. t \in MemoryTask /\ t.at = "flag"
  BY <1>2 DEF MemoryTask, FlagTask
<1>4. doomed \/ schema = "v6"
  BY <1>1, ServingMeansCurrent DEF Starting, Migrating
<1>5. /\ Go(p, t) /\ mishaps' \in Nat
      /\ flagged' = flagged \/ flagged' = [flagged EXCEPT ![task[p].key] = task[p].count]
      /\ UNCHANGED <<memories, decisions, overlay, schema, index, past>>
  BY <1>0, FailCounts DEF WriteCount
<1>6. task' \in [Servers -> MemoryTask] /\ flagged' \in [Keys -> Nat]
  BY <1>0, <1>2, <1>3, <1>5, GoKeeps DEF MemoryTypeOK
<1>7. TasksFit'
  <2>1. CountFits(t) /\ EmbedIsExcused(t) /\ LinkFits(t) /\ (doomed \/ StartFits(t))
    BY <1>3, <1>4 DEF CountFits, EmbedIsExcused, LinkFits, StartFits
  <2> QED
    BY <1>0, <1>3, <1>5, <2>1, OthersFit DEF past
<1>8. CountsAreComplaints'
  <2> SUFFICES ASSUME NEW j \in Keys PROVE flagged'[j] <= complaints'[j]
    BY DEF CountsAreComplaints
  <2>1. flagged[j] <= complaints[j] /\ complaints'[j] = complaints[j]
    BY <1>0, <1>5 DEF KeptSoFar, CountsAreComplaints, past
  <2>2. flagged'[j] = flagged[j] \/ (j = task[p].key /\ flagged'[j] = task[p].count)
    BY <1>0, <1>5 DEF MemoryTypeOK
  <2> QED
    BY <1>2, <2>1, <2>2
<1>9. (WipeIsDue' => WipeIsDue) /\ IndexComesBack'
  BY <1>0, <1>1, <1>3, <1>5, WipeStaysAway, IndexStaysBack DEF KeptSoFar, past
<1>10. OverlayAddsUp'
  BY <1>0, <1>5 DEF KeptSoFar, OverlayAddsUp
<1> QED
  BY <1>0, <1>5, <1>6, <1>7, <1>8, <1>9, <1>10, CountingKeeps

LEMMA UpdateOverlayKeeps == ASSUME MemoryInv, NEW p \in Servers, UpdateOverlay(p) PROVE MemoryInv'
<1>0. /\ task \in [Servers -> MemoryTask] /\ TasksFit /\ KeptSoFar /\ MemoryTypeOK /\ mishaps \in Nat
      /\ overlay \in [useful : [Files -> Nat], dead : [Files -> Nat], total : Nat]
  BY DEF MemoryInv, StoreTypeOK
<1>1. task[p].at = "flag" /\ Go(p, Serving) /\ UNCHANGED <<memories, decisions, flagged, schema, index, past>>
  BY DEF UpdateOverlay, About
<1>2. doomed \/ schema = "v6"
  BY <1>1, ServingMeansCurrent DEF Starting, Migrating
<1>3. /\ Serving \in MemoryTask /\ Serving.at = "serving" /\ CountFits(Serving) /\ EmbedIsExcused(Serving)
      /\ LinkFits(Serving) /\ (doomed \/ StartFits(Serving))
  BY <1>2, RestingFits DEF Serving, StartFits
<1>4. task' \in [Servers -> MemoryTask] /\ TasksFit' /\ (WipeIsDue' => WipeIsDue) /\ IndexComesBack'
  BY <1>0, <1>1, <1>3, GoKeeps, OthersFit, WipeStaysAway, IndexStaysBack DEF KeptSoFar, past
<1>5. /\ mishaps' \in Nat /\ OverlayAddsUp'
      /\ overlay' \in [useful : [Files -> Nat], dead : [Files -> Nat], total : Nat]
  <2>1. /\ overlay.useful \in [Files -> Nat] /\ overlay.dead \in [Files -> Nat] /\ overlay.total \in Nat
        /\ \A f \in Files : overlay.useful[f] + overlay.dead[f] <= overlay.total
    BY <1>0 DEF KeptSoFar, OverlayAddsUp
  <2>2. CASE UNCHANGED overlay /\ (Fail \/ UNCHANGED mishaps)
    BY <1>0, <2>2, FailCounts DEF KeptSoFar, OverlayAddsUp
  <2>3. CASE Fail /\ overlay' = [overlay EXCEPT !.total = @ + 1]
    <3>1. overlay'.useful = overlay.useful /\ overlay'.dead = overlay.dead /\ overlay'.total = overlay.total + 1
      BY <1>0, <2>3
    <3>2. OverlayAddsUp'
      BY <2>1, <3>1 DEF OverlayAddsUp
    <3>3. overlay' \in [useful : [Files -> Nat], dead : [Files -> Nat], total : Nat]
      BY <1>0, <2>1, <2>3
    <3> QED
      BY <1>0, <2>3, <3>2, <3>3, FailCounts
  <2>4. CASE /\ UNCHANGED mishaps
             /\ overlay' =
                  [useful |-> [f \in Files |-> overlay.useful[f]
                                  + (IF [g \in Files |-> g \in task[p].read][f] THEN 1 ELSE 0)],
                   dead |-> [f \in Files |-> overlay.dead[f]
                                + (IF [g \in Files |-> ~[h \in Files |-> h \in task[p].read][g]
                                                        /\ task[p].clean][f] THEN 1 ELSE 0)],
                   total |-> overlay.total + 1]
    <3> DEFINE used(f) == IF f \in task[p].read THEN 1 ELSE 0
               idle(f) == IF f \notin task[p].read /\ task[p].clean THEN 1 ELSE 0
    <3>1. overlay' = [useful |-> [f \in Files |-> overlay.useful[f] + used(f)],
                      dead |-> [f \in Files |-> overlay.dead[f] + idle(f)],
                      total |-> overlay.total + 1]
      BY <2>4
    <3>2. \A f \in Files : used(f) \in {0, 1} /\ idle(f) \in {0, 1} /\ (used(f) = 0 \/ idle(f) = 0)
      OBVIOUS
    <3> HIDE DEF used, idle
    <3>3. /\ overlay'.useful = [f \in Files |-> overlay.useful[f] + used(f)]
          /\ overlay'.dead = [f \in Files |-> overlay.dead[f] + idle(f)]
          /\ overlay'.total = overlay.total + 1
      BY <3>1
    <3>4. overlay'.useful \in [Files -> Nat] /\ overlay'.dead \in [Files -> Nat] /\ overlay'.total \in Nat
      BY <2>1, <3>2, <3>3
    <3>5. OverlayAddsUp'
      BY <2>1, <3>2, <3>3 DEF OverlayAddsUp
    <3>6. overlay' \in [useful : [Files -> Nat], dead : [Files -> Nat], total : Nat]
      BY <3>1, <3>3, <3>4
    <3> QED
      BY <1>0, <2>4, <3>5, <3>6
  <2> QED
    BY <2>2, <2>3, <2>4 DEF UpdateOverlay
<1>6. CountsAreComplaints' /\ flagged' \in [Keys -> Nat]
  BY <1>0, <1>1 DEF KeptSoFar, CountsAreComplaints, MemoryTypeOK, past
<1> QED
  BY <1>1, <1>4, <1>5, <1>6, CountingKeeps

LEMMA ExpireKeeps == ASSUME MemoryInv, NEW k \in Keys, Expire(k) PROVE MemoryInv'
<1>0. /\ TasksFit /\ KeptSoFar /\ MemoryTypeOK /\ mishaps \in Nat
      /\ overlay \in [useful : [Files -> Nat], dead : [Files -> Nat], total : Nat]
      /\ task \in [Servers -> MemoryTask]
  BY DEF MemoryInv, StoreTypeOK
<1>1. /\ flagged' = [flagged EXCEPT ![k] = 0]
      /\ UNCHANGED <<memories, decisions, overlay, schema, index, task, mishaps, past>>
  BY DEF Expire
<1>2. flagged' \in [Keys -> Nat] /\ \A j \in Keys : flagged'[j] \in {flagged[j], 0}
  BY <1>0, <1>1 DEF MemoryTypeOK
<1>3. CountsAreComplaints'
  <2> SUFFICES ASSUME NEW j \in Keys PROVE flagged'[j] <= complaints'[j]
    BY DEF CountsAreComplaints
  <2>1. flagged[j] \in Nat /\ complaints[j] \in Nat /\ flagged[j] <= complaints[j] /\ complaints'[j] = complaints[j]
    BY <1>0, <1>1 DEF KeptSoFar, CountsAreComplaints, MemoryTypeOK, past
  <2> QED
    BY <1>2, <2>1, ForgottenIsLess
<1>4. TasksFit'
  BY <1>0, <1>1 DEF TasksFit, CountFits, EmbedIsExcused, LinkFits, StartFits, Listed, past
<1>5. (WipeIsDue' => WipeIsDue) /\ IndexComesBack' /\ OverlayAddsUp'
  BY <1>0, <1>1 DEF KeptSoFar, WipeIsDue, IndexComesBack, Exists, About, OverlayAddsUp, past
<1> QED
  BY <1>0, <1>1, <1>2, <1>3, <1>4, <1>5, CountingKeeps

-----------------------------------------------------------------------------
LEMMA CrashKeeps == ASSUME MemoryInv, NEW p \in Servers, Crash(p) PROVE MemoryInv'
<1>0. task \in [Servers -> MemoryTask] /\ TasksFit /\ KeptSoFar /\ mishaps \in Nat
  BY DEF MemoryInv, StoreTypeOK
<1>1. /\ Go(p, Down) /\ mishaps' \in Nat
      /\ notice' = IF About(p, "listing") THEN [notice EXCEPT ![task[p].name] = "unheard"] ELSE notice
      /\ cut' = (cut \/ (~Exists /\ (About(p, "look") \/ About(p, "create"))))
      /\ UNCHANGED <<store, saved, overtaken, doomed, unread, revived, complaints>>
  BY <1>0, FailCounts DEF Crash
<1>2. /\ Down \in MemoryTask /\ Down.at = "down" /\ CountFits(Down) /\ EmbedIsExcused(Down)
      /\ LinkFits(Down) /\ StartFits(Down)
  BY RestingFits DEF Down
<1>3. task' \in [Servers -> MemoryTask]
  BY <1>0, <1>1, <1>2, GoKeeps
<1>4. /\ notice' \in [Names -> {"none", "pending", "unheard", "clear", "warned"}]
      /\ \A d \in Names : notice'[d] \in {notice[d], "unheard"}
  <2>1. notice \in [Names -> {"none", "pending", "unheard", "clear", "warned"}]
    BY DEF MemoryInv, StoreTypeOK
  <2>2. About(p, "listing") => task[p].name \in Names
    BY <1>0, TaskShapes DEF About
  <2> QED
    BY <1>1, <2>1, <2>2
<1>5. StoreTypeOK'
  BY <1>1, <1>3, <1>4 DEF MemoryInv, StoreTypeOK, MemoryTypeOK, store
<1>6. TasksFit'
  BY <1>0, <1>1, <1>2, OthersFit DEF store
<1>7. NothingToWipe'
  BY <1>0, <1>1, <1>2, WipeStaysAway, WipeStaysDue DEF KeptSoFar, store
<1>8. IndexComesBack'
  BY <1>0, <1>1, <1>2, IndexStaysBack DEF KeptSoFar, About, store
<1>9. ConflictsAreNoticed'
  BY <1>0, <1>1, <1>4 DEF KeptSoFar, ConflictsAreNoticed, Listed, store
<1>10. AgentMemoriesSurvive' /\ SupersededStaysSo' /\ LinksAreListed' /\ CountsAreComplaints' /\ OverlayAddsUp'
  BY <1>0, <1>1 DEF KeptSoFar, AgentMemoriesSurvive, SupersededStaysSo, LinksAreListed, Listed,
                    CountsAreComplaints, OverlayAddsUp, store
<1> QED
  BY <1>5, <1>6, <1>7, <1>8, <1>9, <1>10 DEF MemoryInv, KeptSoFar

LEMMA MemoryStutterKeeps == ASSUME MemoryInv, UNCHANGED memoryVars PROVE MemoryInv'
<1>1. StoreTypeOK'
  BY DEF MemoryInv, StoreTypeOK, MemoryTypeOK, memoryVars, store, past
<1>2. TasksFit'
  BY DEF MemoryInv, TasksFit, CountFits, EmbedIsExcused, LinkFits, StartFits, Listed, memoryVars, store, past
<1>3. NothingToWipe' /\ IndexComesBack'
  BY DEF MemoryInv, KeptSoFar, NothingToWipe, IndexComesBack, WipeIsDue, Exists, About, Listed,
         memoryVars, store, past
<1> QED
  BY <1>1, <1>2, <1>3, StoreIsKept DEF MemoryInv, KeptSoFar, memoryVars, store, past

LEMMA MemoryInvHolds == SpecMemory => []MemoryInv
<1>1. ASSUME MemoryInv, [StepMemory]_memoryVars PROVE MemoryInv'
  <2>1. CASE UNCHANGED memoryVars
    BY <1>1, <2>1, MemoryStutterKeeps
  <2>2. ASSUME NEW p \in Servers, ReadVersion(p) \/ Wipe(p) \/ DropIndex(p) \/ LookForIndex(p)
                                 \/ CreateIndex(p) \/ StampVersion(p)
        PROVE  MemoryInv'
    BY <1>1, <2>2, ReadVersionKeeps, WipeKeeps, DropIndexKeeps, LookForIndexKeeps, CreateIndexKeeps,
       StampVersionKeeps
  <2>3. ASSUME NEW p \in Servers, Populate(p) \/ EndPopulate(p) \/ WriteAuto(p) \/ ListConflicts(p)
                                 \/ RetireOld(p) \/ RelateNew(p)
        PROVE  MemoryInv'
    BY <1>1, <2>3, PopulateKeeps, EndPopulateKeeps, WriteAutoKeeps, ListConflictsKeeps, RetireOldKeeps,
       RelateNewKeeps
  <2>4. ASSUME NEW p \in Servers, WriteCount(p) \/ UpdateOverlay(p) \/ Crash(p) PROVE MemoryInv'
    BY <1>1, <2>4, WriteCountKeeps, UpdateOverlayKeeps, CrashKeeps
  <2>5. ASSUME NEW p \in Servers, NEW k \in Keys, SaveAgent(p, k) \/ CheckSource(p, k) \/ ReadCount(p, k)
        PROVE  MemoryInv'
    BY <1>1, <2>5, SaveAgentKeeps, CheckSourceKeeps, ReadCountKeeps
  <2>6. ASSUME NEW p \in Servers, NEW d \in Names,
               SaveDecision(p, d) \/ \E e \in Names : Supersede(p, e, d)
        PROVE  MemoryInv'
    BY <1>1, <2>6, SaveDecisionKeeps, SupersedeKeeps
  <2>7. ASSUME NEW p \in Servers, NEW read \in SUBSET Files, NEW given \in SUBSET saved,
               NEW further \in BOOLEAN, NEW success \in BOOLEAN, NEW named \in BOOLEAN,
               Feedback(p, read, given, further, success, named)
        PROVE  MemoryInv'
    BY <1>1, <2>7, FeedbackKeeps
  <2>8. CASE IndexIsFilled \/ \E k \in Keys : Expire(k)
    BY <1>1, <2>8, IndexIsFilledKeeps, ExpireKeeps
  <2> QED
    BY <1>1, <2>1, <2>2, <2>3, <2>4, <2>5, <2>6, <2>7, <2>8 DEF StepMemory
<1> QED
  BY <1>1, MemoryInvStarts, PTL DEF SpecMemory

(* A memory that is near enough is given whatever was said of it, and what *)
(* is withheld was complained of, three times if it is borderline.         *)
LEMMA GrudgesFollow == ASSUME MemoryInv PROVE GrudgesAreBounded
<1> SUFFICES ASSUME NEW k \in Keys, NEW sim \in {0, 70, 100}
             PROVE  /\ flagged[k] <= complaints[k] /\ Recalled(k, 39, sim)
                    /\ ~Recalled(k, 40, sim) => complaints[k] >= 3
                    /\ ~Recalled(k, 60, sim) => complaints[k] > 0
  BY DEF GrudgesAreBounded
<1> DEFINE n == flagged[k]
           c == complaints[k]
<1>0. flagged \in [Keys -> Nat] /\ complaints \in [Keys -> Nat] /\ CountsAreComplaints
  BY DEF MemoryInv, StoreTypeOK, MemoryTypeOK, KeptSoFar
<1>1. n \in Nat /\ c \in Nat /\ n <= c
  BY <1>0 DEF CountsAreComplaints
<1>2. Smaller(n, 3) \in 0 .. 3 /\ (n < 3 => Smaller(n, 3) \in 0 .. 2)
  BY <1>1 DEF Smaller
<1>3. sim \in 0 .. 100
  OBVIOUS
<1>4. Smaller(n, 3) * sim <= 300 /\ (n < 3 => Smaller(n, 3) * sim <= 200)
  BY <1>2, <1>3
<1>5. Smaller(n, 3) * sim \in Nat
  BY <1>2, <1>3
<1>6. Recalled(k, 39, sim)
  BY <1>2, <1>4, <1>5 DEF Recalled
<1>7. n < 3 => Recalled(k, 40, sim)
  BY <1>2, <1>4, <1>5 DEF Recalled
<1>8. n = 0 => Recalled(k, 60, sim)
  BY <1>1 DEF Recalled
<1> QED
  BY <1>1, <1>6, <1>7, <1>8

LEMMA MemoryInvSuffices == MemoryInv => MemoriesAreKept
BY GrudgesFollow DEF MemoryInv, StoreTypeOK, KeptSoFar, MemoriesAreKept

-----------------------------------------------------------------------------
(* internal/memory: whatever a process holds while others migrate, save,   *)
(* populate, supersede and report, or end between two commands, an agent's *)
(* memories and decisions, the index, the counts and the overlay are kept  *)
(* as MemoryStore says, but for the failures it names.                     *)
THEOREM MemoriesStayKept == SpecMemory => []MemoriesAreKept
BY MemoryInvHolds, MemoryInvSuffices, PTL
-----------------------------------------------------------------------------
(* Feedback.  What a call is about is told by the log of the queries posed *)
(* and of the documents shown for them; the predicates take both, to speak *)
(* of them before and after a step.                                        *)
Breadth == LeastDocs .. MostDocs
Profiles == {serving[2] : serving \in Served}
Arms == [source : Sources, docs : Breadth]
Surfaces == {serving[3] : serving \in Served}
PosedQuery == [bucket : Buckets, profile : Profiles, surface : Surfaces, by : Servers]
ServedQuery == [query : QueryId, bucket : Buckets, profile : Profiles]
RecentQuery == [query : QueryId, bucket : Buckets, profile : Profiles, text : Texts]
Trace == [known : BOOLEAN, of : ServedQuery \cup {Nothing}, arm : Arms \cup {Nothing}]
Trial == [source : Sources, docs : Breadth, base : Breadth, tried : Nat, kept : Nat, strikes : Nat]
ShownDocs == [repeat : BOOLEAN, docs : [Sources -> Breadth]]

Dues(kind, arms) ==
    [query : QueryId, bucket : Buckets, profile : Profiles, low : BOOLEAN, kind : {kind}, arm : arms]
RepeatDue == Dues("implicit_repeat", {Nothing})
FeedbackDue == Dues("explicit", Arms \cup {Nothing})

PosedCall(places, dues) ==
    [at : places, query : QueryId, bucket : Buckets, profile : Profiles, text : Texts, sim : Nat,
     due : dues, todo : SUBSET Sources, cell : Sources \cup {Nothing}, docs : [Sources -> Nat],
     arm : Arms \cup {Nothing}]
Crediting == {"append", "credit"}
Answering == {"record", "breadths", "seed", "put"}
RepeatCall == PosedCall(Crediting, RepeatDue)
ServeCall == PosedCall(Answering, RepeatDue \cup {Nothing})
JoinCall == [at : Crediting, due : FeedbackDue]
FallBackCall == [at : {"fall back"}, named : Nat]
Posing == RepeatCall \cup ServeCall
FeedbackCall == {Idling} \cup Posing \cup JoinCall \cup FallBackCall

LoopTypeOK ==
    /\ posed \in Seq(PosedQuery) /\ Len(posed) <= MaxPosed
    /\ recent \in Seq(RecentQuery)
    /\ traces \in [QueryId -> Trace]
    /\ breadths \in [Buckets -> [Sources -> {0} \cup Breadth]]
    /\ frozen \in [Buckets -> [Sources -> {0, SeedDocs}]]
    /\ trials \in [Servers -> [Buckets -> Trial \cup {Nothing}]]
    /\ lastCall \in [Servers -> ServedQuery \cup {Nothing}]
    /\ call \in [Servers -> FeedbackCall]
    /\ shown \in [QueryId -> ShownDocs \cup {Nothing}]
    /\ repeats \subseteq QueryId \X QueryId

(* The query of r was served from the bucket and profile that r names.     *)
Fits(r, log) ==
    /\ r.query \in 1 .. Len(log)
    /\ r.bucket = log[r.query].bucket /\ r.profile = log[r.query].profile

(* The arm of an experiment is what the query was shown.                   *)
IsSample(q, arm, seen) ==
    arm = Nothing \/ (seen[q] # Nothing /\ seen[q].docs[arm.source] = arm.docs)

(* A query is put by the process that posed it, once.                      *)
CallFits(p, c, log, seen) ==
    /\ c.at \in Crediting => Fits(c.due, log) /\ IsSample(c.due.query, c.due.arm, seen)
    /\ c \in Posing =>
           /\ Fits(c, log) /\ log[c.query].by = p
           /\ c.at # "put" => seen[c.query] = Nothing
           /\ c.at = "put" => IsSample(c.query, c.arm, seen)
           /\ \A s \in Sources \ c.todo : c.docs[s] \in Breadth
           /\ c.at = "seed" => c.cell \in Sources

TrialFits(t) == t # Nothing => t.docs \in {t.base - 1, t.base + 1} /\ ~Struck(t)
TraceFits(q, trace, log, seen) ==
    /\ trace.of # Nothing => trace.known /\ trace.of.query = q /\ Fits(trace.of, log)
    /\ IsSample(q, trace.arm, seen)
LastFits(p, last, log) == last # Nothing => Fits(last, log) /\ log[last.query].by = p

RecentFit == \A i \in 1 .. Len(recent) : Fits(recent[i], posed)
TracesFit == \A q \in QueryId : TraceFits(q, traces[q], posed, shown)
UnposedIsUnshown == \A q \in QueryId : q > Len(posed) => shown[q] = Nothing
LastCallsFit == \A p \in Servers : LastFits(p, lastCall[p], posed)
CallsFit == \A p \in Servers : CallFits(p, call[p], posed, shown)
RewardsFit == \A r \in rewards : Fits(r, posed)
JoinsFit == \A j \in joins : j.to \in 1 .. Len(posed) /\ (j.to = j.named \/ posed[j.to].by = j.by)
TrialsFit == \A p \in Servers, b \in Buckets : TrialFits(trials[p][b])

FeedbackInv ==
    /\ LoopTypeOK /\ RecentFit /\ TracesFit /\ UnposedIsUnshown /\ LastCallsFit /\ CallsFit
    /\ RewardsFit /\ SamplesAreOfWhatWasServed /\ JoinsFit /\ TrialsFit /\ RepeatsGoBack

-----------------------------------------------------------------------------
LEMMA BoundsAreOrdered ==
    /\ LeastDocs \in Nat /\ LeastDocs >= 2 /\ MostDocs \in Nat /\ SeedDocs \in Breadth
    /\ Breadth \subseteq Nat /\ \A n \in Breadth : n # 0
BY FeedbackAssumption DEF Breadth

LEMMA CallShapes ==
    ASSUME NEW c \in FeedbackCall
    PROVE  /\ c.at \in Answering => c \in ServeCall
           /\ c.at \in Crediting => c \in RepeatCall \/ c \in JoinCall
           /\ c.at = "fall back" => c \in FallBackCall
<1>1. c = Idling \/ c \in RepeatCall \/ c \in ServeCall \/ c \in JoinCall \/ c \in FallBackCall
  BY DEF FeedbackCall, Posing
<1>2. /\ c \in RepeatCall \/ c \in JoinCall => c.at \in Crediting
      /\ c \in ServeCall => c.at \in Answering
      /\ c \in FallBackCall => c.at = "fall back"
  BY DEF RepeatCall, ServeCall, JoinCall, FallBackCall, PosedCall
<1>3. Idling.at = "idle"
  BY DEF Idling
<1> QED
  BY <1>1, <1>2, <1>3 DEF Answering, Crediting

(* A call of dev_feedback, and no call at all, pose nothing.               *)
LEMMA IdlingFits ==
    ASSUME NEW p, NEW log, NEW seen
    PROVE  CallFits(p, Idling, log, seen) /\ Idling \in FeedbackCall
BY DEF CallFits, Idling, Crediting, Answering, Posing, RepeatCall, ServeCall, PosedCall, FeedbackCall

LEMMA JoinIsNoPosing == ASSUME NEW c \in JoinCall PROVE c \notin Posing /\ c \in FeedbackCall
BY DEF JoinCall, Posing, RepeatCall, ServeCall, PosedCall, FeedbackDue, RepeatDue, Dues, Crediting, Answering,
       FeedbackCall

LEMMA FallBackIsNoPosing ==
    ASSUME NEW c \in FallBackCall PROVE c \notin Posing /\ c \in FeedbackCall /\ c.at \notin Crediting
BY DEF FallBackCall, Posing, RepeatCall, ServeCall, PosedCall, Crediting, Answering, FeedbackCall

LEMMA CallMoves ==
    ASSUME call \in [Servers -> FeedbackCall], NEW p \in Servers, NEW c \in FeedbackCall, Goes(p, c)
    PROVE  /\ call' \in [Servers -> FeedbackCall] /\ call'[p] = c
           /\ \A q \in Servers \ {p} : call'[q] = call[q]
BY DEF Goes

LEMMA CallGoesOn ==
    ASSUME LoopTypeOK, CallsFit, NEW p \in Servers, NEW c \in FeedbackCall, Goes(p, c),
           UNCHANGED <<posed, shown>>, CallFits(p, c, posed, shown)
    PROVE  call' \in [Servers -> FeedbackCall] /\ CallsFit'
BY CallMoves DEF LoopTypeOK, CallsFit

LEMMA FeedbackInvStarts == InitFeedback => FeedbackInv
<1> SUFFICES ASSUME InitFeedback PROVE FeedbackInv
  OBVIOUS
<1>1. LoopTypeOK
  <2>1. NoTrace \in Trace
    BY DEF NoTrace, Trace
  <2>2. posed = <<>> /\ recent = <<>> /\ Len(posed) = 0 /\ 0 <= MaxPosed
    BY FeedbackAssumption DEF InitFeedback
  <2>3. call \in [Servers -> FeedbackCall]
    BY IdlingFits DEF InitFeedback
  <2>4. traces \in [QueryId -> Trace] /\ shown \in [QueryId -> ShownDocs \cup {Nothing}]
    BY <2>1 DEF InitFeedback
  <2> QED
    BY <2>2, <2>3, <2>4 DEF InitFeedback, LoopTypeOK
<1>2. RecentFit /\ RewardsFit /\ SamplesAreOfWhatWasServed /\ JoinsFit /\ RepeatsGoBack
  BY DEF InitFeedback, RecentFit, RewardsFit, SamplesAreOfWhatWasServed, JoinsFit, RepeatsGoBack
<1>3. TracesFit /\ UnposedIsUnshown
  BY DEF InitFeedback, TracesFit, TraceFits, UnposedIsUnshown, NoTrace, IsSample
<1>4. LastCallsFit /\ TrialsFit
  BY DEF InitFeedback, LastCallsFit, LastFits, TrialsFit, TrialFits
<1>5. CallsFit
  BY IdlingFits DEF InitFeedback, CallsFit
<1> QED
  BY <1>1, <1>2, <1>3, <1>4, <1>5 DEF FeedbackInv

-----------------------------------------------------------------------------
(* A query that is posed takes nothing from those before it.               *)
Extends(longer, log) ==
    /\ Len(log) \in Nat /\ Len(longer) \in Nat /\ Len(log) <= Len(longer)
    /\ \A i \in 1 .. Len(log) : longer[i] = log[i]

LEMMA LogGrows ==
    ASSUME NEW S, NEW log \in Seq(S), NEW e \in S
    PROVE  /\ Append(log, e) \in Seq(S) /\ Extends(Append(log, e), log)
           /\ Len(Append(log, e)) = Len(log) + 1 /\ Append(log, e)[Len(log) + 1] = e
BY DEF Extends

LEMMA FitsOn ==
    ASSUME NEW log, NEW longer, Extends(longer, log), NEW r, Fits(r, log)
    PROVE  Fits(r, longer) /\ longer[r.query] = log[r.query]
BY DEF Extends, Fits

LEMMA CallFitsOn ==
    ASSUME NEW log, NEW longer, Extends(longer, log), NEW p, NEW c, NEW seen, CallFits(p, c, log, seen)
    PROVE  CallFits(p, c, longer, seen)
BY FitsOn DEF CallFits

LEMMA FactsGoOn ==
    ASSUME FeedbackInv, Extends(posed', posed), UNCHANGED <<recent, traces, lastCall, rewards, joins, shown, samples>>
    PROVE  RecentFit' /\ TracesFit' /\ UnposedIsUnshown' /\ LastCallsFit' /\ RewardsFit' /\ JoinsFit'
<1>1. RecentFit' /\ RewardsFit'
  BY FitsOn DEF FeedbackInv, RecentFit, RewardsFit
<1>2. TracesFit'
  BY FitsOn DEF FeedbackInv, TracesFit, TraceFits
<1>3. UnposedIsUnshown'
  BY DEF FeedbackInv, UnposedIsUnshown, Extends, QueryId
<1>4. LastCallsFit'
  BY FitsOn DEF FeedbackInv, LastCallsFit, LastFits
<1>5. JoinsFit'
  BY DEF FeedbackInv, JoinsFit, Extends
<1> QED
  BY <1>1, <1>2, <1>3, <1>4, <1>5

LEMMA SimilarityIsNat == ASSUME NEW x \in Nat, NEW y \in Nat PROVE Similarity(x, y) \in Nat
BY DEF Similarity

LEMMA PoseKeeps ==
    ASSUME FeedbackInv, NEW p \in Servers, NEW serving \in Served, NEW x \in Texts,
           Pose(p, serving[1], serving[2], serving[3], x)
    PROVE  FeedbackInv'
<1> DEFINE b == serving[1]
           profile == serving[2]
           surface == serving[3]
           query == Len(posed) + 1
           e == [bucket |-> b, profile |-> profile, surface |-> surface, by |-> p]
           c(at, sim, due) ==
               [at |-> at, query |-> query, bucket |-> b, profile |-> profile, text |-> x,
                sim |-> sim, due |-> due, todo |-> Sources, cell |-> Nothing,
                docs |-> [s \in Sources |-> 0], arm |-> Nothing]
<1>0. LoopTypeOK /\ CallsFit /\ b \in Buckets /\ profile \in Profiles /\ surface \in Surfaces
  BY FeedbackAssumption DEF FeedbackInv, Profiles, Surfaces
<1>1. e \in PosedQuery /\ e.bucket = b /\ e.profile = profile /\ e.by = p
  BY <1>0 DEF PosedQuery
<1>2. /\ posed' = Append(posed, e) /\ Len(posed) < MaxPosed
      /\ UNCHANGED <<recent, traces, rewards, learned, memory, reports, shown, samples, joins>>
  BY DEF Pose
<1> HIDE DEF b, profile, surface, e
<1>3. /\ posed' \in Seq(PosedQuery) /\ Extends(posed', posed)
      /\ Len(posed') = query /\ posed'[query] = e
  <2>1. posed \in Seq(PosedQuery) /\ posed' = Append(posed, e)
    BY <1>0, <1>2 DEF LoopTypeOK
  <2>2. /\ posed' \in Seq(PosedQuery) /\ Extends(posed', posed)
        /\ Len(posed') = Len(posed) + 1 /\ posed'[Len(posed) + 1] = e
    <3>1. e \in PosedQuery
      BY <1>1
    <3> QED
      BY <2>1, <3>1, LogGrows
  <2> QED
    BY <2>2
<1>4. query \in QueryId /\ Len(posed') <= MaxPosed /\ query \in 1 .. Len(posed')
  BY <1>0, <1>2, <1>3, FeedbackAssumption DEF LoopTypeOK, QueryId
<1>5. shown[query] = Nothing
  BY <1>0, <1>4 DEF FeedbackInv, UnposedIsUnshown, LoopTypeOK
<1>6. \A r \in RecentQuery : r.query < query => <<query, r.query>> \in QueryId \X QueryId
  BY <1>4 DEF RecentQuery
<1>7. PICK at \in {"append", "record"}, sim \in Nat, due \in RepeatDue \cup {Nothing} :
        /\ Goes(p, c(at, sim, due))
        /\ at = "append" => due \in RepeatDue /\ Fits(due, posed)
        /\ repeats' \subseteq QueryId \X QueryId /\ RepeatsGoBack'
  <2>1. repeats \subseteq QueryId \X QueryId /\ RepeatsGoBack
    BY <1>0 DEF FeedbackInv, LoopTypeOK
  <2>2. CASE \E i \in MostSimilar(x) :
                LET sim == Similarity(x, recent[i].text)
                    earlier == recent[i] IN
                /\ Fires(sim) /\ repeats' = repeats \cup {<<query, earlier.query>>}
                /\ \E low \in LowRewards(sim) :
                       Goes(p, c("append", sim, [query |-> earlier.query, bucket |-> earlier.bucket,
                                          profile |-> earlier.profile, low |-> low,
                                          kind |-> "implicit_repeat", arm |-> Nothing]))
    <3> PICK i \in MostSimilar(x) :
            /\ repeats' = repeats \cup {<<query, recent[i].query>>}
            /\ \E low \in LowRewards(Similarity(x, recent[i].text)) :
                   Goes(p, c("append", Similarity(x, recent[i].text),
                             [query |-> recent[i].query, bucket |-> recent[i].bucket,
                              profile |-> recent[i].profile, low |-> low,
                              kind |-> "implicit_repeat", arm |-> Nothing]))
      BY <2>2
    <3> PICK low \in LowRewards(Similarity(x, recent[i].text)) :
            Goes(p, c("append", Similarity(x, recent[i].text),
                      [query |-> recent[i].query, bucket |-> recent[i].bucket,
                       profile |-> recent[i].profile, low |-> low,
                       kind |-> "implicit_repeat", arm |-> Nothing]))
      OBVIOUS
    <3> DEFINE due == [query |-> recent[i].query, bucket |-> recent[i].bucket,
                       profile |-> recent[i].profile, low |-> low,
                       kind |-> "implicit_repeat", arm |-> Nothing]
               sim == Similarity(x, recent[i].text)
    <3>1. i \in 1 .. Len(recent)
      BY <1>0, FeedbackAssumption DEF MostSimilar, LoopTypeOK
    <3>2. recent[i] \in RecentQuery /\ Fits(recent[i], posed)
      BY <1>0, <3>1 DEF FeedbackInv, LoopTypeOK, RecentFit
    <3>3. low \in BOOLEAN
      BY DEF LowRewards
    <3>4. sim \in Nat
      BY <3>2, SimilarityIsNat, FeedbackAssumption DEF RecentQuery
    <3>5. due \in RepeatDue /\ Fits(due, posed)
      BY <3>2, <3>3 DEF RepeatDue, Dues, RecentQuery, Fits
    <3>6. recent[i].query < query
      BY <1>0, <3>2 DEF Fits, LoopTypeOK
    <3>7. repeats' \subseteq QueryId \X QueryId /\ RepeatsGoBack'
      BY <1>6, <2>1, <3>2, <3>6 DEF RepeatsGoBack
    <3> QED
      BY <3>4, <3>5, <3>7
  <2>3. CASE UNCHANGED repeats /\ Goes(p, c("record", 0, Nothing))
    BY <2>1, <2>3 DEF RepeatsGoBack
  <2>4. CASE UNCHANGED repeats /\ \E i \in MostSimilar(x) : Goes(p, c("record", Similarity(x, recent[i].text), Nothing))
    <3> PICK i \in MostSimilar(x) : Goes(p, c("record", Similarity(x, recent[i].text), Nothing))
      BY <2>4
    <3>1. i \in 1 .. Len(recent)
      BY <1>0, FeedbackAssumption DEF MostSimilar, LoopTypeOK
    <3>3. recent[i] \in RecentQuery
      BY <1>0, <3>1 DEF LoopTypeOK
    <3>2. Similarity(x, recent[i].text) \in Nat
      BY <3>3, SimilarityIsNat, FeedbackAssumption DEF RecentQuery
    <3> QED
      BY <2>1, <2>4, <3>2 DEF RepeatsGoBack
  <2> QED
    BY <2>2, <2>3, <2>4 DEF Pose, b, profile
<1> DEFINE new == c(at, sim, due)
<1>8. /\ new \in FeedbackCall /\ new.at = at /\ new.query = query /\ new.bucket = b /\ new.profile = profile
      /\ new.due = due /\ new.todo = Sources
  <2>1. [s \in Sources |-> 0] \in [Sources -> Nat]
    OBVIOUS
  <2>2. CASE at = "append"
    <3>1. new \in RepeatCall
      BY <1>0, <1>4, <1>7, <2>1, <2>2 DEF RepeatCall, PosedCall, Crediting
    <3> QED
      BY <3>1 DEF FeedbackCall, Posing
  <2>3. CASE at = "record"
    <3>1. new \in ServeCall
      BY <1>0, <1>4, <1>7, <2>1, <2>3 DEF ServeCall, PosedCall, Answering
    <3> QED
      BY <3>1 DEF FeedbackCall, Posing
  <2> QED
    BY <2>2, <2>3
<1>9. CallFits(p, new, posed', shown)
  <2>1. Fits(new, posed') /\ posed'[new.query].by = p
    BY <1>1, <1>3, <1>4, <1>8 DEF Fits
  <2>2. new.at \in Crediting => Fits(new.due, posed') /\ IsSample(new.due.query, new.due.arm, shown)
    BY <1>3, <1>7, <1>8, FitsOn DEF Crediting, IsSample, RepeatDue, Dues
  <2> QED
    BY <1>5, <1>8, <2>1, <2>2 DEF CallFits
<1> HIDE DEF new
<1>10. call' \in [Servers -> FeedbackCall] /\ call'[p] = new /\ \A q \in Servers \ {p} : call'[q] = call[q]
  BY <1>0, <1>7, <1>8, CallMoves DEF LoopTypeOK, new
<1>11. CallsFit'
  BY <1>0, <1>2, <1>3, <1>9, <1>10, CallFitsOn DEF CallsFit
<1>12. LoopTypeOK'
  BY <1>0, <1>2, <1>3, <1>4, <1>7, <1>10 DEF LoopTypeOK, learned, memory
<1>13. TrialsFit' /\ SamplesAreOfWhatWasServed'
  BY <1>2 DEF FeedbackInv, TrialsFit, SamplesAreOfWhatWasServed, memory
<1> QED
  BY <1>2, <1>3, <1>7, <1>11, <1>12, <1>13, FactsGoOn DEF FeedbackInv, memory

-----------------------------------------------------------------------------
(* What a step that poses and shows nothing leaves as it was holds on.     *)
LEMMA FactsStay ==
    ASSUME FeedbackInv, UNCHANGED <<posed, shown>>
    PROVE  /\ UNCHANGED recent => RecentFit'
           /\ UNCHANGED traces => TracesFit'
           /\ UNCHANGED lastCall => LastCallsFit'
           /\ UNCHANGED rewards => RewardsFit'
           /\ UNCHANGED samples => SamplesAreOfWhatWasServed'
           /\ UNCHANGED joins => JoinsFit'
           /\ UNCHANGED trials => TrialsFit'
           /\ UNCHANGED repeats => RepeatsGoBack'
           /\ UnposedIsUnshown'
<1>1. UNCHANGED recent => RecentFit'
  BY DEF FeedbackInv, RecentFit
<1>2. UNCHANGED traces => TracesFit'
  BY DEF FeedbackInv, TracesFit
<1>3. UNCHANGED lastCall => LastCallsFit'
  BY DEF FeedbackInv, LastCallsFit
<1>4. UNCHANGED rewards => RewardsFit'
  BY DEF FeedbackInv, RewardsFit
<1>5. UNCHANGED samples => SamplesAreOfWhatWasServed'
  BY DEF FeedbackInv, SamplesAreOfWhatWasServed
<1>6. UNCHANGED joins => JoinsFit'
  BY DEF FeedbackInv, JoinsFit
<1>7. UNCHANGED trials => TrialsFit'
  BY DEF FeedbackInv, TrialsFit
<1>8. (UNCHANGED repeats => RepeatsGoBack') /\ UnposedIsUnshown'
  BY DEF FeedbackInv, RepeatsGoBack, UnposedIsUnshown
<1> QED
  BY <1>1, <1>2, <1>3, <1>4, <1>5, <1>6, <1>7, <1>8

(* A call that goes to another place is about the same query.              *)
LEMMA PlacesFit ==
    ASSUME NEW c \in Posing, NEW at \in Crediting \cup Answering, NEW p, NEW log, NEW seen,
           CallFits(p, c, log, seen), c.at # "put", at # "put", at # "seed",
           at \in Crediting => c \in RepeatCall
    PROVE  LET d == [c EXCEPT !.at = at] IN d \in FeedbackCall /\ CallFits(p, d, log, seen)
<1> DEFINE d == [c EXCEPT !.at = at]
<1>1. /\ d.at = at /\ d.due = c.due /\ d.query = c.query /\ d.bucket = c.bucket /\ d.profile = c.profile
      /\ d.todo = c.todo /\ d.docs = c.docs /\ d.arm = c.arm
  BY DEF Posing, RepeatCall, ServeCall, PosedCall
<1>2. d \in Posing
  <2>1. CASE at \in Crediting
    BY <2>1 DEF Posing, RepeatCall, PosedCall
  <2>2. CASE at \in Answering
    <3>1. d \in ServeCall
      BY <2>2 DEF Posing, RepeatCall, ServeCall, PosedCall
    <3> QED
      BY <3>1 DEF Posing
  <2> QED
    BY <2>1, <2>2
<1>3. d \in FeedbackCall
  BY <1>2 DEF FeedbackCall
<1>4. at \in Crediting => Fits(c.due, log) /\ IsSample(c.due.query, c.due.arm, seen)
  BY DEF CallFits, RepeatCall, PosedCall
<1> HIDE DEF d
<1>5. CallFits(p, d, log, seen)
  BY <1>1, <1>2, <1>4 DEF CallFits, Fits
<1> QED
  BY <1>3, <1>5 DEF d

LEMMA DueIsOfAQuery ==
    ASSUME LoopTypeOK, NEW p \in Servers, call[p].at \in Crediting
    PROVE  /\ call[p].due \in RepeatDue \/ call[p].due \in FeedbackDue
           /\ call[p].due.query \in QueryId /\ call[p].due.bucket \in Buckets
           /\ call[p].due.kind = "explicit" <=> call[p] \in JoinCall
           /\ call[p] \in JoinCall \/ call[p] \in RepeatCall
<1>1. call[p] \in JoinCall \/ call[p] \in RepeatCall
  BY CallShapes DEF LoopTypeOK
<1>2. call[p] \in JoinCall => call[p].due \in FeedbackDue
  BY DEF JoinCall
<1>3. call[p] \in RepeatCall => call[p].due \in RepeatDue
  BY DEF RepeatCall, PosedCall
<1>4. call[p].due \in FeedbackDue => call[p].due.kind = "explicit" /\ call[p].due.query \in QueryId /\ call[p].due.bucket \in Buckets
  BY DEF FeedbackDue, Dues
<1>5. call[p].due \in RepeatDue => call[p].due.kind = "implicit_repeat" /\ call[p].due.query \in QueryId /\ call[p].due.bucket \in Buckets
  BY DEF RepeatDue, Dues
<1> QED
  BY <1>1, <1>2, <1>3, <1>4, <1>5

LEMMA AppendAndPatchKeeps == ASSUME FeedbackInv, NEW p \in Servers, AppendAndPatch(p) PROVE FeedbackInv'
<1> DEFINE due == call[p].due
           d == [call[p] EXCEPT !.at = "credit"]
           row == [query |-> due.query, bucket |-> due.bucket, profile |-> due.profile, kind |-> due.kind]
<1>0. LoopTypeOK /\ CallsFit /\ call[p] \in FeedbackCall /\ CallFits(p, call[p], posed, shown)
  BY DEF FeedbackInv, LoopTypeOK, CallsFit
<1>1. /\ Goes(p, d) /\ UNCHANGED <<recent, learned, memory, reports, logs>>
      /\ rewards' \subseteq rewards \cup {row}
      /\ traces' = traces \/ traces' = [traces EXCEPT ![due.query].known = TRUE]
  BY DEF AppendAndPatch, Then
<1>2. call[p].at \in Crediting /\ call[p].at = "append"
  BY DEF AppendAndPatch, On, Crediting
<1>3. due.query \in QueryId /\ Fits(due, posed) /\ (call[p] \in JoinCall \/ call[p] \in RepeatCall)
  BY <1>0, <1>2, DueIsOfAQuery DEF CallFits
<1>4. d \in FeedbackCall /\ CallFits(p, d, posed, shown)
  <2>1. CASE call[p] \in RepeatCall
    BY <1>0, <1>2, <2>1, PlacesFit DEF Posing, Crediting, Answering
  <2>2. CASE call[p] \in JoinCall
    <3>1. d \in JoinCall /\ d.due = call[p].due /\ d.at = "credit"
      BY <2>2 DEF JoinCall, Crediting
    <3>2. d \in FeedbackCall /\ d \notin Posing
      BY <3>1, JoinIsNoPosing
    <3> HIDE DEF d
    <3> QED
      BY <1>0, <1>2, <3>1, <3>2 DEF CallFits
  <2> QED
    BY <1>3, <2>1, <2>2
<1> HIDE DEF d
<1>5. call' \in [Servers -> FeedbackCall] /\ CallsFit'
  BY <1>0, <1>1, <1>4, CallGoesOn DEF logs
<1>6. RewardsFit'
  <2>1. Fits(row, posed)
    BY <1>3 DEF Fits
  <2> QED
    BY <1>1, <2>1 DEF FeedbackInv, RewardsFit, logs
<1>7. traces' \in [QueryId -> Trace] /\ TracesFit'
  <2>1. CASE traces' = traces
    BY <1>0, <1>1, <2>1, FactsStay DEF LoopTypeOK, logs
  <2>2. CASE traces' = [traces EXCEPT ![due.query].known = TRUE]
    <3>1. traces \in [QueryId -> Trace] /\ traces[due.query] \in Trace
      BY <1>0, <1>3 DEF LoopTypeOK
    <3>2. /\ traces'[due.query] = [traces[due.query] EXCEPT !.known = TRUE]
          /\ \A q \in QueryId \ {due.query} : traces'[q] = traces[q]
          /\ DOMAIN traces' = QueryId
      BY <1>3, <2>2, <3>1
    <3>3. /\ traces'[due.query] \in Trace /\ traces'[due.query].known = TRUE
          /\ traces'[due.query].of = traces[due.query].of /\ traces'[due.query].arm = traces[due.query].arm
      BY <3>1, <3>2 DEF Trace
    <3>4. traces' \in [QueryId -> Trace]
      BY <2>2, <3>1, <3>2, <3>3
    <3>5. TracesFit'
      <4> SUFFICES ASSUME NEW q \in QueryId PROVE TraceFits(q, traces'[q], posed', shown')
        BY DEF TracesFit
      <4>1. TraceFits(q, traces[q], posed, shown) /\ UNCHANGED <<posed, shown>>
        BY <1>1 DEF FeedbackInv, TracesFit, logs
      <4>2. traces'[q].of = traces[q].of /\ traces'[q].arm = traces[q].arm /\ (traces[q].known => traces'[q].known)
        BY <3>2, <3>3
      <4> QED
        BY <4>1, <4>2 DEF TraceFits
    <3> QED
      BY <3>4, <3>5
  <2> QED
    BY <1>1, <2>1, <2>2
<1>8. LoopTypeOK'
  BY <1>0, <1>1, <1>5, <1>7 DEF LoopTypeOK, learned, memory, logs
<1> QED
  BY <1>1, <1>5, <1>6, <1>7, <1>8, FactsStay DEF FeedbackInv, memory, logs

(* What Update does with the sample it has counted.                        *)
LEMMA CountedFits ==
    ASSUME NEW t \in Trial, NEW arm, NEW low, TrialFits(t), t # Nothing
    PROVE  LET u == Counted(t, arm, low) IN
           u \in Trial /\ u.docs \in {u.base - 1, u.base + 1}
<1>1. t.docs \in {t.base - 1, t.base + 1} /\ t.tried + 1 \in Nat /\ t.kept + 1 \in Nat /\ t.strikes + 1 \in Nat
  BY DEF Trial, TrialFits
<1>2. PICK strikes \in Nat, tried \in Nat, kept \in Nat :
        Counted(t, arm, low) = [t EXCEPT !.tried = tried, !.strikes = strikes]
        \/ Counted(t, arm, low) = [t EXCEPT !.kept = kept]
  <2>1. (IF low THEN t.strikes + 1 ELSE 0) \in Nat
    BY <1>1
  <2> QED
    BY <1>1, <2>1 DEF Counted
<1> DEFINE u == Counted(t, arm, low)
<1>3. u \in Trial /\ u.docs = t.docs /\ u.base = t.base
  BY <1>2 DEF Trial
<1> QED
  BY <1>1, <1>3

LEMMA UpdateSourceKeeps ==
    ASSUME FeedbackInv, NEW p \in Servers, NEW b \in Buckets, NEW t \in Trial,
           t.docs \in {t.base - 1, t.base + 1}, UpdateSource(p, b, t)
    PROVE  /\ breadths' \in [Buckets -> [Sources -> {0} \cup Breadth]]
           /\ trials' \in [Servers -> [Buckets -> Trial \cup {Nothing}]] /\ TrialsFit'
<1>0. /\ breadths \in [Buckets -> [Sources -> {0} \cup Breadth]]
      /\ frozen \in [Buckets -> [Sources -> {0, SeedDocs}]]
      /\ trials \in [Servers -> [Buckets -> Trial \cup {Nothing}]] /\ TrialsFit
  BY DEF FeedbackInv, LoopTypeOK
<1>1. t.source \in Sources /\ t.docs \in Breadth /\ t.base \in Breadth
  BY DEF Trial
<1>2. frozen[b][t.source] \in {0} \cup Breadth
  BY <1>0, <1>1, BoundsAreOrdered
<1>3. PICK docs \in Breadth : breadths' = breadths \/ breadths' = [breadths EXCEPT ![b][t.source] = docs]
  <2>1. (IF frozen[b][t.source] # 0 THEN frozen[b][t.source] ELSE t.base) \in Breadth
    BY <1>1, <1>2
  <2> QED
    BY <1>1, <2>1 DEF UpdateSource, Learn
<1>4. PICK u \in Trial \cup {Nothing} :
        TrialFits(u) /\ (trials' = trials \/ trials' = [trials EXCEPT ![p][b] = u])
  <2>1. TrialFits(Nothing) /\ (~Struck(t) => TrialFits(t))
    BY DEF TrialFits
  <2> QED
    BY <2>1 DEF UpdateSource, EndTrial, NoTrial
<1>5. breadths' \in [Buckets -> [Sources -> {0} \cup Breadth]]
  <2> DEFINE R == {0} \cup Breadth
             s == t.source
  <2>1. docs \in R /\ s \in Sources /\ breadths \in [Buckets -> [Sources -> R]]
    BY <1>0, <1>1
  <2>2. breadths' = breadths \/ breadths' = [breadths EXCEPT ![b][s] = docs]
    BY <1>3
  <2> HIDE DEF R, s
  <2>3. CASE breadths' = [breadths EXCEPT ![b][s] = docs]
    <3>1. breadths' = [breadths EXCEPT ![b] = [breadths[b] EXCEPT ![s] = docs]]
      BY <2>3
    <3>2. [breadths[b] EXCEPT ![s] = docs] \in [Sources -> R]
      BY <2>1
    <3> QED
      BY <2>1, <3>1, <3>2 DEF R
  <2>4. CASE breadths' = breadths
    BY <1>0, <2>4
  <2> QED
    BY <2>2, <2>3, <2>4
<1>6. /\ trials' \in [Servers -> [Buckets -> Trial \cup {Nothing}]]
      /\ \A q \in Servers, a \in Buckets : trials'[q][a] \in {trials[q][a], u}
  <2> DEFINE R == Trial \cup {Nothing}
  <2>1. u \in R /\ trials \in [Servers -> [Buckets -> R]]
    BY <1>0
  <2>2. trials' = trials \/ trials' = [trials EXCEPT ![p][b] = u]
    BY <1>4
  <2> HIDE DEF R
  <2>3. CASE trials' = [trials EXCEPT ![p][b] = u]
    <3>1. trials' = [trials EXCEPT ![p] = [trials[p] EXCEPT ![b] = u]]
      BY <2>3
    <3>2. [trials[p] EXCEPT ![b] = u] \in [Buckets -> R]
      BY <2>1
    <3>3. \A a \in Buckets : [trials[p] EXCEPT ![b] = u][a] \in {trials[p][a], u}
      BY <2>1
    <3> QED
      <4>1. trials' \in [Servers -> [Buckets -> R]]
        BY <2>1, <3>1, <3>2
      <4>2. \A q \in Servers, a \in Buckets : trials'[q][a] \in {trials[q][a], u}
        BY <2>1, <3>1, <3>3
      <4> QED
        BY <4>1, <4>2 DEF R
  <2>4. CASE trials' = trials
    BY <1>0, <2>4
  <2> QED
    BY <2>2, <2>3, <2>4
<1>7. TrialsFit'
  BY <1>0, <1>4, <1>6 DEF TrialsFit
<1> QED
  BY <1>5, <1>6, <1>7

LEMMA CreditKeeps == ASSUME FeedbackInv, NEW p \in Servers, Credit(p) PROVE FeedbackInv'
<1> DEFINE due == call[p].due
           t == trials[p][due.bucket]
           arm == IF due.kind = "explicit" THEN due.arm ELSE traces[due.query].arm
           sample == [query |-> due.query, source |-> arm.source, docs |-> arm.docs]
           d == [call[p] EXCEPT !.at = "record"]
<1>0. LoopTypeOK /\ CallsFit /\ call[p] \in FeedbackCall /\ CallFits(p, call[p], posed, shown)
  BY DEF FeedbackInv, LoopTypeOK, CallsFit
<1>1. /\ IF due.kind = "explicit" THEN Goes(p, Idling) ELSE Goes(p, d)
      /\ \/ /\ Counts(t, arm) /\ UpdateSource(p, due.bucket, Counted(t, arm, due.low))
            /\ samples' = samples \cup {sample}
         \/ UNCHANGED <<trials, breadths, samples>>
      /\ UNCHANGED <<recent, traces, rewards, frozen, lastCall, reports, posed, shown, repeats, joins>>
  BY DEF Credit, Then
<1>2. call[p].at \in Crediting /\ call[p].at = "credit"
  BY DEF Credit, On, Crediting
<1>3. /\ due.query \in QueryId /\ due.bucket \in Buckets
      /\ due.kind # "explicit" => call[p] \in RepeatCall
      /\ IsSample(due.query, due.arm, shown)
  BY <1>0, <1>2, DueIsOfAQuery DEF CallFits
<1>4. PICK c \in FeedbackCall : Goes(p, c) /\ CallFits(p, c, posed, shown)
  <2>1. CASE due.kind = "explicit"
    BY <1>1, <2>1, IdlingFits
  <2>2. CASE due.kind # "explicit"
    <3>1. d \in FeedbackCall /\ CallFits(p, d, posed, shown)
      BY <1>0, <1>2, <1>3, <2>2, PlacesFit DEF Posing, Crediting, Answering
    <3> QED
      BY <1>1, <2>2, <3>1
  <2> QED
    BY <2>1, <2>2
<1>5. call' \in [Servers -> FeedbackCall] /\ CallsFit'
  BY <1>0, <1>1, <1>4, CallGoesOn
<1>6. IsSample(due.query, arm, shown)
  BY <1>3 DEF FeedbackInv, TracesFit, TraceFits
<1>7. /\ breadths' \in [Buckets -> [Sources -> {0} \cup Breadth]]
      /\ trials' \in [Servers -> [Buckets -> Trial \cup {Nothing}]] /\ TrialsFit' /\ SamplesAreOfWhatWasServed'
  <2>1. CASE UNCHANGED <<trials, breadths, samples>>
    BY <1>0, <1>1, <2>1, FactsStay DEF LoopTypeOK
  <2>2. CASE /\ Counts(t, arm) /\ UpdateSource(p, due.bucket, Counted(t, arm, due.low))
             /\ samples' = samples \cup {sample}
    <3>1. t \in Trial /\ TrialFits(t) /\ t # Nothing
      <4>1. t \in Trial \cup {Nothing} /\ TrialFits(t)
        BY <1>0, <1>3 DEF LoopTypeOK, FeedbackInv, TrialsFit
      <4>2. t # Nothing
        BY <2>2 DEF Counts, NoTrial
      <4> QED
        BY <4>1, <4>2
    <3>2. Counted(t, arm, due.low) \in Trial
          /\ Counted(t, arm, due.low).docs \in {Counted(t, arm, due.low).base - 1, Counted(t, arm, due.low).base + 1}
      BY <3>1, CountedFits
    <3>3. shown[sample.query] # Nothing /\ shown[sample.query].docs[sample.source] = sample.docs
      BY <1>6, <2>2 DEF Counts, IsSample
    <3>4. SamplesAreOfWhatWasServed'
      BY <1>1, <2>2, <3>3 DEF FeedbackInv, SamplesAreOfWhatWasServed
    <3> QED
      BY <1>3, <2>2, <3>2, <3>4, UpdateSourceKeeps
  <2> QED
    BY <1>1, <2>1, <2>2
<1>8. LoopTypeOK'
  BY <1>0, <1>1, <1>5, <1>7 DEF LoopTypeOK
<1> QED
  BY <1>1, <1>5, <1>7, <1>8, FactsStay DEF FeedbackInv

-----------------------------------------------------------------------------
LEMMA AnswerIsOfAQuery ==
    ASSUME FeedbackInv, NEW p \in Servers, call[p].at \in Answering
    PROVE  /\ call[p] \in ServeCall /\ call[p] \in Posing /\ CallFits(p, call[p], posed, shown)
           /\ call[p].query \in QueryId /\ call[p].bucket \in Buckets /\ call[p].profile \in Profiles
           /\ call[p].text \in Texts /\ call[p].docs \in [Sources -> Nat]
           /\ call[p].arm \in Arms \cup {Nothing}
           /\ Fits(call[p], posed) /\ posed[call[p].query].by = p
<1>1. call[p] \in ServeCall /\ CallFits(p, call[p], posed, shown)
  BY CallShapes DEF FeedbackInv, LoopTypeOK, CallsFit
<1>2. call[p] \in Posing
  BY <1>1 DEF Posing
<1>3. /\ call[p].query \in QueryId /\ call[p].bucket \in Buckets /\ call[p].profile \in Profiles
      /\ call[p].text \in Texts /\ call[p].docs \in [Sources -> Nat]
      /\ call[p].arm \in Arms \cup {Nothing}
  BY <1>1 DEF ServeCall, PosedCall
<1> QED
  BY <1>1, <1>2, <1>3 DEF CallFits

LEMMA RecordQueryKeeps == ASSUME FeedbackInv, NEW p \in Servers, RecordQuery(p) PROVE FeedbackInv'
<1> DEFINE c == call[p]
           e == [query |-> c.query, bucket |-> c.bucket, profile |-> c.profile, text |-> c.text]
           d == [c EXCEPT !.at = "breadths"]
<1>0. LoopTypeOK /\ CallsFit /\ c.at = "record" /\ c.at \in Answering
  BY DEF FeedbackInv, RecordQuery, On, Answering
<1>1. /\ Goes(p, d) /\ (recent' = recent \/ recent' = Append(recent, e))
      /\ UNCHANGED <<traces, rewards, learned, memory, reports, logs>>
  BY DEF RecordQuery, Then
<1>2. d \in FeedbackCall /\ CallFits(p, d, posed, shown)
  BY <1>0, AnswerIsOfAQuery, PlacesFit DEF Answering, Crediting
<1>3. e \in RecentQuery /\ Fits(e, posed)
  BY <1>0, AnswerIsOfAQuery DEF RecentQuery, Fits
<1> HIDE DEF c, d, e
<1>4. call' \in [Servers -> FeedbackCall] /\ CallsFit'
  BY <1>0, <1>1, <1>2, CallGoesOn DEF logs
<1>5. recent \in Seq(RecentQuery) /\ \A i \in 1 .. Len(recent) : Fits(recent[i], posed)
  BY <1>0 DEF FeedbackInv, LoopTypeOK, RecentFit
<1>6. recent' \in Seq(RecentQuery) /\ RecentFit'
  <2>1. CASE recent' = recent
    BY <1>1, <1>5, <2>1, FactsStay DEF logs
  <2>2. CASE recent' = Append(recent, e)
    <3>1. /\ recent' \in Seq(RecentQuery) /\ Extends(recent', recent)
          /\ Len(recent') = Len(recent) + 1 /\ recent'[Len(recent) + 1] = e
      <4>1. recent \in Seq(RecentQuery) /\ e \in RecentQuery /\ recent' = Append(recent, e)
        BY <1>3, <1>5, <2>2
      <4> QED
        BY <4>1, LogGrows
    <3>2. \A i \in 1 .. Len(recent') : i \in 1 .. Len(recent) \/ i = Len(recent) + 1
      BY <3>1, <1>5
    <3>3. \A i \in 1 .. Len(recent') : Fits(recent'[i], posed)
      BY <1>3, <1>5, <3>1, <3>2 DEF Extends
    <3> QED
      BY <1>1, <3>1, <3>3 DEF RecentFit, logs
  <2> QED
    BY <1>1, <2>1, <2>2
<1>7. LoopTypeOK'
  BY <1>0, <1>1, <1>4, <1>6 DEF LoopTypeOK, learned, memory, logs
<1> QED
  BY <1>1, <1>4, <1>6, <1>7, FactsStay DEF FeedbackInv, memory, logs

LEMMA ReadBreadthKeeps ==
    ASSUME FeedbackInv, NEW p \in Servers, NEW s \in Sources, ReadBreadth(p, s)
    PROVE  FeedbackInv'
<1> DEFINE c == call[p]
<1>0. LoopTypeOK /\ CallsFit /\ c.at = "breadths" /\ c.at \in Answering
  BY DEF FeedbackInv, ReadBreadth, On, Answering
<1>1. UNCHANGED <<recent, traces, rewards, learned, memory, reports, logs>>
  BY DEF ReadBreadth
<1>2. /\ c \in ServeCall /\ CallFits(p, c, posed, shown) /\ c.docs \in [Sources -> Nat] /\ c.bucket \in Buckets
      /\ c \in Posing /\ shown[c.query] = Nothing
  BY <1>0, AnswerIsOfAQuery DEF CallFits
<1>3. PICK docs \in Breadth, at \in {"breadths", "seed"}, cell \in Sources \cup {Nothing} :
        /\ Goes(p, [c EXCEPT !.at = at, !.todo = @ \ {s}, !.docs[s] = docs, !.cell = cell])
        /\ at = "seed" => cell \in Sources
  <2>1. breadths[c.bucket][s] # 0 => breadths[c.bucket][s] \in Breadth
    BY <1>0, <1>2 DEF LoopTypeOK
  <2>2. c.cell \in Sources \cup {Nothing} /\ c = [c EXCEPT !.cell = c.cell]
    BY <1>2 DEF ServeCall, PosedCall
  <2>3. \A docs : [c EXCEPT !.at = "breadths", !.todo = @ \ {s}, !.docs[s] = docs]
                  = [c EXCEPT !.at = "breadths", !.todo = @ \ {s}, !.docs[s] = docs, !.cell = c.cell]
    BY <1>2 DEF ServeCall, PosedCall
  <2>4. CASE breadths[c.bucket][s] # 0 /\
             Goes(p, [c EXCEPT !.at = "breadths", !.todo = @ \ {s}, !.docs[s] = breadths[c.bucket][s]])
    BY <2>1, <2>2, <2>3, <2>4
  <2>5. CASE Goes(p, [c EXCEPT !.at = "seed", !.todo = @ \ {s}, !.docs[s] = SeedDocs, !.cell = s])
    BY <2>5, BoundsAreOrdered
  <2>6. CASE Goes(p, [c EXCEPT !.at = "breadths", !.todo = @ \ {s}, !.docs[s] = SeedDocs])
    BY <2>2, <2>3, <2>6, BoundsAreOrdered
  <2> QED
    BY <2>4, <2>5, <2>6 DEF ReadBreadth
<1> DEFINE d == [c EXCEPT !.at = at, !.todo = @ \ {s}, !.docs[s] = docs, !.cell = cell]
<1>4. /\ d.at = at /\ d.query = c.query /\ d.bucket = c.bucket /\ d.profile = c.profile
      /\ d.todo = c.todo \ {s} /\ d.docs = [c.docs EXCEPT ![s] = docs] /\ d.cell = cell /\ d.arm = c.arm
      /\ d.due = c.due /\ d.text = c.text /\ d.sim = c.sim
      /\ DOMAIN d = DOMAIN c
  BY <1>2 DEF ServeCall, PosedCall
<1>5. d.docs \in [Sources -> Nat] /\ d.docs[s] = docs /\ \A r \in Sources \ {s} : d.docs[r] = c.docs[r]
  BY <1>2, <1>4, BoundsAreOrdered
<1>6. d \in ServeCall
  BY <1>2, <1>4, <1>5 DEF ServeCall, PosedCall, Answering
<1>7. d \in FeedbackCall
  BY <1>6 DEF FeedbackCall, Posing
<1> HIDE DEF d
<1>8. CallFits(p, d, posed, shown)
  <2>1. \A r \in Sources \ d.todo : d.docs[r] \in Breadth
    BY <1>2, <1>4, <1>5 DEF CallFits
  <2>2. d.at \notin Crediting /\ d.at # "put"
    BY <1>4 DEF Crediting
  <2>3. Fits(d, posed) /\ posed[d.query].by = p /\ shown[d.query] = Nothing
    BY <1>2, <1>4 DEF CallFits, Fits
  <2> QED
    BY <1>3, <1>4, <2>1, <2>2, <2>3 DEF CallFits
<1>9. call' \in [Servers -> FeedbackCall] /\ CallsFit'
  BY <1>0, <1>1, <1>3, <1>7, <1>8, CallGoesOn DEF d, logs
<1>10. LoopTypeOK'
  BY <1>0, <1>1, <1>9 DEF LoopTypeOK, learned, memory, logs
<1> QED
  BY <1>1, <1>9, <1>10, FactsStay DEF FeedbackInv, memory, logs

LEMMA SeedBreadthKeeps == ASSUME FeedbackInv, NEW p \in Servers, SeedBreadth(p) PROVE FeedbackInv'
<1> DEFINE c == call[p]
           b == c.bucket
           s == c.cell
           d == [c EXCEPT !.at = "breadths"]
<1>0. LoopTypeOK /\ CallsFit /\ c.at = "seed" /\ c.at \in Answering
  BY DEF FeedbackInv, SeedBreadth, On, Answering
<1>1. /\ Goes(p, d) /\ UNCHANGED <<recent, traces, rewards, memory, reports, logs>>
      /\ breadths' = breadths \/ breadths' = [breadths EXCEPT ![b][s] = SeedDocs]
      /\ frozen' = frozen \/ frozen' = [frozen EXCEPT ![b][s] = IF @ = 0 THEN SeedDocs ELSE @]
  BY DEF SeedBreadth, Then, Learn
<1>2. d \in FeedbackCall /\ CallFits(p, d, posed, shown)
  BY <1>0, AnswerIsOfAQuery, PlacesFit DEF Answering, Crediting
<1>3. b \in Buckets /\ s \in Sources
  BY <1>0, AnswerIsOfAQuery DEF CallFits
<1> HIDE DEF c, d, b, s
<1>4. call' \in [Servers -> FeedbackCall] /\ CallsFit'
  BY <1>0, <1>1, <1>2, CallGoesOn DEF c, logs
<1>5. breadths' \in [Buckets -> [Sources -> {0} \cup Breadth]]
  <2>0. breadths \in [Buckets -> [Sources -> {0} \cup Breadth]]
    BY <1>0 DEF LoopTypeOK
  <2>1. CASE breadths' = [breadths EXCEPT ![b][s] = SeedDocs]
    <3>1. breadths' = [breadths EXCEPT ![b] = [breadths[b] EXCEPT ![s] = SeedDocs]]
      BY <2>1
    <3>2. [breadths[b] EXCEPT ![s] = SeedDocs] \in [Sources -> {0} \cup Breadth]
      BY <1>3, <2>0, BoundsAreOrdered
    <3> QED
      BY <1>3, <2>0, <3>1, <3>2
  <2> QED
    BY <1>1, <2>0, <2>1
<1>6. frozen' \in [Buckets -> [Sources -> {0, SeedDocs}]]
  <2>0. frozen \in [Buckets -> [Sources -> {0, SeedDocs}]]
    BY <1>0 DEF LoopTypeOK
  <2>1. CASE frozen' = [frozen EXCEPT ![b][s] = IF @ = 0 THEN SeedDocs ELSE @]
    <3> DEFINE v == IF frozen[b][s] = 0 THEN SeedDocs ELSE frozen[b][s]
    <3>1. frozen' = [frozen EXCEPT ![b] = [frozen[b] EXCEPT ![s] = v]]
      BY <2>1
    <3>2. v \in {0, SeedDocs}
      BY <1>3, <2>0
    <3> HIDE DEF v
    <3>3. [frozen[b] EXCEPT ![s] = v] \in [Sources -> {0, SeedDocs}]
      BY <1>3, <2>0, <3>2
    <3> QED
      BY <1>3, <2>0, <3>1, <3>3
  <2> QED
    BY <1>1, <2>0, <2>1
<1>7. LoopTypeOK'
  BY <1>0, <1>1, <1>4, <1>5, <1>6 DEF LoopTypeOK, memory, logs
<1> QED
  BY <1>1, <1>4, <1>7, FactsStay DEF FeedbackInv, memory, logs

-----------------------------------------------------------------------------
LEMMA ClipIsAStep ==
    ASSUME NEW base \in Breadth, NEW docs \in {Clip(base - 1), Clip(base + 1)} \ {base}
    PROVE  docs \in Breadth /\ docs \in {base - 1, base + 1}
BY FeedbackAssumption DEF Clip, Breadth

LEMMA WidenedIsBounded == ASSUME NEW docs \in Breadth PROVE Widened(docs) \in Breadth
<1>1. docs \in Nat /\ docs \div 2 \in Nat /\ docs <= MostDocs /\ docs >= LeastDocs
  BY BoundsAreOrdered, FeedbackAssumption DEF Breadth
<1> QED
  BY <1>1, BoundsAreOrdered, FeedbackAssumption DEF Widened, Breadth

(* A query is shown documents once, so what is known of it stays true.     *)
LEMMA ShowingKeeps ==
    ASSUME FeedbackInv, NEW q \in QueryId, NEW s, shown[q] = Nothing,
           shown' = [shown EXCEPT ![q] = s]
    PROVE  /\ \A r \in QueryId : \A arm : IsSample(r, arm, shown) => IsSample(r, arm, shown')
           /\ \A x \in samples : shown'[x.query] # Nothing /\ shown'[x.query].docs[x.source] = x.docs
<1>1. shown \in [QueryId -> ShownDocs \cup {Nothing}] /\ DOMAIN shown' = QueryId
  BY DEF FeedbackInv, LoopTypeOK
<1>2. \A r : shown[r] # Nothing => shown'[r] = shown[r]
  <2> SUFFICES ASSUME NEW r, shown[r] # Nothing PROVE shown'[r] = shown[r]
    OBVIOUS
  <2>1. r # q
    OBVIOUS
  <2> QED
    BY <2>1
<1> QED
  BY <1>2 DEF FeedbackInv, SamplesAreOfWhatWasServed, IsSample

LEMMA SelectAllKeeps == ASSUME FeedbackInv, NEW p \in Servers, SelectAll(p) PROVE FeedbackInv'
<1> DEFINE c == call[p]
           t == trials[p][c.bucket]
           repeat == IsRepeat(c.sim)
           put(arm) == [c EXCEPT !.at = "put", !.arm = Explored(repeat, arm)]
           show(docs) == [repeat |-> repeat,
                          docs |-> IF repeat THEN [s \in Sources |-> Widened(docs[s])] ELSE docs]
<1>0. LoopTypeOK /\ CallsFit /\ c.at = "breadths" /\ c.todo = {} /\ c.at \in Answering /\ c.at \notin Crediting
  BY DEF FeedbackInv, SelectAll, On, Answering, Crediting
<1>1. UNCHANGED <<recent, traces, rewards, learned, lastCall, reports, posed, samples, repeats, joins>>
  BY DEF SelectAll
<1>2. /\ c \in ServeCall /\ c.bucket \in Buckets /\ c.query \in QueryId /\ shown[c.query] = Nothing
      /\ Fits(c, posed) /\ posed[c.query].by = p /\ c.docs \in [Sources -> Nat]
      /\ \A s \in Sources : c.docs[s] \in Breadth
  BY <1>0, AnswerIsOfAQuery DEF CallFits
<1>3. c.docs \in [Sources -> Breadth]
  BY <1>2
<1>4. t \in Trial \cup {Nothing} /\ TrialFits(t) /\ trials \in [Servers -> [Buckets -> Trial \cup {Nothing}]]
  BY <1>0, <1>2 DEF FeedbackInv, LoopTypeOK, TrialsFit
<1>5. PICK docs \in [Sources -> Breadth], arm \in Arms \cup {Nothing} :
        /\ Goes(p, put(arm)) /\ shown' = [shown EXCEPT ![c.query] = show(docs)]
        /\ arm = Nothing \/ docs[arm.source] = arm.docs
        /\ trials' \in [Servers -> [Buckets -> Trial \cup {Nothing}]] /\ TrialsFit'
  <2>1. CASE Goes(p, put(Nothing)) /\ shown' = [shown EXCEPT ![c.query] = show(c.docs)] /\ UNCHANGED trials
    BY <1>3, <1>4, <2>1 DEF FeedbackInv, TrialsFit
  <2>2. CASE /\ t # Nothing /\ UNCHANGED trials
             /\ \E n \in {t.docs, t.base} :
                    /\ Goes(p, put([source |-> t.source, docs |-> n]))
                    /\ shown' = [shown EXCEPT ![c.query] = show([c.docs EXCEPT ![t.source] = n])]
    <3> PICK n \in {t.docs, t.base} :
            /\ Goes(p, put([source |-> t.source, docs |-> n]))
            /\ shown' = [shown EXCEPT ![c.query] = show([c.docs EXCEPT ![t.source] = n])]
      BY <2>2
    <3> DEFINE arm == [source |-> t.source, docs |-> n]
               docs == [c.docs EXCEPT ![t.source] = n]
    <3>1. t.source \in Sources /\ n \in Breadth
      BY <1>4, <2>2 DEF Trial
    <3>2. arm \in Arms /\ docs \in [Sources -> Breadth] /\ docs[arm.source] = arm.docs
      BY <1>3, <3>1 DEF Arms
    <3>3. TrialsFit'
      BY <2>2 DEF FeedbackInv, TrialsFit
    <3> QED
      BY <1>4, <2>2, <3>2, <3>3
  <2>3. CASE \E s \in Sources : \E n \in {Clip(c.docs[s] - 1), Clip(c.docs[s] + 1)} \ {c.docs[s]} :
                 /\ trials' = [trials EXCEPT ![p][c.bucket] =
                        [source |-> s, docs |-> n, base |-> c.docs[s],
                         tried |-> 0, kept |-> 0, strikes |-> 0]]
                 /\ Goes(p, put([source |-> s, docs |-> n]))
                 /\ shown' = [shown EXCEPT ![c.query] = show([c.docs EXCEPT ![s] = n])]
    <3> PICK s \in Sources :
            \E n \in {Clip(c.docs[s] - 1), Clip(c.docs[s] + 1)} \ {c.docs[s]} :
                /\ trials' = [trials EXCEPT ![p][c.bucket] =
                       [source |-> s, docs |-> n, base |-> c.docs[s],
                        tried |-> 0, kept |-> 0, strikes |-> 0]]
                /\ Goes(p, put([source |-> s, docs |-> n]))
                /\ shown' = [shown EXCEPT ![c.query] = show([c.docs EXCEPT ![s] = n])]
      BY <2>3
    <3> PICK n \in {Clip(c.docs[s] - 1), Clip(c.docs[s] + 1)} \ {c.docs[s]} :
            /\ trials' = [trials EXCEPT ![p][c.bucket] =
                   [source |-> s, docs |-> n, base |-> c.docs[s],
                    tried |-> 0, kept |-> 0, strikes |-> 0]]
            /\ Goes(p, put([source |-> s, docs |-> n]))
            /\ shown' = [shown EXCEPT ![c.query] = show([c.docs EXCEPT ![s] = n])]
      OBVIOUS
    <3> DEFINE arm == [source |-> s, docs |-> n]
               docs == [c.docs EXCEPT ![s] = n]
               u == [source |-> s, docs |-> n, base |-> c.docs[s], tried |-> 0, kept |-> 0, strikes |-> 0]
    <3>1. n \in Breadth /\ n \in {c.docs[s] - 1, c.docs[s] + 1}
      BY <1>2, ClipIsAStep
    <3>2. arm \in Arms /\ docs \in [Sources -> Breadth] /\ docs[arm.source] = arm.docs
      BY <1>3, <3>1 DEF Arms
    <3>3. u \in Trial /\ TrialFits(u)
      BY <1>2, <3>1, FeedbackAssumption DEF Trial, TrialFits, Struck
    <3> HIDE DEF u
    <3>4. trials' = [trials EXCEPT ![p] = [trials[p] EXCEPT ![c.bucket] = u]]
      BY DEF u
    <3>5. [trials[p] EXCEPT ![c.bucket] = u] \in [Buckets -> Trial \cup {Nothing}]
      BY <1>2, <1>4, <3>3
    <3>6. \A b \in Buckets : TrialFits([trials[p] EXCEPT ![c.bucket] = u][b])
      BY <1>2, <1>4, <3>3 DEF FeedbackInv, TrialsFit
    <3>7. trials' \in [Servers -> [Buckets -> Trial \cup {Nothing}]]
      BY <1>4, <3>4, <3>5
    <3>8. TrialsFit'
      BY <1>4, <3>4, <3>6 DEF FeedbackInv, TrialsFit
    <3> QED
      BY <3>2, <3>7, <3>8
  <2> QED
    BY <2>1, <2>2, <2>3 DEF SelectAll, NoTrial
<1> DEFINE d == put(arm)
           s == show(docs)
<1>6. /\ d.at = "put" /\ d.query = c.query /\ d.bucket = c.bucket /\ d.profile = c.profile
      /\ d.arm = Explored(repeat, arm) /\ d.todo = c.todo /\ d.docs = c.docs
  BY <1>2 DEF ServeCall, PosedCall
<1>7. d \in ServeCall /\ d \in FeedbackCall
  <2>1. Explored(repeat, arm) \in Arms \cup {Nothing}
    BY DEF Explored
  <2>2. d \in ServeCall
    BY <1>2, <2>1 DEF ServeCall, PosedCall, Answering
  <2> QED
    BY <2>2 DEF FeedbackCall, Posing
<1>8. s \in ShownDocs /\ s # Nothing /\ IsSample(c.query, d.arm, [shown EXCEPT ![c.query] = s])
  <2>0. repeat \in BOOLEAN
    BY DEF IsRepeat
  <2>1. \A e \in [Sources -> Breadth] : [repeat |-> repeat, docs |-> e] \in ShownDocs
    BY <2>0 DEF ShownDocs
  <2>2. [x \in Sources |-> Widened(docs[x])] \in [Sources -> Breadth]
    BY WidenedIsBounded
  <2>3. s \in ShownDocs
    BY <2>1, <2>2
  <2>4. ShownDocs \subseteq [repeat : BOOLEAN, docs : [Sources -> Nat]]
    BY BoundsAreOrdered DEF ShownDocs
  <2>5. s # Nothing
    BY <2>3, <2>4, FeedbackAssumption
  <2>6. [shown EXCEPT ![c.query] = s][c.query] = s
    BY <1>0, <1>2 DEF LoopTypeOK
  <2>7. d.arm = Nothing \/ (d.arm = arm /\ s.docs = docs)
    BY <1>6 DEF Explored
  <2> QED
    BY <1>5, <2>3, <2>5, <2>6, <2>7 DEF IsSample
<1> HIDE DEF d, s, c
<1>9. Goes(p, d) /\ shown' = [shown EXCEPT ![c.query] = s]
  BY <1>5 DEF d, s
<1>10. /\ \A r \in QueryId : \A x : IsSample(r, x, shown) => IsSample(r, x, shown')
       /\ SamplesAreOfWhatWasServed'
  BY <1>1, <1>2, <1>9, ShowingKeeps DEF SamplesAreOfWhatWasServed
<1>11. shown' \in [QueryId -> ShownDocs \cup {Nothing}] /\ \A r \in QueryId \ {c.query} : shown'[r] = shown[r]
  BY <1>0, <1>2, <1>8, <1>9 DEF LoopTypeOK
<1>12. UnposedIsUnshown'
  <2>1. c.query \in 1 .. Len(posed)
    BY <1>2 DEF Fits
  <2> QED
    BY <1>0, <1>1, <1>11, <2>1 DEF FeedbackInv, UnposedIsUnshown, LoopTypeOK, QueryId
<1>13. TracesFit'
  BY <1>1, <1>10 DEF FeedbackInv, TracesFit, TraceFits
<1>14. call' \in [Servers -> FeedbackCall] /\ call'[p] = d /\ \A q \in Servers \ {p} : call'[q] = call[q]
  BY <1>0, <1>7, <1>9, CallMoves DEF LoopTypeOK
<1>15. CallsFit'
  <2>1. CallFits(p, d, posed, shown')
    BY <1>0, <1>2, <1>6, <1>8, <1>9 DEF CallFits, Fits, Crediting
  <2> SUFFICES ASSUME NEW q \in Servers \ {p} PROVE CallFits(q, call[q], posed, shown')
    BY <1>1, <1>14, <2>1 DEF CallsFit
  <2>2. CallFits(q, call[q], posed, shown) /\ call[q] \in FeedbackCall
    BY <1>0 DEF CallsFit, LoopTypeOK
  <2>3. call[q].at \in Crediting => call[q].due.query \in QueryId
    BY <1>0, DueIsOfAQuery
  <2>4. call[q] \in Posing => call[q].query \in QueryId
    BY DEF Posing, RepeatCall, ServeCall, PosedCall
  <2>5. call[q] \in Posing => call[q].query # c.query
    BY <1>2, <2>2 DEF CallFits
  <2> QED
    BY <1>10, <1>11, <2>2, <2>3, <2>4, <2>5 DEF CallFits
<1>16. LoopTypeOK'
  BY <1>0, <1>1, <1>5, <1>11, <1>14 DEF LoopTypeOK, learned
<1> QED
  BY <1>1, <1>5, <1>10, <1>12, <1>13, <1>15, <1>16
  DEF FeedbackInv, RecentFit, LastCallsFit, RewardsFit, JoinsFit, RepeatsGoBack

LEMMA PutTraceKeeps == ASSUME FeedbackInv, NEW p \in Servers, PutTrace(p) PROVE FeedbackInv'
<1> DEFINE c == call[p]
           served == [query |-> c.query, bucket |-> c.bucket, profile |-> c.profile]
           trace == [known |-> TRUE, of |-> served, arm |-> c.arm]
<1>0. LoopTypeOK /\ CallsFit /\ c.at = "put" /\ c.at \in Answering
  BY DEF FeedbackInv, PutTrace, On, Answering
<1>1. /\ Goes(p, Idling) /\ lastCall' = [lastCall EXCEPT ![p] = served]
      /\ traces' = traces \/ traces' = [traces EXCEPT ![c.query] = trace]
      /\ UNCHANGED <<recent, rewards, learned, trials, reports, logs>>
  BY DEF PutTrace
<1>2. c.query \in QueryId /\ Fits(c, posed) /\ posed[c.query].by = p /\ IsSample(c.query, c.arm, shown)
  BY <1>0, AnswerIsOfAQuery DEF CallFits
<1>3. served \in ServedQuery /\ Fits(served, posed) /\ posed[served.query].by = p /\ served.query = c.query
  BY <1>0, <1>2, AnswerIsOfAQuery DEF ServedQuery, Fits
<1>4. trace \in Trace /\ TraceFits(c.query, trace, posed, shown)
  <2>1. trace \in Trace
    BY <1>0, <1>3, AnswerIsOfAQuery DEF Trace
  <2> QED
    BY <1>2, <1>3, <2>1 DEF TraceFits
<1> HIDE DEF c, served, trace
<1>5. call' \in [Servers -> FeedbackCall] /\ CallsFit'
  BY <1>0, <1>1, IdlingFits, CallGoesOn DEF logs
<1>6. lastCall' \in [Servers -> ServedQuery \cup {Nothing}] /\ LastCallsFit'
  <2>1. lastCall \in [Servers -> ServedQuery \cup {Nothing}] /\ LastCallsFit
    BY <1>0 DEF LoopTypeOK, FeedbackInv
  <2>2. UNCHANGED posed
    BY <1>1 DEF logs
  <2> QED
    BY <1>1, <1>3, <2>1, <2>2 DEF LastCallsFit, LastFits
<1>7. traces' \in [QueryId -> Trace] /\ TracesFit'
  <2>1. traces \in [QueryId -> Trace] /\ TracesFit
    BY <1>0 DEF LoopTypeOK, FeedbackInv
  <2>2. UNCHANGED <<posed, shown>>
    BY <1>1 DEF logs
  <2> QED
    BY <1>1, <1>2, <1>4, <2>1, <2>2 DEF TracesFit
<1>8. LoopTypeOK'
  BY <1>0, <1>1, <1>5, <1>6, <1>7 DEF LoopTypeOK, learned, logs
<1> QED
  BY <1>1, <1>5, <1>6, <1>7, <1>8, FactsStay DEF FeedbackInv, logs

-----------------------------------------------------------------------------
(* dev_feedback credits the query it names, or else the last of its own    *)
(* process.                                                                *)
LEMMA JoinKeeps ==
    ASSUME FeedbackInv, NEW p \in Servers, NEW named, NEW served \in ServedQuery,
           NEW arm \in Arms \cup {Nothing}, Join(p, named, served, arm),
           Fits(served, posed), IsSample(served.query, arm, shown),
           served.query = named \/ posed[served.query].by = p,
           UNCHANGED <<recent, traces, rewards, learned, memory, posed, shown, samples, repeats>>
    PROVE  FeedbackInv'
<1>0. LoopTypeOK /\ CallsFit
  BY DEF FeedbackInv
<1>1. PICK low \in BOOLEAN :
        Goes(p, [at |-> "append", due |->
            [query |-> served.query, bucket |-> served.bucket, profile |-> served.profile,
             kind |-> "explicit", arm |-> arm, low |-> low]])
  BY DEF Join
<1> DEFINE due == [query |-> served.query, bucket |-> served.bucket, profile |-> served.profile,
                   kind |-> "explicit", arm |-> arm, low |-> low]
           c == [at |-> "append", due |-> due]
           j == [named |-> named, to |-> served.query, by |-> p]
<1>2. due \in FeedbackDue /\ due.query = served.query /\ due.arm = arm /\ Fits(due, posed)
  BY DEF FeedbackDue, Dues, ServedQuery, Fits
<1>3. c \in JoinCall /\ c.due = due
  BY <1>2 DEF JoinCall, Crediting
<1>4. c \in FeedbackCall /\ CallFits(p, c, posed, shown)
  BY <1>2, <1>3, JoinIsNoPosing DEF CallFits
<1>5. call' \in [Servers -> FeedbackCall] /\ CallsFit'
  BY <1>0, <1>1, <1>4, CallGoesOn
<1>6. JoinsFit'
  <2>1. joins' = joins \cup {j} /\ j.to \in 1 .. Len(posed) /\ j.to = served.query /\ j.named = named /\ j.by = p
    BY DEF Join, Fits
  <2> HIDE DEF j
  <2> QED
    BY <2>1 DEF FeedbackInv, JoinsFit
<1>7. LoopTypeOK'
  BY <1>0, <1>5 DEF LoopTypeOK, learned, memory
<1> QED
  BY <1>5, <1>6, <1>7, FactsStay DEF FeedbackInv, memory

LEMMA SubmitFeedbackKeeps ==
    ASSUME FeedbackInv, NEW p \in Servers, NEW q \in Answered \cup {0}, SubmitFeedback(p, q)
    PROVE  FeedbackInv'
<1> DEFINE trace == IF q = 0 THEN NoTrace ELSE traces[q]
           d == [at |-> "fall back", named |-> q]
<1>0. LoopTypeOK /\ CallsFit
  BY DEF FeedbackInv
<1>1. UNCHANGED <<recent, traces, rewards, learned, memory, posed, shown, samples, repeats>>
  BY DEF SubmitFeedback
<1>2. q = 0 \/ q \in QueryId
  BY <1>0, FeedbackAssumption DEF Answered, LoopTypeOK, QueryId
<1>3. CASE trace.of # Nothing /\ Join(p, q, trace.of, trace.arm)
  <2>1. q # 0 /\ q \in QueryId /\ trace = traces[q]
    BY <1>2, <1>3 DEF NoTrace
  <2>2. traces[q] \in Trace /\ TraceFits(q, traces[q], posed, shown)
    BY <1>0, <2>1 DEF LoopTypeOK, FeedbackInv, TracesFit
  <2>3. traces[q].of \in ServedQuery /\ traces[q].arm \in Arms \cup {Nothing}
    BY <1>3, <2>1, <2>2 DEF Trace
  <2>4. Fits(traces[q].of, posed) /\ traces[q].of.query = q /\ IsSample(q, traces[q].arm, shown)
    BY <1>3, <2>1, <2>2 DEF TraceFits
  <2> QED
    BY <1>1, <1>3, <2>1, <2>3, <2>4, JoinKeeps
<1>4. CASE UNCHANGED <<call, joins>>
  <2>1. CallsFit'
    BY <1>0, <1>1, <1>4 DEF CallsFit
  <2>2. LoopTypeOK'
    BY <1>0, <1>1, <1>4 DEF LoopTypeOK, learned, memory
  <2> QED
    BY <1>1, <1>4, <2>1, <2>2, FactsStay DEF FeedbackInv, memory
<1>5. CASE Goes(p, d) /\ UNCHANGED joins
  <2>1. d \in FallBackCall
    BY <1>2 DEF FallBackCall, QueryId
  <2>2. d \in FeedbackCall /\ CallFits(p, d, posed, shown)
    BY <2>1, FallBackIsNoPosing DEF CallFits
  <2>3. call' \in [Servers -> FeedbackCall] /\ CallsFit'
    BY <1>0, <1>1, <1>5, <2>2, CallGoesOn
  <2>4. LoopTypeOK'
    BY <1>0, <1>1, <1>5, <2>3 DEF LoopTypeOK, learned, memory
  <2> QED
    BY <1>1, <1>5, <2>3, <2>4, FactsStay DEF FeedbackInv, memory
<1> QED
  BY <1>3, <1>4, <1>5 DEF SubmitFeedback

LEMMA FallBackKeeps == ASSUME FeedbackInv, NEW p \in Servers, FallBack(p) PROVE FeedbackInv'
<1> DEFINE served == lastCall[p]
           named == call[p].named
<1>0. LoopTypeOK /\ CallsFit
  BY DEF FeedbackInv
<1>1. UNCHANGED <<recent, traces, rewards, learned, memory, posed, shown, samples, repeats>>
  BY DEF FallBack
<1>2. CASE Goes(p, Idling) /\ UNCHANGED joins
  <2>1. call' \in [Servers -> FeedbackCall] /\ CallsFit'
    BY <1>0, <1>1, <1>2, IdlingFits, CallGoesOn
  <2>2. LoopTypeOK'
    BY <1>0, <1>1, <1>2, <2>1 DEF LoopTypeOK, learned, memory
  <2> QED
    BY <1>1, <1>2, <2>1, <2>2, FactsStay DEF FeedbackInv, memory
<1>3. CASE served # Nothing /\ \E arm \in {traces[served.query].arm, Nothing} : Join(p, named, served, arm)
  <2>1. served \in ServedQuery /\ Fits(served, posed) /\ posed[served.query].by = p /\ served.query \in QueryId
    BY <1>0, <1>3 DEF LoopTypeOK, FeedbackInv, LastCallsFit, LastFits, ServedQuery
  <2>2. traces[served.query] \in Trace /\ IsSample(served.query, traces[served.query].arm, shown)
    BY <1>0, <2>1 DEF LoopTypeOK, FeedbackInv, TracesFit, TraceFits
  <2>3. traces[served.query].arm \in Arms \cup {Nothing}
    BY <2>2 DEF Trace
  <2> PICK arm \in {traces[served.query].arm, Nothing} : Join(p, named, served, arm)
    BY <1>3
  <2>4. arm \in Arms \cup {Nothing} /\ IsSample(served.query, arm, shown)
    BY <2>2, <2>3 DEF IsSample
  <2> HIDE DEF served, named
  <2> QED
    BY <1>1, <2>1, <2>4, JoinKeeps
<1> QED
  BY <1>2, <1>3 DEF FallBack

LEMMA ForgetKeeps == ASSUME FeedbackInv, Forget PROVE FeedbackInv'
<1>0. LoopTypeOK /\ CallsFit /\ recent # <<>> /\ recent' = Tail(recent)
  BY DEF FeedbackInv, Forget
<1>1. UNCHANGED <<traces, rewards, learned, memory, call, reports, mishaps, logs>>
  BY DEF Forget
<1>2. /\ recent \in Seq(RecentQuery) /\ recent' \in Seq(RecentQuery) /\ Len(recent') = Len(recent) - 1
      /\ \A i \in 1 .. Len(recent') : recent'[i] = recent[i + 1]
  BY <1>0 DEF LoopTypeOK
<1>3. RecentFit'
  BY <1>1, <1>2 DEF FeedbackInv, RecentFit, logs
<1>4. CallsFit'
  BY <1>0, <1>1 DEF CallsFit, logs
<1>5. LoopTypeOK'
  BY <1>0, <1>1, <1>2 DEF LoopTypeOK, learned, memory, logs
<1> QED
  BY <1>1, <1>3, <1>4, <1>5, FactsStay DEF FeedbackInv, memory, logs

LEMMA EndProcessKeeps == ASSUME FeedbackInv, NEW p \in Servers, EndProcess(p) PROVE FeedbackInv'
<1> DEFINE none == [b \in Buckets |-> Nothing]
<1>0. LoopTypeOK /\ CallsFit
  BY DEF FeedbackInv
<1>1. /\ Goes(p, Idling) /\ UNCHANGED <<recent, traces, rewards, learned, reports, logs>>
      /\ trials' = [trials EXCEPT ![p] = none] /\ lastCall' = [lastCall EXCEPT ![p] = Nothing]
  BY DEF EndProcess, NoTrial
<1>2. call' \in [Servers -> FeedbackCall] /\ CallsFit'
  BY <1>0, <1>1, IdlingFits, CallGoesOn DEF logs
<1>3. trials' \in [Servers -> [Buckets -> Trial \cup {Nothing}]] /\ TrialsFit'
  <2>1. none \in [Buckets -> Trial \cup {Nothing}] /\ \A b \in Buckets : TrialFits(none[b])
    BY DEF TrialFits
  <2> QED
    BY <1>0, <1>1, <2>1 DEF LoopTypeOK, FeedbackInv, TrialsFit
<1>4. lastCall' \in [Servers -> ServedQuery \cup {Nothing}] /\ LastCallsFit'
  <2>1. UNCHANGED posed
    BY <1>1 DEF logs
  <2> QED
    BY <1>0, <1>1, <2>1 DEF LoopTypeOK, FeedbackInv, LastCallsFit, LastFits
<1>5. LoopTypeOK'
  BY <1>0, <1>1, <1>2, <1>3, <1>4 DEF LoopTypeOK, learned, logs
<1> QED
  BY <1>1, <1>2, <1>3, <1>4, <1>5, FactsStay DEF FeedbackInv, logs

-----------------------------------------------------------------------------
LEMMA FeedbackInvHolds == SpecFeedback => []FeedbackInv
<1>1. FeedbackInv /\ [StepFeedback]_feedbackVars => FeedbackInv'
  <2> SUFFICES ASSUME FeedbackInv, [StepFeedback]_feedbackVars PROVE FeedbackInv'
    OBVIOUS
  <2>1. CASE UNCHANGED feedbackVars
    <3>1. LoopTypeOK'
      BY <2>1 DEF FeedbackInv, LoopTypeOK, feedbackVars, learned, memory, logs
    <3>2. CallsFit'
      BY <2>1 DEF FeedbackInv, CallsFit, feedbackVars, logs
    <3> QED
      BY <2>1, <3>1, <3>2, FactsStay DEF FeedbackInv, feedbackVars, learned, memory, logs
  <2>2. CASE Forget
    BY <2>2, ForgetKeeps
  <2>3. ASSUME NEW p \in Servers, NEW serving \in Served, NEW x \in Texts,
               Pose(p, serving[1], serving[2], serving[3], x)
        PROVE  FeedbackInv'
    BY <2>3, PoseKeeps
  <2>4. ASSUME NEW p \in Servers, NEW q \in Answered \cup {0}, SubmitFeedback(p, q) PROVE FeedbackInv'
    BY <2>4, SubmitFeedbackKeeps
  <2>5. ASSUME NEW p \in Servers, NEW s \in Sources, ReadBreadth(p, s) PROVE FeedbackInv'
    BY <2>5, ReadBreadthKeeps
  <2>6. ASSUME NEW p \in Servers, AppendAndPatch(p) \/ Credit(p) \/ RecordQuery(p) PROVE FeedbackInv'
    BY <2>6, AppendAndPatchKeeps, CreditKeeps, RecordQueryKeeps
  <2>7. ASSUME NEW p \in Servers, SeedBreadth(p) \/ SelectAll(p) \/ PutTrace(p) PROVE FeedbackInv'
    BY <2>7, SeedBreadthKeeps, SelectAllKeeps, PutTraceKeeps
  <2>8. ASSUME NEW p \in Servers, FallBack(p) \/ EndProcess(p) PROVE FeedbackInv'
    BY <2>8, FallBackKeeps, EndProcessKeeps
  <2> QED
    BY <2>1, <2>2, <2>3, <2>4, <2>5, <2>6, <2>7, <2>8 DEF StepFeedback
<1> QED
  BY <1>1, FeedbackInvStarts, PTL DEF SpecFeedback

LEMMA FeedbackInvSuffices == FeedbackInv => RewardsFindTheirQuery
<1> SUFFICES ASSUME FeedbackInv PROVE RewardsFindTheirQuery
  OBVIOUS
<1>0. LoopTypeOK
  BY DEF FeedbackInv
<1>1. FeedbackTypeOK
  <2>1. {0} \cup Breadth \subseteq 0 .. MostDocs
    BY BoundsAreOrdered DEF Breadth
  <2>2. breadths \in [Buckets -> [Sources -> 0 .. MostDocs]]
    BY <1>0, <2>1 DEF LoopTypeOK
  <2>3. \A q \in QueryId : traces[q].of # Nothing => traces[q].known
    BY DEF FeedbackInv, TracesFit, TraceFits
  <2> QED
    BY <1>0, <2>2, <2>3 DEF FeedbackTypeOK, LoopTypeOK
<1>2. RewardsReachTheirBucket /\ FeedbackStaysHome
  BY DEF FeedbackInv, RewardsFit, Fits, RewardsReachTheirBucket, JoinsFit, FeedbackStaysHome
<1>3. BreadthsAreBounded
  <2>1. \A q \in Answered, s \in Sources : shown[q].docs[s] \in LeastDocs .. MostDocs
    <3> SUFFICES ASSUME NEW q \in Answered, NEW s \in Sources PROVE shown[q].docs[s] \in Breadth
      BY DEF Breadth
    <3>1. q \in QueryId /\ shown[q] # Nothing
      BY <1>0, FeedbackAssumption DEF Answered, LoopTypeOK, QueryId
    <3> QED
      BY <1>0, <3>1 DEF LoopTypeOK, ShownDocs
  <2> QED
    BY <2>1 DEF FeedbackInv, TrialsFit, TrialFits, BreadthsAreBounded, NoTrial
<1> QED
  BY <1>1, <1>2, <1>3 DEF FeedbackInv, RewardsFindTheirQuery

(* A repeat and dev_feedback of any process credit the bucket and the      *)
(* profile that served the query; no repeat is its own or a later query's; *)
(* an experiment counts what was served; feedback stays with the process   *)
(* it came to; and no query is shown fewer or more documents than the      *)
(* guardrail of SourceBandit allows, whatever fails and whoever ends.      *)
THEOREM RewardsKeepFinding == SpecFeedback => []RewardsFindTheirQuery
BY FeedbackInvHolds, FeedbackInvSuffices, PTL
-----------------------------------------------------------------------------
(* Entry points.                                                           *)
Ids == 1 .. MaxDecisions
Decision == [files : SUBSET AnchorFiles, explored : SUBSET AnchorFiles]
RecordWork == [at : {"record"}, query : Ids, seen : Observation, todo : SUBSET AnchorFiles]
RewardWork ==
    [at : {"reward"}, query : Ids, words : SUBSET Words, todo : SUBSET AnchorFiles, weight : {1, 2}]
MemoryStages == {"attribute", "discover", "seedFiring", "seedWin"}
AttributeWork == [at : MemoryStages, file : Present, todo : SUBSET Ids]
AnchorWork == {Resting} \cup RecordWork \cup RewardWork \cup AttributeWork

LearnerTypeOK ==
    /\ firings \in [Scopes -> [Suffixes -> Nat]] /\ wins \in [Scopes -> [Suffixes -> Nat]]
    /\ affinity \in [Words -> [Suffixes -> Nat]] /\ discovered \subseteq Suffixes
    /\ decided \in Seq(Decision) /\ Len(decided) <= MaxDecisions
    /\ observations \in [Ids -> Observation \cup {Nothing}]
    /\ ring \in [Servers -> Seq(Ids)] /\ \A p \in Servers : Len(ring[p]) <= RingSize
    /\ work \in [Servers -> AnchorWork]

(* Pattern s has fired, as far as its firings were counted.                *)
FiredIn(c, s) == firings[c][s] > 0 \/ <<c, s>> \in uncounted
Fired(s) == \A c \in Scopes : FiredIn(c, s)
HasFired(files) == \A f \in files : Fired(f[2])

WorkFits(w) ==
    /\ w.at = "record" =>
           /\ w.query \in 1 .. Len(decided) /\ w.seen.files = decided[w.query].files
           /\ w.todo \subseteq w.seen.files /\ HasFired(w.seen.files \ w.todo)
    /\ w.at = "reward" =>
           w.query \in 1 .. Len(decided) /\ w.todo \subseteq decided[w.query].files /\ HasFired(w.todo)
    /\ w.at \in MemoryStages =>
           w.file \in stored /\ \A q \in w.todo : observations[q] # Nothing
    /\ w.at = "discover" => w.file[2] \notin Static
    /\ w.at = "seedWin" => FiredIn("repo", w.file[2])

ObservationFits(q, obs) ==
    obs # Nothing => q \in 1 .. Len(decided) /\ obs.files = decided[q].files /\ HasFired(obs.files)

AllWorkFits == \A p \in Servers : WorkFits(work[p])
ObservationsFit == \A q \in Ids : ObservationFits(q, observations[q])
CreditsFit ==
    \A pair \in credited : pair[1] \in 1 .. Len(decided) /\ pair[2] \in decided[pair[1]].files

(* Only the process that a query was asked of records its firings.         *)
RecordersDiffer ==
    \A p, q \in Servers :
        work[p].at = "record" /\ work[q].at = "record" /\ work[p].query = work[q].query => p = q

(* The firings of a pattern that are to be counted yet, and those that     *)
(* have been.                                                              *)
IsToFire(pair) ==
    \E p \in Servers : work[p].at = "record" /\ work[p].query = pair[1] /\ pair[2] \in work[p].todo
Spent(s) ==
    {pair \in (1 .. Len(decided)) \X AnchorFiles :
        pair[2] \in decided[pair[1]].files /\ pair[2][2] = s /\ ~IsToFire(pair)}
FiringsAreSpent == \A s \in Suffixes : firings["all"][s] <= Cardinality(Spent(s))

AnchorInv ==
    /\ LearnerTypeOK /\ AllWorkFits /\ ObservationsFit /\ CreditsFit /\ RecordersDiffer
    /\ FiringsAreSpent /\ SuccessFollowsFiring /\ AnchorsExist /\ DiscoveriesAreNew

-----------------------------------------------------------------------------
(* Ranking: of a strict order of a finite set, less than k elements are    *)
(* before at most k elements, and one is first.                            *)
FirstOf(pool, before, k) == {f \in pool : Cardinality({g \in pool : <<g, f>> \in before}) < k}

LEMMA TopOfAnOrder ==
    ASSUME NEW pool, IsFiniteSet(pool), NEW before, NEW k \in Nat,
           \A f \in pool : <<f, f>> \notin before,
           \A f, g, h \in pool : <<f, g>> \in before /\ <<g, h>> \in before => <<f, h>> \in before,
           \A f, g \in pool : f = g \/ <<f, g>> \in before \/ <<g, f>> \in before
    PROVE  /\ IsFiniteSet(FirstOf(pool, before, k)) /\ Cardinality(FirstOf(pool, before, k)) <= k
           /\ pool # {} /\ k > 0 => FirstOf(pool, before, k) # {}
<1> DEFINE ahead(f) == {g \in pool : <<g, f>> \in before}
           rank == [f \in pool |-> Cardinality(ahead(f))]
           top == {f \in pool : Cardinality(ahead(f)) < k}
           n == Cardinality(pool)
<1>1. n \in Nat
  BY FS_CardinalityType
<1>2. ASSUME NEW f \in pool
      PROVE  /\ IsFiniteSet(ahead(f)) /\ rank[f] = Cardinality(ahead(f))
             /\ rank[f] \in 0 .. (n - 1) /\ rank[f] \in Nat
  <2>1. ahead(f) \in SUBSET pool /\ ahead(f) # pool
    OBVIOUS
  <2>2. IsFiniteSet(ahead(f)) /\ Cardinality(ahead(f)) <= n /\ (n = Cardinality(ahead(f)) => pool = ahead(f))
    BY <2>1, FS_Subset
  <2>3. Cardinality(ahead(f)) \in Nat
    BY <2>2, FS_CardinalityType
  <2>4. rank[f] = Cardinality(ahead(f))
    OBVIOUS
  <2> HIDE DEF ahead, rank, n
  <2> QED
    BY <1>1, <2>1, <2>2, <2>3, <2>4
<1>3. ASSUME NEW f \in pool, NEW g \in pool, <<f, g>> \in before PROVE rank[f] < rank[g]
  <2>1. ahead(f) \in SUBSET ahead(g) /\ f \in ahead(g) /\ f \notin ahead(f)
    BY <1>3
  <2> HIDE DEF ahead, rank, n
  <2>2. Cardinality(ahead(f)) <= Cardinality(ahead(g)) /\ Cardinality(ahead(f)) # Cardinality(ahead(g))
    BY <1>2, <2>1, FS_Subset
  <2> QED
    BY <1>2, <2>2
<1>4. DOMAIN rank = pool /\ rank = [f \in pool |-> rank[f]]
  OBVIOUS
<1>5. top = {f \in pool : rank[f] < k}
  OBVIOUS
<1> HIDE DEF ahead, rank, n, top
<1>6. rank \in [pool -> 0 .. (n - 1)]
  BY <1>2, <1>4
<1>7. \A f, g \in pool : rank[f] = rank[g] => f = g
  <2> SUFFICES ASSUME NEW f \in pool, NEW g \in pool, rank[f] = rank[g] PROVE f = g
    OBVIOUS
  <2>1. rank[f] \in Nat /\ ~(rank[f] < rank[g]) /\ ~(rank[g] < rank[f])
    BY <1>2
  <2> QED
    BY <1>3, <2>1
<1>8. IsFiniteSet(top) /\ Cardinality(top) <= k
  <2> DEFINE r == [f \in top |-> rank[f]]
  <2>1. \A f \in top : rank[f] \in 0 .. (k - 1)
    BY <1>2, <1>5
  <2>2. r \in [top -> 0 .. (k - 1)]
    BY <2>1
  <2>3. \A f, g \in top : r[f] = r[g] => f = g
    BY <1>5, <1>7
  <2>4. r \in Injection(top, 0 .. (k - 1))
    BY <2>2, <2>3 DEF Injection, IsInjective
  <2>5. k - 1 \in Int /\ 0 \in Int /\ (IF 0 > k - 1 THEN 0 ELSE (k - 1) - 0 + 1) = k
    OBVIOUS
  <2>6. IsFiniteSet(0 .. (k - 1)) /\ Cardinality(0 .. (k - 1)) = k
    BY <2>5, FS_Interval
  <2> QED
    BY <2>4, <2>6, FS_Injection
<1>9. ASSUME pool # {}, k > 0 PROVE top # {}
  <2>1. n # 0 /\ n > 0
    BY <1>1, <1>9, FS_EmptySet DEF n
  <2>2. rank \in Injection(pool, 0 .. (n - 1))
    BY <1>6, <1>7 DEF Injection, IsInjective
  <2>3. n - 1 \in Int /\ 0 \in Int /\ (IF 0 > n - 1 THEN 0 ELSE (n - 1) - 0 + 1) = n
    BY <1>1, <2>1
  <2>4. IsFiniteSet(0 .. (n - 1)) /\ Cardinality(0 .. (n - 1)) = n
    BY <2>3, FS_Interval
  <2>5. rank \in Surjection(pool, 0 .. (n - 1))
    BY <2>2, <2>4, FS_Injection DEF n
  <2>6. 0 \in 0 .. (n - 1)
    BY <1>1, <2>1
  <2>7. PICK f \in pool : rank[f] = 0
    BY <2>5, <2>6 DEF Surjection
  <2> QED
    BY <1>5, <1>9, <2>7
<1> QED
  BY <1>8, <1>9 DEF top, ahead, FirstOf

LEMMA ProductsKeepOrder ==
    ASSUME NEW u \in Int, NEW v \in Int, NEW w \in Nat \ {0}
    PROVE  (u > v <=> u * w > v * w) /\ (u = v <=> u * w = v * w)
OBVIOUS

LEMMA FractionsAreOrdered ==
    ASSUME NEW a \in Int, NEW c \in Int, NEW e \in Int,
           NEW b \in Nat \ {0}, NEW d \in Nat \ {0}, NEW f \in Nat \ {0},
           a * d >= c * b, c * f >= e * d
    PROVE  a * f >= e * b /\ (a * d > c * b \/ c * f > e * d => a * f > e * b)
<1> DEFINE ad == a * d
           cb == c * b
           cf == c * f
           ed == e * d
           af == a * f
           eb == e * b
<1>1. ad \in Int /\ cb \in Int /\ cf \in Int /\ ed \in Int /\ af \in Int /\ eb \in Int
  OBVIOUS
<1>2. ad * f = af * d /\ cb * f = cf * b /\ ed * b = eb * d
  OBVIOUS
<1>3. ad >= cb /\ cf >= ed
  OBVIOUS
<1> HIDE DEF ad, cb, cf, ed, af, eb
<1>4. ad * f \in Int /\ cb * f \in Int /\ cf * b \in Int /\ ed * b \in Int /\ af * d \in Int /\ eb * d \in Int
  BY <1>1
<1>5. ad * f >= cb * f /\ (ad > cb => ad * f > cb * f)
  BY <1>1, <1>3, <1>4, ProductsKeepOrder
<1>6. cf * b >= ed * b /\ (cf > ed => cf * b > ed * b)
  BY <1>1, <1>3, <1>4, ProductsKeepOrder
<1>7. af * d >= eb * d /\ (ad > cb \/ cf > ed => af * d > eb * d)
  BY <1>2, <1>4, <1>5, <1>6
<1>8. af >= eb /\ (af * d > eb * d => af > eb)
  BY <1>1, <1>4, <1>7, ProductsKeepOrder
<1> QED
  BY <1>7, <1>8 DEF ad, cb, cf, ed, af, eb

(* A score is a fraction.                                                  *)
LEMMA ScoreIsAFraction ==
    ASSUME LearnerTypeOK, NEW s \in Suffixes, NEW words \in SUBSET Words, NEW static \in BOOLEAN
    PROVE  Score(s, words, static).of \in Int /\ Score(s, words, static).by \in Nat \ {0}
<1> DEFINE won(c) == wins[c][s] \div 2 + 1
           total(c) == firings[c][s] + 2
           local == Lesser(firings["repo"][s], MinFires)
           hits == {hit \in words \X (0 .. 2) :
                       IF hit[2] = 0 THEN static /\ s \in Static /\ hit[1] \in WordsOf(s)
                       ELSE hit[2] <= affinity[hit[1]][s]}
           of == ((10 * MinFires - 7 * local) * won("all") * total("repo")
                    + 7 * local * won("repo") * total("all")) * (20 + 3 * Lesser(Cardinality(hits), 2))
           by == total("all") * total("repo")
<1>1. \A c \in Scopes : won(c) \in Int /\ total(c) \in Nat \ {0}
  BY DEF LearnerTypeOK
<1>2. local \in Int /\ MinFires \in Int /\ "all" \in Scopes /\ "repo" \in Scopes
  BY AnchorAssumption DEF Lesser, Scopes, LearnerTypeOK
<1>3. Cardinality(hits) \in Nat
  <2>0. IsFiniteSet(words)
    BY AnchorAssumption, FS_Subset
  <2>1. IsFiniteSet(words) /\ IsFiniteSet(0 .. 2)
    <3>1. 0 \in Int /\ 2 \in Int
      OBVIOUS
    <3> QED
      BY <2>0, <3>1, FS_Interval
  <2>2. IsFiniteSet(words \X (0 .. 2))
    BY <2>1, FS_Product
  <2>3. hits \in SUBSET (words \X (0 .. 2))
    OBVIOUS
  <2> HIDE DEF hits
  <2> QED
    BY <2>2, <2>3, FS_Subset, FS_CardinalityType
<1>4. Lesser(Cardinality(hits), 2) \in Int
  BY <1>3 DEF Lesser
<1>5. Score(s, words, static) = [of |-> of, by |-> by]
  BY DEF Score
<1> HIDE DEF won, total, local, hits
<1>6. of \in Int /\ by \in Nat \ {0}
  <2> DEFINE x == won("all")
             y == total("repo")
             z == won("repo")
             u == total("all")
             m == Lesser(Cardinality(hits), 2)
             v == 10 * MinFires - 7 * local
             w == 7 * local
  <2>1. x \in Int /\ y \in Nat \ {0} /\ z \in Int /\ u \in Nat \ {0} /\ m \in Int /\ v \in Int /\ w \in Int
    BY <1>1, <1>2, <1>4
  <2> HIDE DEF x, y, z, u, m, v, w
  <2>2. (v * x * y + w * z * u) \in Int /\ (20 + 3 * m) \in Int /\ u * y \in Nat \ {0}
    BY <2>1
  <2> QED
    BY <2>2 DEF x, y, z, u, m, v, w
<1> QED
  BY <1>5, <1>6

LEMMA AheadIsAnOrder ==
    ASSUME LearnerTypeOK, NEW words \in SUBSET Words, NEW static \in BOOLEAN
    PROVE  /\ \A f \in AnchorFiles : ~Ahead(f, f, words, static)
           /\ \A f, g, h \in AnchorFiles :
                  Ahead(f, g, words, static) /\ Ahead(g, h, words, static) => Ahead(f, h, words, static)
           /\ \A f, g \in AnchorFiles : f = g \/ Ahead(f, g, words, static) \/ Ahead(g, f, words, static)
<1> DEFINE of(f) == Score(f[2], words, static).of
           by(f) == Score(f[2], words, static).by
           id(f) == f[2]
           svc(f) == f[1]
           above(f, g) == of(f) * by(g) > of(g) * by(f)
           level(f, g) == of(f) * by(g) = of(g) * by(f)
           former(f, g) == id(f) < id(g) \/ (id(f) = id(g) /\ svc(f) < svc(g))
<1>1. ASSUME NEW f \in AnchorFiles
      PROVE  /\ of(f) \in Int /\ by(f) \in Nat \ {0} /\ id(f) \in Nat /\ svc(f) \in Nat
             /\ f = <<svc(f), id(f)>>
  <2>1. f[1] \in Services /\ f[2] \in Suffixes /\ f = <<f[1], f[2]>>
    BY DEF AnchorFiles
  <2>2. f[1] \in Nat /\ f[2] \in Nat
    BY <2>1, AnchorAssumption
  <2>3. of(f) \in Int /\ by(f) \in Nat \ {0}
    BY <2>1, ScoreIsAFraction
  <2> QED
    BY <2>1, <2>2, <2>3
<1>2. ASSUME NEW f \in AnchorFiles, NEW g \in AnchorFiles
      PROVE  Ahead(f, g, words, static) <=> above(f, g) \/ (level(f, g) /\ former(f, g))
  BY DEF Ahead
<1> HIDE DEF of, by, id, svc
<1>3. ASSUME NEW f \in AnchorFiles PROVE ~Ahead(f, f, words, static)
  <2>1. of(f) * by(f) \in Int /\ id(f) \in Nat /\ svc(f) \in Nat
    BY <1>1
  <2> QED
    BY <1>2, <2>1
<1>4. ASSUME NEW f \in AnchorFiles, NEW g \in AnchorFiles, NEW h \in AnchorFiles,
             Ahead(f, g, words, static), Ahead(g, h, words, static)
      PROVE  Ahead(f, h, words, static)
  <2>1. of(f) * by(g) \in Int /\ of(g) * by(f) \in Int /\ of(g) * by(h) \in Int /\ of(h) * by(g) \in Int
        /\ of(f) * by(h) \in Int /\ of(h) * by(f) \in Int
    BY <1>1
  <2>2. of(f) * by(g) >= of(g) * by(f) /\ of(g) * by(h) >= of(h) * by(g)
    BY <1>2, <1>4, <2>1
  <2>3. of(f) * by(h) >= of(h) * by(f) /\ (above(f, g) \/ above(g, h) => above(f, h))
    BY <1>1, <2>2, FractionsAreOrdered
  <2>4. CASE above(f, h)
    BY <1>2, <2>4
  <2>5. CASE ~above(f, h)
    <3>1. level(f, h)
      BY <2>1, <2>3, <2>5
    <3>2. former(f, g) /\ former(g, h)
      BY <1>2, <1>4, <2>3, <2>5
    <3>3. former(f, h)
      BY <1>1, <3>2
    <3> QED
      BY <1>2, <3>1, <3>3
  <2> QED
    BY <2>4, <2>5
<1>5. ASSUME NEW f \in AnchorFiles, NEW g \in AnchorFiles, f # g
      PROVE  Ahead(f, g, words, static) \/ Ahead(g, f, words, static)
  <2>1. of(f) * by(g) \in Int /\ of(g) * by(f) \in Int
    BY <1>1
  <2>2. above(f, g) \/ above(g, f) \/ (level(f, g) /\ level(g, f))
    BY <2>1
  <2>3. id(f) # id(g) \/ svc(f) # svc(g)
    BY <1>1, <1>5
  <2>4. former(f, g) \/ former(g, f)
    BY <1>1, <2>3
  <2> QED
    BY <1>2, <2>2, <2>4
<1> QED
  BY <1>3, <1>4, <1>5

(* The best of a pool.                                                     *)
LEMMA BestAreFew ==
    ASSUME LearnerTypeOK, NEW words \in SUBSET Words, NEW static \in BOOLEAN,
           NEW pool \in SUBSET AnchorFiles, NEW k \in Nat
    PROVE  /\ BestRanked(pool, k, words, static) \subseteq pool
           /\ IsFiniteSet(BestRanked(pool, k, words, static))
           /\ Cardinality(BestRanked(pool, k, words, static)) <= k
           /\ pool # {} /\ k > 0 => BestRanked(pool, k, words, static) # {}
<1> DEFINE before == {pair \in pool \X pool : Ahead(pair[1], pair[2], words, static)}
           top == FirstOf(pool, before, k)
<1>1. IsFiniteSet(AnchorFiles)
  BY AnchorAssumption, FS_Product DEF AnchorFiles
<1>2. IsFiniteSet(pool)
  BY <1>1, FS_Subset
<1>3. \A f, g \in pool : <<f, g>> \in before <=> Ahead(f, g, words, static)
  OBVIOUS
<1>4. \A f \in pool : {g \in pool : <<g, f>> \in before} = {g \in pool : Ahead(g, f, words, static)}
  BY <1>3
<1>5. BestRanked(pool, k, words, static) = top
  BY <1>4 DEF BestRanked, FirstOf
<1> HIDE DEF before
<1>6. /\ \A f \in pool : <<f, f>> \notin before
      /\ \A f, g, h \in pool : <<f, g>> \in before /\ <<g, h>> \in before => <<f, h>> \in before
      /\ \A f, g \in pool : f = g \/ <<f, g>> \in before \/ <<g, f>> \in before
  BY <1>3, AheadIsAnOrder
<1>7. IsFiniteSet(top) /\ Cardinality(top) <= k /\ (pool # {} /\ k > 0 => top # {})
  BY <1>2, <1>6, TopOfAnOrder
<1>8. top \subseteq pool
  BY DEF FirstOf
<1> HIDE DEF top
<1> QED
  BY <1>5, <1>7, <1>8

-----------------------------------------------------------------------------
LEMMA WorkShapes ==
    ASSUME NEW w \in AnchorWork
    PROVE  /\ w.at = "record" => w \in RecordWork
           /\ w.at = "reward" => w \in RewardWork
           /\ w.at \in MemoryStages => w \in AttributeWork
<1>1. w = Resting \/ w \in RecordWork \/ w \in RewardWork \/ w \in AttributeWork
  BY DEF AnchorWork
<1>2. /\ w \in RecordWork => w.at = "record"
      /\ w \in RewardWork => w.at = "reward"
      /\ w \in AttributeWork => w.at \in MemoryStages
      /\ "record" \notin MemoryStages /\ "reward" \notin MemoryStages
  BY DEF RecordWork, RewardWork, AttributeWork, MemoryStages
<1>3. Resting.at = "resting" /\ "resting" \notin MemoryStages
  BY DEF Resting, MemoryStages
<1> QED
  BY <1>1, <1>2, <1>3

LEMMA AnchorRestFits == Resting \in AnchorWork /\ WorkFits(Resting) /\ WorkFits(Resting)' /\ Resting.at = "resting"
BY DEF Resting, AnchorWork, WorkFits, MemoryStages

LEMMA AnchorInvStarts == InitAnchors => AnchorInv
<1> SUFFICES ASSUME InitAnchors PROVE AnchorInv
  OBVIOUS
<1>1. LearnerTypeOK
  <2>1. decided = <<>> /\ decided \in Seq(Decision) /\ Len(decided) = 0 /\ 0 <= MaxDecisions
    BY AnchorAssumption DEF InitAnchors
  <2>2. ring \in [Servers -> Seq(Ids)] /\ \A p \in Servers : Len(ring[p]) <= RingSize
    <3>1. <<>> \in Seq(Ids) /\ Len(<<>>) = 0 /\ 0 <= RingSize
      BY AnchorAssumption
    <3> QED
      BY <3>1 DEF InitAnchors
  <2>3. work \in [Servers -> AnchorWork]
    BY AnchorRestFits DEF InitAnchors
  <2>4. /\ firings \in [Scopes -> [Suffixes -> Nat]] /\ wins \in [Scopes -> [Suffixes -> Nat]]
        /\ affinity \in [Words -> [Suffixes -> Nat]] /\ discovered \subseteq Suffixes
        /\ observations \in [Ids -> Observation \cup {Nothing}]
    BY DEF InitAnchors, Ids
  <2> QED
    BY <2>1, <2>2, <2>3, <2>4 DEF LearnerTypeOK
<1>2. AllWorkFits /\ RecordersDiffer
  BY AnchorRestFits DEF InitAnchors, AllWorkFits, RecordersDiffer
<1>3. ObservationsFit /\ CreditsFit /\ DiscoveriesAreNew
  BY DEF InitAnchors, ObservationsFit, ObservationFits, CreditsFit, DiscoveriesAreNew, Ids
<1>4. SuccessFollowsFiring
  BY DEF InitAnchors, SuccessFollowsFiring
<1>5. AnchorsExist
  BY DEF InitAnchors, AnchorsExist
<1>6. FiringsAreSpent
  <2> SUFFICES ASSUME NEW s \in Suffixes PROVE firings["all"][s] <= Cardinality(Spent(s))
    BY DEF FiringsAreSpent
  <2>1. Spent(s) = {} /\ firings["all"][s] = 0
    BY DEF InitAnchors, Spent, Scopes
  <2> QED
    BY <2>1, FS_EmptySet
<1> QED
  BY <1>1, <1>2, <1>3, <1>4, <1>5, <1>6 DEF AnchorInv

(* What a step adds to: what has fired, been decided, saved and observed.  *)
Grown ==
    /\ \A c \in Scopes, s \in Suffixes : FiredIn(c, s) => FiredIn(c, s)'
    /\ Extends(decided', decided)
    /\ stored \subseteq stored'
    /\ \A q \in Ids : observations[q] # Nothing => observations'[q] # Nothing

LEMMA SameIsGrown ==
    ASSUME LearnerTypeOK, UNCHANGED <<firings, uncounted, decided, stored, observations>>
    PROVE  Grown
<1>1. Len(decided) \in Nat
  BY DEF LearnerTypeOK
<1> QED
  BY <1>1 DEF Grown, FiredIn, Extends

LEMMA FiredOn ==
    ASSUME Grown, NEW files \in SUBSET AnchorFiles, HasFired(files)
    PROVE  HasFired(files)'
<1>1. \A f \in files : f[2] \in Suffixes
  BY DEF AnchorFiles
<1> QED
  BY <1>1 DEF Grown, HasFired, Fired

LEMMA WorkFitsOn ==
    ASSUME Grown, NEW w \in AnchorWork, WorkFits(w)
    PROVE  WorkFits(w)'
<1>1. /\ \A i \in 1 .. Len(decided) : i \in 1 .. Len(decided') /\ decided'[i] = decided[i]
      /\ stored \subseteq stored' /\ \A q \in Ids : observations[q] # Nothing => observations'[q] # Nothing
  BY DEF Grown, Extends
<1>2. CASE w.at = "record"
  <2>1. w \in RecordWork
    BY <1>2, WorkShapes
  <2>2. (w.seen.files \ w.todo) \in SUBSET AnchorFiles
    BY <2>1 DEF RecordWork, Observation
  <2>3. HasFired(w.seen.files \ w.todo)'
    BY <1>2, <2>2, FiredOn DEF WorkFits
  <2> QED
    BY <1>1, <1>2, <2>3 DEF WorkFits, MemoryStages
<1>3. CASE w.at = "reward"
  <2>1. w.todo \in SUBSET AnchorFiles
    BY <1>3, WorkShapes DEF RewardWork
  <2>2. HasFired(w.todo)'
    BY <1>3, <2>1, FiredOn DEF WorkFits
  <2> QED
    BY <1>1, <1>3, <2>2 DEF WorkFits, MemoryStages
<1>4. CASE w.at \in MemoryStages
  <2>1. w.todo \subseteq Ids /\ w.file[2] \in Suffixes
    BY <1>4, WorkShapes, AnchorAssumption DEF AttributeWork
  <2>2. FiredIn("repo", w.file[2]) => FiredIn("repo", w.file[2])'
    BY <2>1 DEF Grown, Scopes
  <2> QED
    BY <1>1, <1>4, <2>1, <2>2 DEF WorkFits, MemoryStages
<1>5. CASE w.at \notin {"record", "reward"} \cup MemoryStages
  BY <1>5 DEF WorkFits, MemoryStages
<1> QED
  BY <1>2, <1>3, <1>4, <1>5

LEMMA ObservationFitsOn ==
    ASSUME Grown, NEW q \in Ids, NEW obs \in Observation \cup {Nothing}, ObservationFits(q, obs)
    PROVE  ObservationFits(q, obs)'
<1>1. obs # Nothing => obs.files \in SUBSET AnchorFiles
  BY DEF Observation
<1>2. obs # Nothing => HasFired(obs.files)'
  BY <1>1, FiredOn DEF ObservationFits
<1> QED
  BY <1>2 DEF ObservationFits, Grown, Extends

(* A firing is pending for one process only, and once.                     *)
LEMMA PairsAreFinite ==
    ASSUME NEW n \in Nat, NEW pairs \in SUBSET ((1 .. n) \X AnchorFiles)
    PROVE  IsFiniteSet(pairs)
<1>1. IsFiniteSet(1 .. n) /\ IsFiniteSet(AnchorFiles)
  BY FS_Interval, AnchorAssumption, FS_Product DEF AnchorFiles
<1>2. IsFiniteSet((1 .. n) \X AnchorFiles)
  BY <1>1, FS_Product
<1> QED
  BY <1>2, FS_Subset

LEMMA StepGoesOn ==
    ASSUME AnchorInv, NEW p \in Servers, NEW w \in AnchorWork, Turns(p, w), Grown, WorkFits(w)',
           w.at = "record" =>
               \/ w.query = Len(decided) + 1
               \/ work[p].at = "record" /\ work[p].query = w.query /\ w.todo \subseteq work[p].todo
    PROVE  /\ work' \in [Servers -> AnchorWork] /\ AllWorkFits' /\ RecordersDiffer'
           /\ UNCHANGED observations => ObservationsFit'
           /\ UNCHANGED credited => CreditsFit'
           /\ \A s \in Suffixes : Spent(s) \subseteq Spent(s)'
<1>0. LearnerTypeOK /\ AllWorkFits /\ Len(decided) \in Nat
  BY DEF AnchorInv, LearnerTypeOK
<1>1. work' \in [Servers -> AnchorWork] /\ work'[p] = w /\ \A q \in Servers \ {p} : work'[q] = work[q]
  BY <1>0 DEF LearnerTypeOK, Turns
<1>2. AllWorkFits'
  BY <1>0, <1>1, WorkFitsOn DEF AllWorkFits, LearnerTypeOK
<1>3. \A q \in Servers : work[q].at = "record" => work[q].query \in 1 .. Len(decided)
  BY <1>0 DEF AllWorkFits, WorkFits
<1>4. \A i \in 1 .. Len(decided) : i # Len(decided) + 1
  BY <1>0
<1>5. RecordersDiffer'
  BY <1>1, <1>3, <1>4 DEF AnchorInv, RecordersDiffer
<1>6. UNCHANGED observations => ObservationsFit'
  BY <1>0, ObservationFitsOn DEF AnchorInv, ObservationsFit, LearnerTypeOK
<1>7. UNCHANGED credited => CreditsFit'
  BY DEF AnchorInv, CreditsFit, Grown, Extends
<1>8. ASSUME NEW s \in Suffixes, NEW pair \in Spent(s) PROVE pair \in Spent(s)'
  <2>1. /\ pair \in (1 .. Len(decided)) \X AnchorFiles /\ pair[2] \in decided[pair[1]].files
        /\ pair[2][2] = s /\ ~IsToFire(pair) /\ pair[1] \in 1 .. Len(decided)
    BY <1>8 DEF Spent
  <2>2. pair \in (1 .. Len(decided')) \X AnchorFiles /\ pair[2] \in decided'[pair[1]].files
    BY <2>1 DEF Grown, Extends
  <2>3. ~IsToFire(pair)'
    BY <1>1, <1>4, <2>1 DEF IsToFire
  <2> QED
    BY <2>1, <2>2, <2>3 DEF Spent
<1> QED
  BY <1>1, <1>2, <1>5, <1>6, <1>7, <1>8

-----------------------------------------------------------------------------
LEMMA CountersGrow ==
    ASSUME LearnerTypeOK, UNCHANGED <<decided, stored, observations>>, uncounted \subseteq uncounted',
           \A c \in Scopes, s \in Suffixes : firings'[c][s] \in Nat /\ firings'[c][s] >= firings[c][s]
    PROVE  Grown
<1>1. \A c \in Scopes, s \in Suffixes : firings[c][s] \in Nat /\ (firings[c][s] > 0 => firings'[c][s] > 0)
  BY DEF LearnerTypeOK
<1>2. \A c \in Scopes, s \in Suffixes : FiredIn(c, s) => FiredIn(c, s)'
  BY <1>1 DEF FiredIn
<1>3. Extends(decided', decided)
  BY DEF LearnerTypeOK, Extends
<1> QED
  BY <1>2, <1>3 DEF Grown

LEMMA SpentCounts ==
    ASSUME AnchorInv, LearnerTypeOK', NEW s \in Suffixes, Spent(s) \subseteq Spent(s)'
    PROVE  /\ IsFiniteSet(Spent(s)) /\ IsFiniteSet(Spent(s)')
           /\ Cardinality(Spent(s)) \in Nat /\ Cardinality(Spent(s)') \in Nat
           /\ Cardinality(Spent(s)) <= Cardinality(Spent(s)')
           /\ firings["all"][s] \in Nat /\ firings["all"][s] <= Cardinality(Spent(s))
<1>1. IsFiniteSet(Spent(s)') /\ IsFiniteSet(Spent(s))
  <2>1. Len(decided) \in Nat /\ Len(decided') \in Nat
    BY DEF AnchorInv, LearnerTypeOK
  <2>2. /\ Spent(s) \in SUBSET ((1 .. Len(decided)) \X AnchorFiles)
        /\ Spent(s)' \in SUBSET ((1 .. Len(decided')) \X AnchorFiles)
    BY DEF Spent
  <2> QED
    BY <2>1, <2>2, PairsAreFinite
<1>2. Cardinality(Spent(s)) <= Cardinality(Spent(s)') /\ Cardinality(Spent(s)) \in Nat /\ Cardinality(Spent(s)') \in Nat
  BY <1>1, FS_Subset, FS_CardinalityType
<1>3. firings["all"][s] \in Nat /\ firings["all"][s] <= Cardinality(Spent(s))
  BY DEF AnchorInv, LearnerTypeOK, FiringsAreSpent, Scopes
<1> QED
  BY <1>1, <1>2, <1>3

(* The firings that were counted stay so.                                  *)
LEMMA CountStays ==
    ASSUME AnchorInv, LearnerTypeOK', \A s \in Suffixes : Spent(s) \subseteq Spent(s)',
           \A s \in Suffixes : firings'["all"][s] = firings["all"][s]
    PROVE  FiringsAreSpent'
<1> SUFFICES ASSUME NEW s \in Suffixes PROVE firings'["all"][s] <= Cardinality(Spent(s)')
  BY DEF FiringsAreSpent
<1>1. /\ Cardinality(Spent(s)) \in Nat /\ Cardinality(Spent(s)') \in Nat
      /\ Cardinality(Spent(s)) <= Cardinality(Spent(s)')
      /\ firings["all"][s] \in Nat /\ firings["all"][s] <= Cardinality(Spent(s))
  BY SpentCounts
<1> QED
  BY <1>1

-----------------------------------------------------------------------------
(* What Decide gives a query: few files, some of which exist, and all of   *)
(* which do but for the explored one.                                      *)
LEMMA ChoicesAreSound ==
    ASSUME LearnerTypeOK, NEW words \in SUBSET Words, NEW static \in BOOLEAN,
           NEW pool \in SUBSET AnchorFiles, pool \cap Present # {},
           NEW given \in Choices(pool, words, static)
    PROVE  /\ given \in Decision
           /\ given.files \ given.explored \subseteq Present /\ given.files \cap Present # {}
           /\ Cardinality(given.explored) <= 1 /\ Cardinality(given.files) <= MaxAnchors
<1> DEFINE there == pool \cap Present
           best(k) == BestRanked(there, k, words, static)
<1>1. \/ given = [files |-> best(MaxAnchors), explored |-> {}]
      \/ \E f \in pool : given = [files |-> best(MaxAnchors - 1) \cup {f}, explored |-> {f}]
  BY DEF Choices, Unproven
<1>2. there \in SUBSET AnchorFiles /\ there # {} /\ there \subseteq Present
  OBVIOUS
<1> HIDE DEF there
<1>3. ASSUME NEW k \in Nat, k > 0
      PROVE  /\ best(k) \subseteq AnchorFiles /\ best(k) \subseteq Present /\ best(k) # {}
             /\ IsFiniteSet(best(k)) /\ Cardinality(best(k)) <= k /\ Cardinality(best(k)) \in Nat
  <2>1. /\ best(k) \subseteq there /\ best(k) # {} /\ IsFiniteSet(best(k)) /\ Cardinality(best(k)) <= k
    BY <1>2, <1>3, BestAreFew
  <2> QED
    BY <1>2, <2>1, FS_CardinalityType
<1> HIDE DEF best
<1>4. MaxAnchors \in Nat /\ MaxAnchors > 0 /\ MaxAnchors - 1 \in Nat /\ MaxAnchors - 1 > 0
  BY AnchorAssumption
<1>5. CASE given = [files |-> best(MaxAnchors), explored |-> {}]
  <2>1. given.files = best(MaxAnchors) /\ given.explored = {} /\ Cardinality({}) = 0
    BY <1>5, FS_EmptySet
  <2>2. given \in Decision
    BY <1>3, <1>4, <1>5 DEF Decision
  <2> QED
    BY <1>3, <1>4, <2>1, <2>2
<1>6. ASSUME NEW f \in pool, given = [files |-> best(MaxAnchors - 1) \cup {f}, explored |-> {f}]
      PROVE  /\ given \in Decision
             /\ given.files \ given.explored \subseteq Present /\ given.files \cap Present # {}
             /\ Cardinality(given.explored) <= 1 /\ Cardinality(given.files) <= MaxAnchors
  <2> DEFINE kept == best(MaxAnchors - 1)
  <2>1. /\ kept \subseteq AnchorFiles /\ kept \subseteq Present /\ kept # {}
        /\ IsFiniteSet(kept) /\ Cardinality(kept) <= MaxAnchors - 1 /\ Cardinality(kept) \in Nat
    BY <1>3, <1>4
  <2>2. given.files = kept \cup {f} /\ given.explored = {f}
    BY <1>6
  <2>3. given \in Decision
    BY <1>6, <2>1 DEF Decision
  <2> HIDE DEF kept
  <2>4. Cardinality({f}) = 1
    BY FS_Singleton
  <2>5. Cardinality(kept \cup {f}) = IF f \in kept THEN Cardinality(kept) ELSE Cardinality(kept) + 1
    BY <2>1, FS_AddElement
  <2> QED
    BY <1>4, <2>1, <2>2, <2>3, <2>4, <2>5
<1> QED
  BY <1>1, <1>5, <1>6

(* What AnchorsExist asks of one decision.                                 *)
IsSound(d) ==
    /\ \A f \in d.files \ d.explored : FileOf(f) \in Present
    /\ \E f \in d.files : FileOf(f) \in Present
    /\ Cardinality(d.explored) <= 1
    /\ Cardinality({f \in d.files : f[2] # Controller}) <= MaxAnchors
    /\ Cardinality(d.files) <= MaxAnchors + 1

LEMMA GivenIsSound ==
    ASSUME LearnerTypeOK, NEW words \in SUBSET Words, NEW static \in BOOLEAN,
           NEW pool \in SUBSET AnchorFiles, NEW given \in Given(pool, words, static)
    PROVE  /\ given \in Decision
           /\ given.files \ given.explored \subseteq Present
           /\ given.files = {} \/ given.files \cap Present # {}
           /\ Cardinality(given.explored) <= 1 /\ Cardinality(given.files) <= MaxAnchors
<1>1. CASE pool \cap Present = {}
  <2>1. given.files = {} /\ given.explored = {} /\ given \in Decision
    BY <1>1 DEF Given, NoAnchors, Decision
  <2>2. Cardinality({}) = 0 /\ 0 <= MaxAnchors
    BY FS_EmptySet, AnchorAssumption
  <2> QED
    BY <2>1, <2>2
<1>2. CASE pool \cap Present # {}
  <2>1. given \in Choices(pool, words, static)
    BY <1>2 DEF Given
  <2> QED
    BY <1>2, <2>1, ChoicesAreSound
<1> QED
  BY <1>1, <1>2

LEMMA OneController ==
    ASSUME NEW services \in SUBSET Services, NEW f \in FirstController(services)
    PROVE  /\ FirstController(services) = {f} /\ f \in AnchorFiles
           /\ f[2] = Controller /\ FileOf(f) \in Present
<1>1. PICK s \in services : /\ f = <<s, Controller>> /\ <<s, Noun>> \in Present
                           /\ \A y \in services : <<y, Noun>> \in Present => s <= y
  BY DEF FirstController
<1>2. f \in AnchorFiles /\ f[2] = Controller /\ FileOf(f) \in Present
  BY <1>1, AnchorAssumption DEF AnchorFiles, FileOf
<1>3. ASSUME NEW g \in FirstController(services) PROVE g = f
  <2>1. PICK r \in services : /\ g = <<r, Controller>> /\ <<r, Noun>> \in Present
                             /\ \A y \in services : <<y, Noun>> \in Present => r <= y
    BY DEF FirstController
  <2>2. r \in Nat /\ s \in Nat /\ r <= s /\ s <= r
    BY <1>1, <2>1, AnchorAssumption
  <2>3. r = s
    BY <2>2
  <2> QED
    BY <1>1, <2>1, <2>3
<1> QED
  BY <1>2, <1>3

(* A controller beside what the learner gives.                             *)
LEMMA DecisionIsSound ==
    ASSUME LearnerTypeOK, NEW words \in SUBSET Words, NEW static \in BOOLEAN,
           NEW services \in SUBSET Services, NEW pool \in SUBSET AnchorFiles,
           NEW given \in Given(pool, words, static),
           NEW probed \in {{}, FirstController(services)},
           NEW d, d = [given EXCEPT !.files = given.files \cup probed], d.files # {}
    PROVE  d \in Decision /\ d.files = given.files \cup probed /\ IsSound(d)
<1>1. /\ given \in Decision
      /\ given.files \ given.explored \subseteq Present
      /\ given.files = {} \/ given.files \cap Present # {}
      /\ Cardinality(given.explored) <= 1 /\ Cardinality(given.files) <= MaxAnchors
  BY GivenIsSound
<1>2. probed = {} \/ \E f \in AnchorFiles : probed = {f} /\ f[2] = Controller /\ FileOf(f) \in Present
  BY OneController
<1>3. /\ d.files = given.files \cup probed /\ d.explored = given.explored
      /\ given.files \in SUBSET AnchorFiles /\ given.explored \in SUBSET AnchorFiles
  BY <1>1 DEF Decision
<1>4. d \in Decision
  <2>1. probed \in SUBSET AnchorFiles
    BY <1>2
  <2> QED
    BY <1>1, <1>3, <2>1 DEF Decision
<1>5. \A f \in Present : FileOf(f) = f
  BY AnchorAssumption DEF FileOf
<1>6. \A f \in d.files \ d.explored : FileOf(f) \in Present
  BY <1>1, <1>2, <1>3, <1>5
<1>7. \E f \in d.files : FileOf(f) \in Present
  BY <1>1, <1>2, <1>3, <1>5
<1>8. PICK mine : /\ mine = given.files /\ IsFiniteSet(mine) /\ Cardinality(mine) \in Nat
                  /\ Cardinality(mine) <= MaxAnchors /\ MaxAnchors \in Nat
  <2>1. IsFiniteSet(AnchorFiles)
    BY AnchorAssumption, FS_Product DEF AnchorFiles
  <2>2. IsFiniteSet(given.files) /\ Cardinality(given.files) \in Nat
    BY <1>3, <2>1, FS_Subset, FS_CardinalityType
  <2> QED
    BY <1>1, <2>2, AnchorAssumption
<1>9. PICK own : own = {f \in d.files : f[2] # Controller}
  OBVIOUS
<1>10. Cardinality(own) <= MaxAnchors
  <2>1. own \subseteq mine
    BY <1>2, <1>3, <1>8, <1>9
  <2>2. Cardinality(own) <= Cardinality(mine) /\ Cardinality(own) \in Nat
    BY <1>8, <2>1, FS_Subset, FS_CardinalityType
  <2> QED
    BY <1>8, <2>2
<1>11. PICK sent : sent = d.files
  OBVIOUS
<1>12. Cardinality(sent) <= MaxAnchors + 1
  <2>1. CASE probed = {}
    <3>1. sent = mine
      BY <1>3, <1>8, <1>11, <2>1
    <3> QED
      BY <1>8, <3>1
  <2>2. CASE probed # {}
    <3>1. PICK f : sent = mine \cup {f}
      BY <1>2, <1>3, <1>8, <1>11, <2>2
    <3>2. Cardinality(mine \cup {f}) = IF f \in mine THEN Cardinality(mine) ELSE Cardinality(mine) + 1
      BY <1>8, FS_AddElement
    <3>3. CASE f \in mine
      BY <1>8, <3>1, <3>2, <3>3
    <3>4. CASE f \notin mine
      BY <1>8, <3>1, <3>2, <3>4
    <3> QED
      BY <3>3, <3>4
  <2> QED
    BY <2>1, <2>2
<1> QED
  BY <1>1, <1>3, <1>4, <1>6, <1>7, <1>9, <1>10, <1>11, <1>12 DEF IsSound

LEMMA DecideKeeps ==
    ASSUME AnchorInv, NEW p \in Servers, NEW words \in SUBSET Words, NEW services \in SUBSET Services,
           NEW trace \in BOOLEAN, Decide(p, words, services, trace)
    PROVE  AnchorInv'
<1>0. LearnerTypeOK /\ Len(decided) \in Nat /\ Len(decided) < MaxDecisions /\ decided \in Seq(Decision)
  BY DEF AnchorInv, LearnerTypeOK, Decide
<1>1. UNCHANGED <<firings, wins, affinity, discovered, observations, ring, signals, credited, stored, uncounted>>
  BY DEF Decide, counters
<1>2a. PICK pool \in SUBSET AnchorFiles :
        \E base \in Given(pool, words, trace), probed \in {{}, FirstController(services)} :
            LET files == base.files \cup probed IN
            /\ files # {}
            /\ decided' = Append(decided, [base EXCEPT !.files = files])
            /\ Turns(p, [at |-> "record", query |-> Len(decided) + 1, todo |-> files,
                        seen |-> [files |-> files, words |-> words, services |-> {f[1] : f \in files}]])
  <2>1. PICK known \in {discovered, {}}, docs \in 0 .. 1, asked \in {{}, FirstController(services)} :
           /\ IF known = discovered THEN UNCHANGED mishaps ELSE Fail
           /\ \E given \in Given(services \X (IF trace THEN Static \cup known ELSE known), words, trace) :
                  LET probed == IF docs + Cardinality(given.files) < MaxAnchors + 1 THEN asked ELSE {}
                      files == given.files \cup probed IN
                  /\ files # {}
                  /\ decided' = Append(decided, [given EXCEPT !.files = files])
                  /\ Turns(p, [at |-> "record", query |-> Len(decided) + 1, todo |-> files,
                              seen |-> [files |-> files, words |-> words,
                                        services |-> {f[1] : f \in files}]])
    BY Zenon DEF Decide
  <2>2. PICK pool : pool = services \X (IF trace THEN Static \cup known ELSE known)
    OBVIOUS
  <2>3. pool \in SUBSET AnchorFiles
    BY <1>0, <2>2, AnchorAssumption DEF LearnerTypeOK, AnchorFiles
  <2>4. PICK base \in Given(pool, words, trace) :
                LET probed == IF docs + Cardinality(base.files) < MaxAnchors + 1 THEN asked ELSE {}
                    files == base.files \cup probed IN
                /\ files # {}
                /\ decided' = Append(decided, [base EXCEPT !.files = files])
                /\ Turns(p, [at |-> "record", query |-> Len(decided) + 1, todo |-> files,
                            seen |-> [files |-> files, words |-> words, services |-> {f[1] : f \in files}]])
    BY <2>1, <2>2
  <2>5. PICK probed : probed = IF docs + Cardinality(base.files) < MaxAnchors + 1 THEN asked ELSE {}
    OBVIOUS
  <2>6. probed \in {{}, FirstController(services)}
    BY <2>5
  <2> QED
    BY <2>3, <2>4, <2>5, <2>6
<1>2. PICK base \in Given(pool, words, trace), probed \in {{}, FirstController(services)} :
        LET files == base.files \cup probed IN
        /\ files # {}
        /\ decided' = Append(decided, [base EXCEPT !.files = files])
        /\ Turns(p, [at |-> "record", query |-> Len(decided) + 1, todo |-> files,
                    seen |-> [files |-> files, words |-> words, services |-> {f[1] : f \in files}]])
  BY <1>2a
<1>3. PICK given : /\ given \in Decision /\ IsSound(given) /\ decided' = Append(decided, given)
                   /\ Turns(p, [at |-> "record", query |-> Len(decided) + 1, todo |-> given.files,
                               seen |-> [files |-> given.files, words |-> words,
                                         services |-> {f[1] : f \in given.files}]])
  <2>1. PICK given : given = [base EXCEPT !.files = base.files \cup probed]
    OBVIOUS
  <2>2. base \in Decision
    BY <1>0, GivenIsSound
  <2>3. given.files = base.files \cup probed
    BY <2>1, <2>2 DEF Decision
  <2>4. given \in Decision /\ IsSound(given)
    BY <1>0, <1>2, <2>1, <2>3, DecisionIsSound
  <2> QED
    BY <1>2, <2>1, <2>3, <2>4
<1>4. given.files \in SUBSET AnchorFiles
  BY <1>3 DEF Decision
<1>5. PICK seen : seen = [files |-> given.files, words |-> words, services |-> {f[1] : f \in given.files}]
  OBVIOUS
<1>6. PICK w : w = [at |-> "record", query |-> Len(decided) + 1, todo |-> given.files, seen |-> seen]
  OBVIOUS
<1>7. seen \in Observation /\ seen.files = given.files
  BY <1>4, <1>5 DEF Observation, AnchorFiles
<1>8. /\ w \in AnchorWork /\ w.at = "record" /\ w.query = Len(decided) + 1
      /\ w.todo = given.files /\ w.seen.files = given.files
  <2>1. Len(decided) + 1 \in Ids
    BY <1>0, AnchorAssumption DEF Ids
  <2>2. w \in RecordWork
    BY <1>4, <1>6, <1>7, <2>1 DEF RecordWork
  <2> QED
    BY <1>6, <1>7, <2>2 DEF AnchorWork
<1>9. Turns(p, w) /\ decided' = Append(decided, given)
  BY <1>3, <1>5, <1>6
<1>10. /\ decided' \in Seq(Decision) /\ Extends(decided', decided) /\ Len(decided') = Len(decided) + 1
       /\ decided'[Len(decided) + 1] = given
  <2>1. decided \in Seq(Decision) /\ given \in Decision /\ decided' = Append(decided, given)
    BY <1>0, <1>3, <1>9
  <2> QED
    BY <2>1 DEF Extends
<1>11. Grown
  BY <1>1, <1>10 DEF Grown, FiredIn
<1>12. WorkFits(w)'
  <2>1. w.query \in 1 .. Len(decided') /\ w.seen.files = decided'[w.query].files
    BY <1>0, <1>8, <1>10
  <2>2. w.seen.files \ w.todo = {}
    BY <1>8
  <2> QED
    BY <1>8, <2>1, <2>2 DEF WorkFits, HasFired, MemoryStages
<1>14. /\ work' \in [Servers -> AnchorWork] /\ AllWorkFits' /\ RecordersDiffer'
       /\ ObservationsFit' /\ CreditsFit' /\ \A s \in Suffixes : Spent(s) \subseteq Spent(s)'
  BY <1>1, <1>8, <1>9, <1>11, <1>12, StepGoesOn
<1>15. LearnerTypeOK'
  <2>1. Len(decided') <= MaxDecisions
    BY <1>0, <1>10, AnchorAssumption
  <2> QED
    BY <1>0, <1>1, <1>10, <1>14, <2>1 DEF LearnerTypeOK
<1>16. FiringsAreSpent'
  BY <1>1, <1>14, <1>15, CountStays
<1>17. AnchorsExist'
  <2> SUFFICES ASSUME NEW q \in 1 .. Len(decided') PROVE IsSound(decided'[q])
    BY DEF AnchorsExist, IsSound
  <2>1. CASE q \in 1 .. Len(decided)
    <3>1. decided'[q] = decided[q]
      BY <1>10, <2>1 DEF Extends
    <3> QED
      BY <2>1, <3>1 DEF AnchorInv, AnchorsExist, IsSound
  <2>2. CASE q = Len(decided) + 1
    BY <1>3, <1>10, <2>2
  <2> QED
    BY <1>0, <1>10, <2>1, <2>2
<1>18. SuccessFollowsFiring' /\ DiscoveriesAreNew'
  BY <1>1 DEF AnchorInv, SuccessFollowsFiring, DiscoveriesAreNew
<1> QED
  BY <1>14, <1>15, <1>16, <1>17, <1>18 DEF AnchorInv

LEMMA FireKeeps ==
    ASSUME AnchorInv, NEW p \in Servers, NEW f \in AnchorFiles, Fire(p, f)
    PROVE  AnchorInv'
<1>0. LearnerTypeOK /\ AllWorkFits /\ work[p] \in AnchorWork /\ WorkFits(work[p]) /\ f[2] \in Suffixes
  BY DEF AnchorInv, LearnerTypeOK, AllWorkFits, AnchorFiles
<1>1. /\ work[p].at = "record" /\ f \in work[p].todo /\ Turns(p, [work[p] EXCEPT !.todo = @ \ {f}])
      /\ UNCHANGED <<wins, affinity, discovered, observations, ring, signals, decided, credited, stored>>
  BY DEF Fire, Doing
<1>2. PICK missed \in SUBSET Scopes :
        /\ firings' = [c \in Scopes |-> IF c \in missed THEN firings[c]
                                        ELSE [firings[c] EXCEPT ![f[2]] = @ + 1]]
        /\ uncounted' = uncounted \cup {<<c, f[2]>> : c \in missed}
  BY DEF Fire
<1>3. work[p] \in RecordWork
  BY <1>0, <1>1, WorkShapes
<1>4. PICK w : w = [work[p] EXCEPT !.todo = @ \ {f}]
  OBVIOUS
<1>5. /\ w \in RecordWork /\ w \in AnchorWork /\ w.at = "record" /\ w.query = work[p].query
      /\ w.seen = work[p].seen /\ w.todo = work[p].todo \ {f}
  BY <1>3, <1>4 DEF RecordWork, AnchorWork
<1>6. Turns(p, w)
  BY <1>1, <1>4
<1>7. ASSUME NEW c \in Scopes, NEW s \in Suffixes
      PROVE  /\ firings[c][s] \in Nat
             /\ firings'[c][s] = IF c \notin missed /\ s = f[2] THEN firings[c][s] + 1 ELSE firings[c][s]
  BY <1>0, <1>2 DEF LearnerTypeOK
<1>8. firings' \in [Scopes -> [Suffixes -> Nat]]
  <2>1. \A c \in Scopes : firings[c] \in [Suffixes -> Nat] /\ [firings[c] EXCEPT ![f[2]] = @ + 1] \in [Suffixes -> Nat]
    BY <1>0 DEF LearnerTypeOK
  <2> QED
    BY <1>2, <2>1
<1>9. Grown
  BY <1>0, <1>1, <1>2, <1>7, CountersGrow
<1>10. Fired(f[2])'
  BY <1>0, <1>2, <1>7 DEF Fired, FiredIn
<1>11. WorkFits(w)'
  <2>1. /\ work[p].query \in 1 .. Len(decided) /\ work[p].seen.files = decided[work[p].query].files
        /\ work[p].todo \subseteq work[p].seen.files /\ HasFired(work[p].seen.files \ work[p].todo)
    BY <1>0, <1>1 DEF WorkFits
  <2>2. (work[p].seen.files \ work[p].todo) \in SUBSET AnchorFiles
    BY <1>3 DEF RecordWork, Observation
  <2>3. \A g \in w.seen.files \ w.todo : g = f \/ g \in work[p].seen.files \ work[p].todo
    BY <1>5
  <2>4. \A g \in work[p].seen.files \ work[p].todo : g[2] \in Suffixes /\ Fired(g[2])
    BY <2>1, <2>2 DEF HasFired, AnchorFiles
  <2>5. \A g \in w.seen.files \ w.todo : Fired(g[2])'
    BY <1>9, <1>10, <2>3, <2>4 DEF Grown, Fired
  <2> QED
    BY <1>1, <1>5, <2>1, <2>5 DEF WorkFits, HasFired, MemoryStages
<1>12. /\ work' \in [Servers -> AnchorWork] /\ AllWorkFits' /\ RecordersDiffer'
       /\ ObservationsFit' /\ CreditsFit' /\ \A s \in Suffixes : Spent(s) \subseteq Spent(s)'
  BY <1>1, <1>5, <1>6, <1>9, <1>11, StepGoesOn
<1>13. LearnerTypeOK'
  BY <1>0, <1>1, <1>8, <1>12 DEF LearnerTypeOK
<1>14. FiringsAreSpent'
  <2> SUFFICES ASSUME NEW s \in Suffixes PROVE firings'["all"][s] <= Cardinality(Spent(s)')
    BY DEF FiringsAreSpent
  <2>1. /\ IsFiniteSet(Spent(s)) /\ IsFiniteSet(Spent(s)')
        /\ Cardinality(Spent(s)) \in Nat /\ Cardinality(Spent(s)') \in Nat
        /\ Cardinality(Spent(s)) <= Cardinality(Spent(s)')
        /\ firings["all"][s] \in Nat /\ firings["all"][s] <= Cardinality(Spent(s))
    BY <1>12, <1>13, SpentCounts
  <2>2. CASE firings'["all"][s] = firings["all"][s]
    BY <2>1, <2>2
  <2>3. CASE s = f[2] /\ firings'["all"][s] = firings["all"][s] + 1
    <3>0. PICK pair : pair = <<work[p].query, f>>
      OBVIOUS
    <3>1. pair[1] = work[p].query /\ pair[2] = f /\ pair[2][2] = s
      BY <2>3, <3>0
    <3>2. pair \notin Spent(s)
      BY <1>1, <3>1 DEF Spent, IsToFire
    <3>3. work[p].query \in 1 .. Len(decided) /\ f \in decided[work[p].query].files
      BY <1>0, <1>1 DEF WorkFits
    <3>4. ~IsToFire(pair)'
      <4>1. work'[p] = w
        BY <1>0, <1>6 DEF Turns, LearnerTypeOK
      <4> SUFFICES ASSUME NEW q \in Servers, work'[q].at = "record", work'[q].query = work[p].query,
                          f \in work'[q].todo
                   PROVE FALSE
        BY <3>1 DEF IsToFire
      <4>2. q = p
        BY <1>5, <1>12, <4>1 DEF RecordersDiffer
      <4> QED
        BY <1>5, <4>1, <4>2
    <3>5. pair \in Spent(s)'
      <4>1. decided' = decided /\ pair \in (1 .. Len(decided')) \X AnchorFiles
        BY <1>1, <3>0, <3>3
      <4>2. pair[2] \in decided'[pair[1]].files
        BY <3>1, <3>3, <4>1
      <4> QED
        BY <3>1, <3>4, <4>1, <4>2 DEF Spent
    <3>6. Spent(s) \cup {pair} \in SUBSET Spent(s)'
      BY <1>12, <3>5
    <3>7. Cardinality(Spent(s) \cup {pair}) = Cardinality(Spent(s)) + 1
      BY <2>1, <3>2, FS_AddElement
    <3>8. Cardinality(Spent(s) \cup {pair}) <= Cardinality(Spent(s)')
      BY <2>1, <3>6, FS_Subset
    <3> QED
      BY <2>1, <2>3, <3>7, <3>8
  <2> QED
    BY <1>7, <2>2, <2>3 DEF Scopes
<1>15. SuccessFollowsFiring'
  <2>1. wins' = wins /\ uncounted \subseteq uncounted'
    BY <1>1, <1>2
  <2>2. \A c \in Scopes, s \in Suffixes : firings[c][s] > 0 => firings'[c][s] > 0
    BY <1>7
  <2> QED
    BY <2>1, <2>2 DEF AnchorInv, SuccessFollowsFiring
<1>16. AnchorsExist' /\ DiscoveriesAreNew'
  BY <1>1 DEF AnchorInv, AnchorsExist, DiscoveriesAreNew
<1> QED
  BY <1>12, <1>13, <1>14, <1>15, <1>16 DEF AnchorInv

LEMMA PushedFits ==
    ASSUME NEW ids \in Seq(Ids), NEW q \in Ids, Len(ids) <= RingSize
    PROVE  Pushed(ids, q) \in Seq(Ids) /\ Len(Pushed(ids, q)) <= RingSize
<1>1. RingSize \in Nat /\ RingSize > 0 /\ Len(ids) \in Nat
  BY AnchorAssumption
<1>2. CASE Len(ids) >= RingSize
  <2>1. ids # <<>>
    BY <1>1, <1>2
  <2>2. Tail(ids) \in Seq(Ids) /\ Len(Tail(ids)) = Len(ids) - 1
    BY <2>1
  <2> HIDE DEF Ids
  <2>3. Append(Tail(ids), q) \in Seq(Ids) /\ Len(Append(Tail(ids), q)) = Len(ids)
    BY <1>1, <2>2
  <2> QED
    BY <1>2, <2>3 DEF Pushed
<1>3. CASE ~(Len(ids) >= RingSize)
  BY <1>1, <1>3 DEF Pushed
<1> QED
  BY <1>2, <1>3

LEMMA PutObservationKeeps == ASSUME AnchorInv, NEW p \in Servers, PutObservation(p) PROVE AnchorInv'
<1>0. LearnerTypeOK /\ AllWorkFits /\ work[p] \in AnchorWork /\ WorkFits(work[p])
  BY DEF AnchorInv, LearnerTypeOK, AllWorkFits
<1>1. /\ work[p].at = "record" /\ work[p].todo = {} /\ Turns(p, Resting)
      /\ observations' = observations \/ observations' = [observations EXCEPT ![work[p].query] = work[p].seen]
      /\ ring' = [ring EXCEPT ![p] = Pushed(@, work[p].query)]
      /\ UNCHANGED <<firings, wins, affinity, discovered, signals, decided, credited, stored, uncounted>>
  BY DEF PutObservation, Doing, counters
<1>2. PICK query, seen : query = work[p].query /\ seen = work[p].seen
  OBVIOUS
<1>3. query \in Ids /\ seen \in Observation /\ seen # Nothing
  BY <1>0, <1>1, <1>2, WorkShapes, AnchorAssumption DEF RecordWork
<1>4. ObservationFits(query, seen)
  <2>1. seen.files \ {} = seen.files
    OBVIOUS
  <2> QED
    BY <1>0, <1>1, <1>2, <2>1 DEF WorkFits, ObservationFits
<1>5. /\ observations' \in [Ids -> Observation \cup {Nothing}]
      /\ \A q \in Ids : observations[q] # Nothing => observations'[q] # Nothing
      /\ \A q \in Ids : ObservationFits(q, observations'[q])
  <2>1. observations \in [Ids -> Observation \cup {Nothing}] /\ \A q \in Ids : ObservationFits(q, observations[q])
    BY <1>0 DEF LearnerTypeOK, AnchorInv, ObservationsFit
  <2> QED
    BY <1>1, <1>2, <1>3, <1>4, <2>1
<1>6. Grown
  <2>1. Len(decided) \in Nat
    BY <1>0 DEF LearnerTypeOK
  <2> QED
    BY <1>1, <1>5, <2>1 DEF Grown, FiredIn, Extends
<1>7. Resting \in AnchorWork /\ WorkFits(Resting)' /\ Resting.at # "record"
  BY AnchorRestFits
<1>8. /\ work' \in [Servers -> AnchorWork] /\ AllWorkFits' /\ RecordersDiffer'
      /\ CreditsFit' /\ \A s \in Suffixes : Spent(s) \subseteq Spent(s)'
  BY <1>1, <1>6, <1>7, StepGoesOn
<1>9. ObservationsFit'
  BY <1>5, <1>6, ObservationFitsOn DEF ObservationsFit
<1>10. ring' \in [Servers -> Seq(Ids)] /\ \A q \in Servers : Len(ring'[q]) <= RingSize
  <2>1. ring \in [Servers -> Seq(Ids)] /\ \A q \in Servers : Len(ring[q]) <= RingSize
    BY <1>0 DEF LearnerTypeOK
  <2>2. Pushed(ring[p], query) \in Seq(Ids) /\ Len(Pushed(ring[p], query)) <= RingSize
    BY <1>3, <2>1, PushedFits
  <2> QED
    BY <1>1, <1>2, <2>1, <2>2
<1>11. LearnerTypeOK'
  BY <1>0, <1>1, <1>5, <1>8, <1>10 DEF LearnerTypeOK
<1>12. FiringsAreSpent'
  BY <1>1, <1>8, <1>11, CountStays
<1>13. SuccessFollowsFiring' /\ AnchorsExist' /\ DiscoveriesAreNew'
  BY <1>1 DEF AnchorInv, SuccessFollowsFiring, AnchorsExist, DiscoveriesAreNew
<1> QED
  BY <1>8, <1>9, <1>11, <1>12, <1>13 DEF AnchorInv

-----------------------------------------------------------------------------
(* A success is counted of a pattern that has fired.                       *)
LEMMA WinKeeps ==
    ASSUME AnchorInv, NEW s \in Suffixes, NEW words, NEW weight \in Nat, Win(s, words, weight),
           Fired(s), UNCHANGED <<firings, uncounted>>
    PROVE  /\ wins' \in [Scopes -> [Suffixes -> Nat]] /\ affinity' \in [Words -> [Suffixes -> Nat]]
           /\ SuccessFollowsFiring'
<1>1. PICK missed \in SUBSET Scopes :
        /\ wins' = [c \in Scopes |-> IF c \in missed THEN wins[c]
                                     ELSE [wins[c] EXCEPT ![s] = @ + weight]]
        /\ affinity' = [w \in Words |-> IF w \in words THEN [affinity[w] EXCEPT ![s] = @ + weight]
                                        ELSE affinity[w]]
  BY DEF Win
<1>2. wins \in [Scopes -> [Suffixes -> Nat]] /\ affinity \in [Words -> [Suffixes -> Nat]]
  BY DEF AnchorInv, LearnerTypeOK
<1>3. wins' \in [Scopes -> [Suffixes -> Nat]]
  <2>1. \A c \in Scopes : wins[c] \in [Suffixes -> Nat] /\ [wins[c] EXCEPT ![s] = @ + weight] \in [Suffixes -> Nat]
    BY <1>2
  <2> QED
    BY <1>1, <2>1
<1>4. affinity' \in [Words -> [Suffixes -> Nat]]
  <2>1. \A w \in Words : affinity[w] \in [Suffixes -> Nat] /\ [affinity[w] EXCEPT ![s] = @ + weight] \in [Suffixes -> Nat]
    BY <1>2
  <2> QED
    BY <1>1, <2>1
<1>5. \A c \in Scopes, x \in Suffixes : x # s => wins'[c][x] = wins[c][x]
  BY <1>1, <1>2
<1>6. SuccessFollowsFiring'
  <2> SUFFICES ASSUME NEW c \in Scopes, NEW x \in Suffixes, wins'[c][x] > 0, <<c, x>> \notin uncounted
               PROVE  firings[c][x] > 0
    BY DEF SuccessFollowsFiring
  <2>1. CASE x = s
    BY <2>1 DEF Fired, FiredIn
  <2>2. CASE x # s
    BY <1>5, <2>2 DEF AnchorInv, SuccessFollowsFiring
  <2> QED
    BY <2>1, <2>2
<1> QED
  BY <1>3, <1>4, <1>6

LEMMA RewardFeedbackKeeps ==
    ASSUME AnchorInv, NEW p \in Servers, NEW q \in 1 .. Len(decided), NEW success \in BOOLEAN,
           NEW read \in SUBSET Present, RewardFeedback(p, q, read, success)
    PROVE  AnchorInv'
<1>0. LearnerTypeOK /\ Len(decided) \in Nat /\ Len(decided) <= MaxDecisions
  BY DEF AnchorInv, LearnerTypeOK
<1>1. UNCHANGED <<firings, wins, affinity, discovered, observations, ring, decided, credited, stored, uncounted>>
  BY DEF RewardFeedback, counters
<1>2. PICK hits : hits = {f \in observations[q].files : FileOf(f) \in read}
  OBVIOUS
<1>3. PICK w : w = IF hits = {} THEN Resting
                   ELSE [at |-> "reward", query |-> q, words |-> observations[q].words, todo |-> hits,
                         weight |-> IF success THEN 2 ELSE 1]
  OBVIOUS
<1>4. Turns(p, w) /\ observations[q] # Nothing
  BY <1>2, <1>3 DEF RewardFeedback
<1>5. /\ q \in Ids /\ observations[q] \in Observation /\ observations[q].files = decided[q].files
      /\ HasFired(observations[q].files)
  BY <1>0, <1>4, AnchorAssumption DEF Ids, AnchorInv, LearnerTypeOK, ObservationsFit, ObservationFits
<1>6. Grown
  BY <1>0, <1>1, SameIsGrown
<1>7. w \in AnchorWork /\ w.at # "record" /\ WorkFits(w)
  <2>1. CASE hits = {}
    BY <1>3, <2>1, AnchorRestFits
  <2>2. CASE hits # {}
    <3>1. w = [at |-> "reward", query |-> q, words |-> observations[q].words, todo |-> hits,
               weight |-> IF success THEN 2 ELSE 1]
      BY <1>3, <2>2
    <3>2. hits \in SUBSET AnchorFiles /\ observations[q].words \in SUBSET Words /\ (IF success THEN 2 ELSE 1) \in {1, 2}
      BY <1>2, <1>5 DEF Observation
    <3>3. w \in RewardWork /\ w.at = "reward" /\ w.query = q /\ w.todo = hits
      BY <1>5, <3>1, <3>2 DEF RewardWork
    <3>4. hits \subseteq decided[q].files /\ HasFired(hits)
      BY <1>2, <1>5 DEF HasFired
    <3> QED
      BY <3>3, <3>4 DEF AnchorWork, WorkFits, MemoryStages
  <2> QED
    BY <2>1, <2>2
<1>8. WorkFits(w)'
  BY <1>6, <1>7, WorkFitsOn
<1>9. /\ work' \in [Servers -> AnchorWork] /\ AllWorkFits' /\ RecordersDiffer'
      /\ ObservationsFit' /\ CreditsFit' /\ \A s \in Suffixes : Spent(s) \subseteq Spent(s)'
  BY <1>1, <1>4, <1>6, <1>7, <1>8, StepGoesOn
<1>10. LearnerTypeOK'
  BY <1>0, <1>1, <1>9 DEF LearnerTypeOK
<1>11. FiringsAreSpent'
  BY <1>1, <1>9, <1>10, CountStays
<1>12. SuccessFollowsFiring' /\ AnchorsExist' /\ DiscoveriesAreNew'
  BY <1>1 DEF AnchorInv, SuccessFollowsFiring, AnchorsExist, DiscoveriesAreNew
<1> QED
  BY <1>9, <1>10, <1>11, <1>12 DEF AnchorInv

LEMMA RewardKeeps ==
    ASSUME AnchorInv, NEW p \in Servers, NEW f \in AnchorFiles, Reward(p, f)
    PROVE  AnchorInv'
<1>0. LearnerTypeOK /\ work[p] \in AnchorWork /\ WorkFits(work[p]) /\ f[2] \in Suffixes
  BY DEF AnchorInv, LearnerTypeOK, AllWorkFits, AnchorFiles
<1>1. /\ work[p].at = "reward" /\ f \in work[p].todo
      /\ Win(f[2], work[p].words, work[p].weight) /\ credited' = credited \cup {<<work[p].query, f>>}
      /\ UNCHANGED <<firings, discovered, observations, ring, signals, decided, stored, uncounted>>
  BY DEF Reward, Doing
<1>2. PICK w : w = IF work[p].todo = {f} THEN Resting ELSE [work[p] EXCEPT !.todo = @ \ {f}]
  OBVIOUS
<1>3. Turns(p, w)
  BY <1>2 DEF Reward
<1>4. work[p] \in RewardWork /\ work[p].weight \in Nat
  BY <1>0, <1>1, WorkShapes DEF RewardWork
<1>5. /\ work[p].query \in 1 .. Len(decided) /\ work[p].todo \subseteq decided[work[p].query].files
      /\ HasFired(work[p].todo) /\ Fired(f[2])
  BY <1>0, <1>1 DEF WorkFits, HasFired
<1>6. Grown
  BY <1>0, <1>1, SameIsGrown
<1>7. w \in AnchorWork /\ w.at # "record" /\ WorkFits(w)
  <2>1. CASE w = Resting
    BY <2>1, AnchorRestFits
  <2>2. CASE w = [work[p] EXCEPT !.todo = @ \ {f}]
    <3>1. w \in RewardWork /\ w.at = "reward" /\ w.query = work[p].query /\ w.todo = work[p].todo \ {f}
      BY <1>4, <2>2 DEF RewardWork
    <3> QED
      BY <1>5, <3>1 DEF AnchorWork, WorkFits, HasFired, MemoryStages
  <2> QED
    BY <1>2, <2>1, <2>2
<1>8. WorkFits(w)'
  BY <1>6, <1>7, WorkFitsOn
<1>9. /\ work' \in [Servers -> AnchorWork] /\ AllWorkFits' /\ RecordersDiffer'
      /\ ObservationsFit' /\ \A s \in Suffixes : Spent(s) \subseteq Spent(s)'
  BY <1>1, <1>3, <1>6, <1>7, <1>8, StepGoesOn
<1>10. CreditsFit'
  <2>1. CreditsFit /\ f \in decided[work[p].query].files
    BY <1>1, <1>5 DEF AnchorInv
  <2> QED
    BY <1>1, <1>5, <2>1 DEF CreditsFit
<1>11. /\ wins' \in [Scopes -> [Suffixes -> Nat]] /\ affinity' \in [Words -> [Suffixes -> Nat]]
       /\ SuccessFollowsFiring'
  BY <1>0, <1>1, <1>4, <1>5, WinKeeps
<1>12. LearnerTypeOK'
  BY <1>0, <1>1, <1>9, <1>11 DEF LearnerTypeOK
<1>13. FiringsAreSpent'
  BY <1>1, <1>9, <1>12, CountStays
<1>14. AnchorsExist' /\ DiscoveriesAreNew'
  BY <1>1 DEF AnchorInv, AnchorsExist, DiscoveriesAreNew
<1> QED
  BY <1>9, <1>10, <1>11, <1>12, <1>13, <1>14 DEF AnchorInv

LEMMA SaveMemoryKeeps ==
    ASSUME AnchorInv, NEW p \in Servers, NEW f \in Present, SaveMemory(p, f)
    PROVE  AnchorInv'
<1>0. LearnerTypeOK /\ Len(decided) \in Nat /\ Len(decided) <= MaxDecisions
  BY DEF AnchorInv, LearnerTypeOK
<1>1. /\ UNCHANGED <<firings, wins, affinity, discovered, observations, ring, decided, credited, uncounted>>
      /\ stored' = stored \cup {f}
  BY DEF SaveMemory, counters
<1>2. PICK kept : kept = {q \in 1 .. Len(decided) :
                            observations[q] # Nothing /\ \E i \in 1 .. Len(ring[p]) : ring[p][i] = q}
  OBVIOUS
<1>3. PICK todo \in SUBSET kept : Turns(p, [at |-> "attribute", file |-> f, todo |-> todo])
  <2>1. \E unseen \in SUBSET kept : Turns(p, [at |-> "attribute", file |-> f, todo |-> kept \ unseen])
    BY <1>2 DEF SaveMemory
  <2> QED
    BY <2>1
<1>4. PICK w : w = [at |-> "attribute", file |-> f, todo |-> todo]
  OBVIOUS
<1>5. todo \in SUBSET Ids /\ \A q \in todo : observations[q] # Nothing
  <2>1. \A q \in kept : q \in 1 .. Len(decided) /\ observations[q] # Nothing
    BY <1>2
  <2>2. 1 .. Len(decided) \subseteq Ids
    BY <1>0, AnchorAssumption DEF Ids
  <2> QED
    BY <2>1, <2>2
<1>6. Grown
  BY <1>0, <1>1 DEF Grown, FiredIn, Extends
<1>7. w \in AnchorWork /\ w.at = "attribute" /\ w.file = f /\ w.todo = todo /\ Turns(p, w)
  <2>1. w \in AttributeWork
    BY <1>4, <1>5 DEF AttributeWork, MemoryStages
  <2> QED
    BY <1>3, <1>4, <2>1 DEF AnchorWork
<1>8. WorkFits(w)'
  BY <1>1, <1>5, <1>7 DEF WorkFits
<1>9. /\ work' \in [Servers -> AnchorWork] /\ AllWorkFits' /\ RecordersDiffer'
      /\ ObservationsFit' /\ CreditsFit' /\ \A s \in Suffixes : Spent(s) \subseteq Spent(s)'
  BY <1>1, <1>6, <1>7, <1>8, StepGoesOn
<1>10. LearnerTypeOK'
  BY <1>0, <1>1, <1>9 DEF LearnerTypeOK
<1>11. FiringsAreSpent'
  BY <1>1, <1>9, <1>10, CountStays
<1>12. SuccessFollowsFiring' /\ AnchorsExist' /\ DiscoveriesAreNew'
  BY <1>1 DEF AnchorInv, SuccessFollowsFiring, AnchorsExist, DiscoveriesAreNew
<1> QED
  BY <1>9, <1>10, <1>11, <1>12 DEF AnchorInv

-----------------------------------------------------------------------------
(* Whatever a process does next about a memory, it is about a file that    *)
(* was saved and queries that were observed.                               *)
Staged(w, at, todo) == [w EXCEPT !.at = at, !.todo = todo]

LEMMA MemoryWorkGoesOn ==
    ASSUME NEW w \in AttributeWork, NEW at \in MemoryStages, NEW todo \in SUBSET w.todo,
           NEW next, next = Staged(w, at, todo)
    PROVE  /\ next \in AttributeWork /\ next \in AnchorWork /\ next.at = at /\ next.at # "record"
           /\ next.file = w.file
           /\ WorkFits(w) /\ at = "attribute" => WorkFits(next)
           /\ WorkFits(w) /\ at = "discover" /\ w.file[2] \notin Static => WorkFits(next)
           /\ WorkFits(w)' /\ at \in {"attribute", "seedFiring"} => WorkFits(next)'
           /\ WorkFits(w)' /\ at = "seedWin" /\ FiredIn("repo", w.file[2])' => WorkFits(next)'
<1>1. /\ w.at \in MemoryStages /\ w.file \in Present /\ w.todo \in SUBSET Ids
      /\ w = [at |-> w.at, file |-> w.file, todo |-> w.todo]
  BY DEF AttributeWork
<1>2. next = [at |-> at, file |-> w.file, todo |-> todo]
  BY <1>1 DEF Staged
<1>3. next \in AttributeWork /\ next \in AnchorWork /\ next.at = at /\ next.file = w.file /\ next.todo = todo
  BY <1>1, <1>2 DEF AttributeWork, AnchorWork
<1>4. WorkFits(w) => w.file \in stored /\ \A r \in w.todo : observations[r] # Nothing
  BY <1>1 DEF WorkFits
<1>5. WorkFits(w)' => w.file \in stored' /\ \A r \in w.todo : observations'[r] # Nothing
  BY <1>1 DEF WorkFits
<1>6. at # "record" /\ at # "reward"
  BY DEF MemoryStages
<1> QED
  BY <1>3, <1>4, <1>5, <1>6 DEF WorkFits

LEMMA AttributeKeeps ==
    ASSUME AnchorInv, NEW p \in Servers, Attribute(p)
    PROVE  AnchorInv'
<1>0. LearnerTypeOK
  BY DEF AnchorInv
<1>1. PICK w : w = work[p]
  OBVIOUS
<1>2. /\ w \in AttributeWork /\ w.at = "attribute" /\ WorkFits(w)
      /\ w.file \in Present /\ w.todo \in SUBSET Ids /\ w.file[2] \in Suffixes
  <2>1. w \in AnchorWork /\ WorkFits(w) /\ w.at = "attribute" /\ w.at \in MemoryStages
    BY <1>0, <1>1 DEF LearnerTypeOK, AnchorInv, AllWorkFits, Attribute, Doing, MemoryStages
  <2>2. w \in AttributeWork
    BY <2>1, WorkShapes
  <2>3. w.file \in Present /\ w.todo \in SUBSET Ids
    BY <2>2 DEF AttributeWork
  <2>4. w.file[2] \in Suffixes
    BY <2>3, AnchorAssumption
  <2> QED
    BY <2>1, <2>2, <2>3, <2>4
<1>3. UNCHANGED <<firings, discovered, observations, ring, signals, decided, stored, uncounted>>
  BY DEF Attribute
<1>4. Grown
  BY <1>0, <1>3, SameIsGrown
<1>5. PICK next : /\ next \in AnchorWork /\ next.at # "record" /\ WorkFits(next) /\ Turns(p, next)
                  /\ \/ UNCHANGED <<wins, affinity, credited>>
                     \/ \E q \in w.todo : \E f \in observations[q].files :
                            Win(f[2], observations[q].words, 1) /\ credited' = credited \cup {<<q, f>>}
  <2>1. CASE Turns(p, Resting) /\ UNCHANGED <<wins, affinity, credited>>
    BY <2>1, AnchorRestFits
  <2>2. CASE \E q \in w.todo : /\ Turns(p, [w EXCEPT !.todo = @ \ {q}])
                               /\ \/ UNCHANGED <<wins, affinity, credited>>
                                  \/ \E f \in observations[q].files :
                                         /\ Win(f[2], observations[q].words, 1)
                                         /\ credited' = credited \cup {<<q, f>>}
    <3>1. PICK q \in w.todo : /\ Turns(p, [w EXCEPT !.todo = @ \ {q}])
                              /\ \/ UNCHANGED <<wins, affinity, credited>>
                                 \/ \E f \in observations[q].files :
                                        /\ Win(f[2], observations[q].words, 1)
                                        /\ credited' = credited \cup {<<q, f>>}
      BY <2>2
    <3>2. PICK next : next = Staged(w, "attribute", w.todo \ {q})
      OBVIOUS
    <3>3. next = [w EXCEPT !.todo = @ \ {q}]
      BY <1>2, <3>2 DEF AttributeWork, Staged
    <3>4. "attribute" \in MemoryStages /\ w.todo \ {q} \in SUBSET w.todo
      BY DEF MemoryStages
    <3>5. next \in AnchorWork /\ next.at # "record" /\ WorkFits(next)
      BY <1>2, <3>2, <3>4, MemoryWorkGoesOn
    <3> QED
      BY <3>1, <3>3, <3>5
  <2>3. CASE /\ Turns(p, [w EXCEPT !.at = "discover"]) /\ w.file[2] \notin Static
             /\ UNCHANGED <<wins, affinity, credited>>
    <3>2. PICK next : next = Staged(w, "discover", w.todo)
      OBVIOUS
    <3>3. next = [w EXCEPT !.at = "discover"]
      BY <1>2, <3>2 DEF AttributeWork, Staged
    <3>4. "discover" \in MemoryStages /\ w.todo \in SUBSET w.todo
      BY DEF MemoryStages
    <3>5. next \in AnchorWork /\ next.at # "record" /\ WorkFits(next)
      BY <1>2, <2>3, <3>2, <3>4, MemoryWorkGoesOn
    <3> QED
      BY <2>3, <3>3, <3>5
  <2> QED
    BY <1>1, <2>1, <2>2, <2>3 DEF Attribute, IsKnown, IsAnchor
<1>6. WorkFits(next)'
  BY <1>4, <1>5, WorkFitsOn
<1>7. /\ work' \in [Servers -> AnchorWork] /\ AllWorkFits' /\ RecordersDiffer'
      /\ ObservationsFit' /\ \A s \in Suffixes : Spent(s) \subseteq Spent(s)'
      /\ UNCHANGED credited => CreditsFit'
  BY <1>3, <1>4, <1>5, <1>6, StepGoesOn
<1>8. /\ wins' \in [Scopes -> [Suffixes -> Nat]] /\ affinity' \in [Words -> [Suffixes -> Nat]]
      /\ SuccessFollowsFiring' /\ CreditsFit'
  <2>1. CASE UNCHANGED <<wins, affinity, credited>>
    BY <1>0, <1>3, <1>7, <2>1 DEF LearnerTypeOK, AnchorInv, SuccessFollowsFiring
  <2>2. CASE \E q \in w.todo : \E f \in observations[q].files :
                 Win(f[2], observations[q].words, 1) /\ credited' = credited \cup {<<q, f>>}
    <3>1. PICK q \in w.todo : \E f \in observations[q].files :
                 Win(f[2], observations[q].words, 1) /\ credited' = credited \cup {<<q, f>>}
      BY <2>2
    <3>0. PICK f \in observations[q].files :
                 Win(f[2], observations[q].words, 1) /\ credited' = credited \cup {<<q, f>>}
      BY <3>1
    <3>2. /\ q \in 1 .. Len(decided) /\ observations[q].files = decided[q].files
          /\ HasFired(observations[q].files) /\ observations[q] \in Observation
      BY <1>0, <1>2 DEF AnchorInv, ObservationsFit, ObservationFits, WorkFits, MemoryStages, LearnerTypeOK
    <3>3. Fired(f[2]) /\ f[2] \in Suffixes
      BY <3>0, <3>2 DEF HasFired, Observation, AnchorFiles
    <3>4. /\ wins' \in [Scopes -> [Suffixes -> Nat]] /\ affinity' \in [Words -> [Suffixes -> Nat]]
          /\ SuccessFollowsFiring'
      BY <1>3, <3>0, <3>3, WinKeeps
    <3>5. CreditsFit'
      <4>1. CreditsFit /\ f \in decided[q].files
        BY <3>0, <3>2 DEF AnchorInv
      <4>2. \A pair \in credited' : pair \in credited \/ pair = <<q, f>>
        BY <3>0
      <4> QED
        BY <1>3, <3>2, <4>1, <4>2 DEF CreditsFit
    <3> QED
      BY <3>4, <3>5
  <2> QED
    BY <1>5, <2>1, <2>2
<1>9. LearnerTypeOK'
  BY <1>0, <1>3, <1>7, <1>8 DEF LearnerTypeOK
<1>10. FiringsAreSpent'
  BY <1>3, <1>7, <1>9, CountStays
<1>11. AnchorsExist' /\ DiscoveriesAreNew'
  BY <1>3 DEF AnchorInv, AnchorsExist, DiscoveriesAreNew
<1> QED
  BY <1>7, <1>8, <1>9, <1>10, <1>11 DEF AnchorInv

(* A pattern starts with a firing in this repository and a success there.  *)
LEMMA OneMoreInRepo ==
    ASSUME NEW count \in [Scopes -> [Suffixes -> Nat]], NEW s \in Suffixes, NEW more,
           more = [count EXCEPT !["repo"][s] = @ + 1]
    PROVE  /\ more \in [Scopes -> [Suffixes -> Nat]] /\ more["repo"][s] = count["repo"][s] + 1
           /\ \A c \in Scopes, x \in Suffixes :
                  /\ <<c, x>> # <<"repo", s>> => more[c][x] = count[c][x]
                  /\ more[c][x] >= count[c][x]
<1>1. more = [count EXCEPT !["repo"] = [count["repo"] EXCEPT ![s] = @ + 1]]
  OBVIOUS
<1>2. "repo" \in Scopes /\ count["repo"] \in [Suffixes -> Nat]
  BY DEF Scopes
<1>3. [count["repo"] EXCEPT ![s] = @ + 1] \in [Suffixes -> Nat]
  BY <1>2
<1>4. more \in [Scopes -> [Suffixes -> Nat]]
  BY <1>1, <1>2, <1>3
<1>5. more["repo"] = [count["repo"] EXCEPT ![s] = @ + 1] /\ \A c \in Scopes : c # "repo" => more[c] = count[c]
  BY <1>1, <1>2
<1>6. more["repo"][s] = count["repo"][s] + 1 /\ \A x \in Suffixes : x # s => more["repo"][x] = count["repo"][x]
  BY <1>2, <1>5
<1>7. \A c \in Scopes, x \in Suffixes : count[c][x] \in Nat
  OBVIOUS
<1>8. \A c \in Scopes, x \in Suffixes : <<c, x>> # <<"repo", s>> => more[c][x] = count[c][x]
  <2> TAKE c \in Scopes, x \in Suffixes
  <2>1. CASE c = "repo"
    BY <1>6, <2>1
  <2>2. CASE c # "repo"
    BY <1>5, <2>2
  <2> QED
    BY <2>1, <2>2
<1>9. \A c \in Scopes, x \in Suffixes : more[c][x] >= count[c][x]
  <2> TAKE c \in Scopes, x \in Suffixes
  <2>1. CASE c = "repo" /\ x = s
    BY <1>6, <1>7, <2>1
  <2>2. CASE ~(c = "repo" /\ x = s)
    BY <1>7, <1>8, <2>2
  <2> QED
    BY <2>1, <2>2
<1> QED
  BY <1>4, <1>6, <1>8, <1>9

(* One step of a discovery, by a process that handles a memory.            *)
LEMMA DiscovererIs ==
    ASSUME AnchorInv, NEW p \in Servers, work[p].at \in {"discover", "seedFiring", "seedWin"}
    PROVE  /\ work[p] \in AttributeWork /\ WorkFits(work[p]) /\ work[p].todo \in SUBSET Ids
           /\ work[p].file \in stored /\ work[p].file[2] \in Suffixes
<1>1. work[p] \in AnchorWork /\ WorkFits(work[p]) /\ work[p].at \in MemoryStages
  BY DEF AnchorInv, LearnerTypeOK, AllWorkFits, MemoryStages
<1>2. work[p] \in AttributeWork
  BY <1>1, WorkShapes
<1> QED
  BY <1>1, <1>2, AnchorAssumption DEF AttributeWork, WorkFits

LEMMA AddDiscoveredKeeps ==
    ASSUME AnchorInv, NEW p \in Servers, NEW q, AddDiscovered(p, q)
    PROVE  AnchorInv'
<1>0. LearnerTypeOK
  BY DEF AnchorInv
<1>1. PICK w : w = work[p]
  OBVIOUS
<1>2. /\ w \in AttributeWork /\ w.at = "discover" /\ WorkFits(w) /\ w.todo \in SUBSET Ids
      /\ w.file \in stored /\ w.file[2] \in Suffixes /\ w.file[2] \notin Static
  BY <1>1, DiscovererIs DEF AddDiscovered, Doing, WorkFits
<1>3. UNCHANGED <<firings, wins, affinity, observations, ring, signals, decided, credited, stored, uncounted>>
  BY DEF AddDiscovered
<1>4. Grown
  BY <1>0, <1>3, SameIsGrown
<1>5. WorkFits(w)'
  BY <1>2, <1>4, WorkFitsOn DEF AnchorWork
<1>6. discovered' \subseteq discovered \cup {w.file[2]}
  BY <1>1 DEF AddDiscovered
<1>7. PICK next : next \in AnchorWork /\ next.at # "record" /\ WorkFits(next)' /\ Turns(p, next)
  <2>1. CASE Proceeds(p, "seedFiring")
    <3>1. PICK next : next = Staged(w, "seedFiring", w.todo)
      OBVIOUS
    <3>2. Turns(p, next)
      BY <1>1, <1>2, <2>1, <3>1 DEF Proceeds, AttributeWork, Staged
    <3>3. "seedFiring" \in MemoryStages /\ w.todo \in SUBSET w.todo
      BY DEF MemoryStages
    <3> QED
      BY <1>2, <1>5, <3>1, <3>2, <3>3, MemoryWorkGoesOn
  <2>2. CASE Moves(p, q)
    <3>1. PICK next : next = Staged(w, "attribute", w.todo \ {q})
      OBVIOUS
    <3>2. Turns(p, next)
      BY <1>1, <1>2, <2>2, <3>1 DEF Moves, AttributeWork, Staged
    <3>3. "attribute" \in MemoryStages /\ w.todo \ {q} \in SUBSET w.todo
      BY DEF MemoryStages
    <3> QED
      BY <1>2, <1>5, <3>1, <3>2, <3>3, MemoryWorkGoesOn
  <2> QED
    BY <2>1, <2>2 DEF AddDiscovered
<1>8. /\ work' \in [Servers -> AnchorWork] /\ AllWorkFits' /\ RecordersDiffer'
      /\ ObservationsFit' /\ CreditsFit' /\ \A s \in Suffixes : Spent(s) \subseteq Spent(s)'
  BY <1>3, <1>4, <1>7, StepGoesOn
<1>9. LearnerTypeOK'
  <2>1. discovered' \subseteq Suffixes
    BY <1>0, <1>2, <1>6 DEF LearnerTypeOK
  <2> QED
    BY <1>0, <1>3, <1>8, <2>1 DEF LearnerTypeOK
<1>10. FiringsAreSpent'
  BY <1>3, <1>8, <1>9, CountStays
<1>11. SuccessFollowsFiring' /\ AnchorsExist'
  BY <1>3 DEF AnchorInv, SuccessFollowsFiring, AnchorsExist
<1>12. DiscoveriesAreNew'
  BY <1>2, <1>3, <1>6 DEF AnchorInv, DiscoveriesAreNew
<1> QED
  BY <1>8, <1>9, <1>10, <1>11, <1>12 DEF AnchorInv

LEMMA SeedFiringKeeps ==
    ASSUME AnchorInv, NEW p \in Servers, SeedFiring(p)
    PROVE  AnchorInv'
<1>0. LearnerTypeOK
  BY DEF AnchorInv
<1>1. PICK w, s : w = work[p] /\ s = w.file[2]
  OBVIOUS
<1>2. w \in AttributeWork /\ WorkFits(w) /\ s \in Suffixes /\ w.at = "seedFiring"
  BY <1>1, DiscovererIs DEF SeedFiring, Doing
<1>3. UNCHANGED <<wins, affinity, discovered, observations, ring, signals, decided, credited, stored>>
  BY DEF SeedFiring
<1>4. /\ firings \in [Scopes -> [Suffixes -> Nat]] /\ "all" \in Scopes /\ "repo" \in Scopes
      /\ firings["repo"][s] \in Nat
  BY <1>0, <1>2 DEF LearnerTypeOK, Scopes
<1>5. /\ uncounted \subseteq uncounted' /\ FiredIn("repo", s)'
      /\ firings' \in [Scopes -> [Suffixes -> Nat]]
      /\ \A c \in Scopes, x \in Suffixes : firings'[c][x] >= firings[c][x] /\ firings'[c][x] \in Nat
      /\ \A x \in Suffixes : firings'["all"][x] = firings["all"][x]
  <2>1. CASE firings' = [firings EXCEPT !["repo"][s] = @ + 1] /\ UNCHANGED uncounted
    <3>1. /\ firings' \in [Scopes -> [Suffixes -> Nat]] /\ firings'["repo"][s] = firings["repo"][s] + 1
          /\ \A c \in Scopes, x \in Suffixes :
                 /\ <<c, x>> # <<"repo", s>> => firings'[c][x] = firings[c][x]
                 /\ firings'[c][x] >= firings[c][x]
      BY <1>2, <1>4, <2>1, OneMoreInRepo
    <3>2. \A c \in Scopes, x \in Suffixes : firings'[c][x] \in Nat
      BY <3>1
    <3>3. \A x \in Suffixes : firings'["all"][x] = firings["all"][x]
      BY <1>4, <3>1
    <3>4. FiredIn("repo", s)'
      BY <1>4, <3>1 DEF FiredIn
    <3> QED
      BY <2>1, <3>1, <3>2, <3>3, <3>4
  <2>2. CASE uncounted' = uncounted \cup {<<"repo", s>>} /\ UNCHANGED firings
    <3>1. \A c \in Scopes, x \in Suffixes : firings'[c][x] >= firings[c][x] /\ firings'[c][x] \in Nat
      BY <1>4, <2>2
    <3> QED
      BY <1>4, <2>2, <3>1 DEF FiredIn
  <2> QED
    BY <1>1, <2>1, <2>2 DEF SeedFiring
<1>6. Grown
  BY <1>0, <1>3, <1>5, CountersGrow
<1>7. WorkFits(w)'
  BY <1>2, <1>6, WorkFitsOn DEF AnchorWork
<1>8. PICK next : next = Staged(w, "seedWin", w.todo)
  OBVIOUS
<1>9. next \in AnchorWork /\ next.at # "record" /\ WorkFits(next)' /\ Turns(p, next)
  <2>1. Turns(p, next)
    BY <1>1, <1>2, <1>8 DEF SeedFiring, Proceeds, AttributeWork, Staged
  <2>2. "seedWin" \in MemoryStages /\ w.todo \in SUBSET w.todo
    BY DEF MemoryStages
  <2> QED
    BY <1>1, <1>2, <1>5, <1>7, <1>8, <2>1, <2>2, MemoryWorkGoesOn
<1>10. /\ work' \in [Servers -> AnchorWork] /\ AllWorkFits' /\ RecordersDiffer'
       /\ ObservationsFit' /\ CreditsFit' /\ \A x \in Suffixes : Spent(x) \subseteq Spent(x)'
  BY <1>3, <1>6, <1>9, StepGoesOn
<1>11. LearnerTypeOK'
  BY <1>0, <1>3, <1>5, <1>10 DEF LearnerTypeOK
<1>12. FiringsAreSpent'
  BY <1>5, <1>10, <1>11, CountStays
<1>13. SuccessFollowsFiring'
  <2> SUFFICES ASSUME NEW c \in Scopes, NEW x \in Suffixes, wins'[c][x] > 0, <<c, x>> \notin uncounted'
               PROVE  firings'[c][x] > 0
    BY DEF SuccessFollowsFiring
  <2>1. firings[c][x] > 0 /\ firings[c][x] \in Nat
    BY <1>3, <1>4, <1>5 DEF AnchorInv, SuccessFollowsFiring
  <2>2. firings'[c][x] >= firings[c][x] /\ firings'[c][x] \in Nat
    BY <1>5
  <2> QED
    BY <2>1, <2>2
<1>14. AnchorsExist' /\ DiscoveriesAreNew'
  BY <1>3 DEF AnchorInv, AnchorsExist, DiscoveriesAreNew
<1> QED
  BY <1>10, <1>11, <1>12, <1>13, <1>14 DEF AnchorInv

LEMMA SeedWinKeeps ==
    ASSUME AnchorInv, NEW p \in Servers, NEW q, SeedWin(p, q)
    PROVE  AnchorInv'
<1>0. LearnerTypeOK
  BY DEF AnchorInv
<1>1. PICK w, s : w = work[p] /\ s = w.file[2]
  OBVIOUS
<1>2. /\ w \in AttributeWork /\ WorkFits(w) /\ s \in Suffixes /\ w.at = "seedWin"
      /\ FiredIn("repo", s)
  BY <1>1, DiscovererIs DEF SeedWin, Doing, WorkFits
<1>3. UNCHANGED <<firings, discovered, observations, ring, signals, decided, credited, stored, uncounted>>
  BY DEF SeedWin
<1>4. wins \in [Scopes -> [Suffixes -> Nat]] /\ affinity \in [Words -> [Suffixes -> Nat]]
  BY <1>0 DEF LearnerTypeOK
<1>5. wins' = [wins EXCEPT !["repo"][s] = @ + 1] \/ UNCHANGED wins
  BY <1>1 DEF SeedWin
<1>6. wins' \in [Scopes -> [Suffixes -> Nat]]
  <2>1. CASE UNCHANGED wins
    BY <1>4, <2>1
  <2>2. CASE wins' = [wins EXCEPT !["repo"][s] = @ + 1]
    BY <1>2, <1>4, <2>2, OneMoreInRepo
  <2> QED
    BY <1>5, <2>1, <2>2
<1>7. affinity' \in [Words -> [Suffixes -> Nat]]
  <2>1. \A v \in Words : affinity[v] \in [Suffixes -> Nat] /\ [affinity[v] EXCEPT ![s] = @ + 1] \in [Suffixes -> Nat]
    BY <1>2, <1>4
  <2>2. affinity' = [v \in Words |-> IF v \in observations[q].words
                                     THEN [affinity[v] EXCEPT ![s] = @ + 1] ELSE affinity[v]]
    BY <1>1 DEF SeedWin
  <2> QED
    BY <2>1, <2>2
<1>8. Grown
  BY <1>0, <1>3, SameIsGrown
<1>9. WorkFits(w)'
  BY <1>2, <1>8, WorkFitsOn DEF AnchorWork
<1>10. PICK next : next = Staged(w, "attribute", w.todo \ {q})
  OBVIOUS
<1>11. next \in AnchorWork /\ next.at # "record" /\ WorkFits(next)' /\ Turns(p, next)
  <2>1. Turns(p, next)
    BY <1>1, <1>2, <1>10 DEF SeedWin, Moves, AttributeWork, Staged
  <2>2. "attribute" \in MemoryStages /\ w.todo \ {q} \in SUBSET w.todo
    BY DEF MemoryStages
  <2> QED
    BY <1>2, <1>9, <1>10, <2>1, <2>2, MemoryWorkGoesOn
<1>12. /\ work' \in [Servers -> AnchorWork] /\ AllWorkFits' /\ RecordersDiffer'
       /\ ObservationsFit' /\ CreditsFit' /\ \A x \in Suffixes : Spent(x) \subseteq Spent(x)'
  BY <1>3, <1>8, <1>11, StepGoesOn
<1>13. LearnerTypeOK'
  BY <1>0, <1>3, <1>6, <1>7, <1>12 DEF LearnerTypeOK
<1>14. FiringsAreSpent'
  BY <1>3, <1>12, <1>13, CountStays
<1>15. SuccessFollowsFiring'
  <2> SUFFICES ASSUME NEW c \in Scopes, NEW x \in Suffixes, wins'[c][x] > 0, <<c, x>> \notin uncounted
               PROVE  firings[c][x] > 0
    BY <1>3 DEF SuccessFollowsFiring
  <2>1. CASE <<c, x>> = <<"repo", s>>
    BY <1>2, <2>1 DEF FiredIn
  <2>2. CASE <<c, x>> # <<"repo", s>>
    <3>1. wins'[c][x] = wins[c][x]
      BY <1>2, <1>4, <1>5, <2>2, OneMoreInRepo
    <3> QED
      BY <3>1 DEF AnchorInv, SuccessFollowsFiring
  <2> QED
    BY <2>1, <2>2
<1>16. AnchorsExist' /\ DiscoveriesAreNew'
  BY <1>3 DEF AnchorInv, AnchorsExist, DiscoveriesAreNew
<1> QED
  BY <1>12, <1>13, <1>14, <1>15, <1>16 DEF AnchorInv

LEMMA RebootKeeps ==
    ASSUME AnchorInv, NEW p \in Servers, Reboot(p)
    PROVE  AnchorInv'
<1>0. LearnerTypeOK
  BY DEF AnchorInv
<1>1. /\ UNCHANGED <<firings, wins, affinity, discovered, observations, decided, credited, stored, uncounted>>
      /\ Turns(p, Resting) /\ ring' = [ring EXCEPT ![p] = <<>>]
  BY DEF Reboot, counters
<1>2. Grown
  BY <1>0, <1>1, SameIsGrown
<1>3. /\ work' \in [Servers -> AnchorWork] /\ AllWorkFits' /\ RecordersDiffer'
      /\ ObservationsFit' /\ CreditsFit' /\ \A s \in Suffixes : Spent(s) \subseteq Spent(s)'
  BY <1>1, <1>2, AnchorRestFits, StepGoesOn
<1>4. LearnerTypeOK'
  <2>1. ring' \in [Servers -> Seq(Ids)] /\ \A r \in Servers : Len(ring'[r]) <= RingSize
    <3>1. <<>> \in Seq(Ids) /\ Len(<<>>) = 0 /\ 0 <= RingSize
      BY AnchorAssumption
    <3>2. ring \in [Servers -> Seq(Ids)] /\ \A r \in Servers : Len(ring[r]) <= RingSize
      BY <1>0 DEF LearnerTypeOK
    <3> QED
      BY <1>1, <3>1, <3>2
  <2> QED
    BY <1>0, <1>1, <1>3, <2>1 DEF LearnerTypeOK
<1>5. FiringsAreSpent'
  BY <1>1, <1>3, <1>4, CountStays
<1>6. SuccessFollowsFiring' /\ AnchorsExist' /\ DiscoveriesAreNew'
  BY <1>1 DEF AnchorInv, SuccessFollowsFiring, AnchorsExist, DiscoveriesAreNew
<1> QED
  BY <1>3, <1>4, <1>5, <1>6 DEF AnchorInv

-----------------------------------------------------------------------------
LEMMA AnchorInvHolds == SpecAnchors => []AnchorInv
<1>1. ASSUME AnchorInv, StepAnchors PROVE AnchorInv'
  <2>1. PICK p \in Servers :
            \/ \E words \in SUBSET Words, services \in SUBSET Services, trace \in BOOLEAN :
                   Decide(p, words, services, trace)
            \/ \E f \in AnchorFiles : Fire(p, f) \/ Reward(p, f)
            \/ PutObservation(p)
            \/ \E q \in 1 .. Len(decided), success \in BOOLEAN :
                   \E read \in SUBSET Present : RewardFeedback(p, q, read, success)
            \/ \E f \in Present : SaveMemory(p, f)
            \/ \E q \in 1 .. MaxDecisions : AddDiscovered(p, q) \/ SeedWin(p, q)
            \/ Attribute(p) \/ SeedFiring(p) \/ Reboot(p)
    BY <1>1 DEF StepAnchors
  <2>2. CASE \E words \in SUBSET Words, services \in SUBSET Services, trace \in BOOLEAN :
                 Decide(p, words, services, trace)
    BY <1>1, <2>2, DecideKeeps
  <2>3. CASE \E f \in AnchorFiles : Fire(p, f)
    BY <1>1, <2>3, FireKeeps
  <2>4. CASE \E f \in AnchorFiles : Reward(p, f)
    BY <1>1, <2>4, RewardKeeps
  <2>5. CASE PutObservation(p)
    BY <1>1, <2>5, PutObservationKeeps
  <2>6. CASE \E q \in 1 .. Len(decided), success \in BOOLEAN :
                 \E read \in SUBSET Present : RewardFeedback(p, q, read, success)
    BY <1>1, <2>6, RewardFeedbackKeeps
  <2>7. CASE \E f \in Present : SaveMemory(p, f)
    BY <1>1, <2>7, SaveMemoryKeeps
  <2>8. CASE Attribute(p)
    BY <1>1, <2>8, AttributeKeeps
  <2>9. CASE \E q \in 1 .. MaxDecisions : AddDiscovered(p, q) \/ SeedWin(p, q)
    BY <1>1, <2>9, AddDiscoveredKeeps, SeedWinKeeps
  <2>11. CASE SeedFiring(p)
    BY <1>1, <2>11, SeedFiringKeeps
  <2>10. CASE Reboot(p)
    BY <1>1, <2>10, RebootKeeps
  <2> QED
    BY <2>1, <2>2, <2>3, <2>4, <2>5, <2>6, <2>7, <2>8, <2>9, <2>10, <2>11
<1>2. ASSUME AnchorInv, UNCHANGED anchorVars PROVE AnchorInv'
  <2>1. UNCHANGED <<firings, wins, affinity, discovered, observations, ring, work, decided,
                    credited, stored, uncounted>>
    BY <1>2 DEF anchorVars, counters
  <2>2. LearnerTypeOK' /\ RecordersDiffer' /\ SuccessFollowsFiring' /\ AnchorsExist' /\ DiscoveriesAreNew'
    BY <1>2, <2>1 DEF AnchorInv, LearnerTypeOK, RecordersDiffer, SuccessFollowsFiring, AnchorsExist,
                      DiscoveriesAreNew
  <2>3. AllWorkFits' /\ ObservationsFit' /\ CreditsFit'
    BY <1>2, <2>1 DEF AnchorInv, AllWorkFits, WorkFits, ObservationsFit, ObservationFits, HasFired,
                      Fired, FiredIn, CreditsFit
  <2>4. FiringsAreSpent'
    <3>1. \A s \in Suffixes : Spent(s) = Spent(s)'
      BY <2>1 DEF Spent, IsToFire
    <3> QED
      BY <1>2, <2>1, <3>1 DEF AnchorInv, FiringsAreSpent
  <2> QED
    BY <2>2, <2>3, <2>4 DEF AnchorInv
<1>3. InitAnchors => AnchorInv
  BY AnchorInvStarts
<1> QED
  BY <1>1, <1>2, <1>3, PTL DEF SpecAnchors

LEMMA AnchorInvSuffices == AnchorInv => AnchorsAreEarned
<1> SUFFICES ASSUME AnchorInv PROVE AnchorsAreEarned
  OBVIOUS
<1>1. AnchorTypeOK
  BY DEF AnchorInv, LearnerTypeOK, AnchorTypeOK
<1>2. FiringsWereGiven
  <2> SUFFICES ASSUME NEW s \in Suffixes
               PROVE  firings["all"][s] <=
                          Cardinality({pair \in (1 .. Len(decided)) \X AnchorFiles :
                                           pair[2] \in decided[pair[1]].files /\ pair[2][2] = s})
    BY DEF FiringsWereGiven
  <2>1. PICK given \in SUBSET ((1 .. Len(decided)) \X AnchorFiles) :
            given = {pair \in (1 .. Len(decided)) \X AnchorFiles :
                         pair[2] \in decided[pair[1]].files /\ pair[2][2] = s}
    OBVIOUS
  <2>2. IsFiniteSet(given)
    BY PairsAreFinite DEF AnchorInv, LearnerTypeOK
  <2>3. Spent(s) \subseteq given
    BY <2>1 DEF Spent
  <2>4. /\ Cardinality(Spent(s)) <= Cardinality(given)
        /\ Cardinality(Spent(s)) \in Nat /\ Cardinality(given) \in Nat
    BY <2>2, <2>3, FS_Subset, FS_CardinalityType
  <2>5. firings["all"][s] \in Nat /\ firings["all"][s] <= Cardinality(Spent(s))
    BY DEF AnchorInv, LearnerTypeOK, FiringsAreSpent, Scopes
  <2> QED
    BY <2>1, <2>4, <2>5
<1>3. CreditIsForWhatWasGiven
  BY DEF AnchorInv, CreditsFit, CreditIsForWhatWasGiven
<1> QED
  BY <1>1, <1>2, <1>3 DEF AnchorInv, AnchorsAreEarned

(* What anchors are credited with was earned, whichever processes decide,  *)
(* record and credit at once and whatever is lost: successes follow        *)
(* firings, firings were given, files exist, discoveries are saved files   *)
(* outside the portfolio, and credit is for what the query was given.      *)
THEOREM AnchorsStayEarned == SpecAnchors => []AnchorsAreEarned
<1>1. SpecAnchors => []AnchorInv
  BY AnchorInvHolds
<1>2. AnchorInv => AnchorsAreEarned
  BY AnchorInvSuffices
<1> QED
  BY <1>1, <1>2, PTL
=============================================================================
