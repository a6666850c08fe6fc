------------------------ MODULE CodegraphIndex_proofs ------------------------
(***************************************************************************)
(* What codegraph keeps and computes of an index: its database, for any    *)
(* files, contents, chained names, batch size and bounds; the breadth-     *)
(* first walks over its graph, for any graphs and questions; the registry  *)
(* of indexed repositories, for any names, directories and indexers.       *)
(***************************************************************************)
EXTENDS CodeIndex, BreadthFirst, SidecarRegistry, NaturalsInduction, WellFoundedInduction, TLAPS

(***************************************************************************)
(* The database.                                                           *)
(***************************************************************************)
Runs == [by : Writers \cup {"none"}, kind : {"sync", "index"},
         at : {"off", "store", "resolve", "chains"}, todo : SUBSET Paths, touched : SUBSET Paths]

(* References are held back only between the two passes of a run.          *)
RunsAreInOrder ==
    /\ run \in Runs
    /\ run.at # "off" => run.by \in Writers
    /\ run.at \in {"off", "store"} => deferred = {}

RecordsAreContents == record \in [Paths -> Contents] /\ source \in [Paths -> Contents]

(* A reference in the table or held back is one of its file's indexed      *)
(* content: without it nothing is known of the edge it becomes.            *)
ReferencesAreUses ==
    \A r \in refs \cup deferred : r[1] \in Paths /\ r[2] \in record[r[1]].uses

EdgesAreOfFiles == \A e \in edges : e.from \in Paths

IndexInv ==
    /\ RunsAreInOrder /\ RecordsAreContents /\ ReferencesAreUses
    /\ EdgesAreOfFiles /\ EdgesAreCurrent

-----------------------------------------------------------------------------
LEMMA IndexInvStarts == InitIndex => IndexInv
<1> SUFFICES ASSUME InitIndex PROVE IndexInv
  OBVIOUS
<1> USE DEF InitIndex
<1>1. RunsAreInOrder
  BY DEF RunsAreInOrder, Runs, NoRun
<1>2. RecordsAreContents
  BY DEF RecordsAreContents, Contents
<1> QED
  BY <1>1, <1>2 DEF IndexInv, ReferencesAreUses, EdgesAreOfFiles, EdgesAreCurrent

(* What a pass over references adds: one edge for each, to a symbol that   *)
(* bears its name.                                                         *)
LEMMA LinkAddsEdges ==
  ASSUME NEW batch, Link(batch)
  PROVE  /\ edges \subseteq edges'
         /\ \A e \in edges' \ edges :
                \E r \in batch : e.from = r[1] /\ e.to \in nodes /\ e.to[2] = r[2]
         /\ \A r \in batch : \E e \in edges' : e.from = r[1] /\ e.to[2] = r[2]
<1>1. PICK pick \in [batch -> nodes] :
        /\ \A r \in batch : pick[r] \in Candidates(r)
        /\ edges' = edges \cup {[from |-> r[1], to |-> pick[r]] : r \in batch}
  BY DEF Link
<1>2. \A r \in batch : pick[r] \in nodes /\ pick[r][2] = r[2]
  BY <1>1 DEF Candidates
<1>3. \A e \in edges' \ edges :
          \E r \in batch : e.from = r[1] /\ e.to \in nodes /\ e.to[2] = r[2]
  BY <1>1, <1>2
<1>4. ASSUME NEW r \in batch
      PROVE  \E e \in edges' : e.from = r[1] /\ e.to[2] = r[2]
  <2> DEFINE e == [from |-> r[1], to |-> pick[r]]
  <2>1. e \in edges'
    BY <1>1
  <2>2. e.from = r[1] /\ e.to[2] = r[2]
    BY <1>2
  <2> HIDE DEF e
  <2> QED
    BY <2>1, <2>2
<1> QED
  BY <1>1, <1>3, <1>4

(* Linking references of indexed contents keeps the edges current.         *)
LEMMA LinkKeepsEdges ==
  ASSUME NEW batch \in SUBSET (refs \cup deferred), IndexInv, Link(batch),
         UNCHANGED <<record, nodes>>
  PROVE  EdgesAreOfFiles' /\ EdgesAreCurrent'
<1>1. \A e \in edges' \ edges : e.from \in Paths /\ e.to \in nodes /\ e.to[2] \in record[e.from].uses
  <2> SUFFICES ASSUME NEW e \in edges' \ edges
               PROVE  e.from \in Paths /\ e.to \in nodes /\ e.to[2] \in record[e.from].uses
    OBVIOUS
  <2>1. PICK r \in batch : e.from = r[1] /\ e.to \in nodes /\ e.to[2] = r[2]
    BY LinkAddsEdges
  <2> QED
    BY <2>1 DEF IndexInv, ReferencesAreUses
<1> QED
  BY <1>1 DEF IndexInv, EdgesAreOfFiles, EdgesAreCurrent

-----------------------------------------------------------------------------
LEMMA StoreFileKeepsInv ==
  ASSUME NEW f \in Paths, IndexInv, StoreFile(f)
  PROVE  IndexInv'
<1> USE DEF IndexInv
<1>1. RunsAreInOrder'
  BY DEF RunsAreInOrder, Runs, StoreFile
<1>2. CASE RowsStay(f)
  <2>1. UNCHANGED <<source, tables, deferred>>
    BY <1>2 DEF StoreFile
  <2> QED
    BY <1>1, <2>1 DEF tables, RecordsAreContents, ReferencesAreUses, EdgesAreOfFiles, EdgesAreCurrent
<1>3. CASE ~RowsStay(f)
  <2>1. /\ nodes' = Without(f, nodes) \cup {<<f, d>> : d \in ContentRead(f).defs}
        /\ edges' = CascadedEdges(f)
        /\ refs' = Without(f, refs) \cup {<<f, u>> : u \in ContentRead(f).uses}
        /\ record' = [record EXCEPT ![f] = ContentRead(f)]
        /\ UNCHANGED <<source, deferred>>
    BY <1>3 DEF StoreFile
  <2>2. deferred = {}
    BY DEF StoreFile, RunsAreInOrder
  <2>3. RecordsAreContents'
    BY <2>1 DEF RecordsAreContents, ContentRead, Contents
  <2>4. \A g \in Paths : record'[g] = IF g = f THEN ContentRead(f) ELSE record[g]
    BY <2>1 DEF RecordsAreContents
  <2>5. ReferencesAreUses'
    <3> SUFFICES ASSUME NEW r \in refs' PROVE r[1] \in Paths /\ r[2] \in record'[r[1]].uses
      BY <2>1, <2>2 DEF ReferencesAreUses
    <3>1. CASE r \in refs /\ r[1] # f
      BY <3>1, <2>4 DEF ReferencesAreUses
    <3>2. CASE \E u \in ContentRead(f).uses : r = <<f, u>>
      BY <3>2, <2>4
    <3> QED
      BY <3>1, <3>2, <2>1 DEF Without
  <2>6. \A e \in edges' : e \in edges /\ e.from # f /\ e.to[1] # f
    BY <2>1 DEF CascadedEdges
  <2>7. EdgesAreOfFiles'
    BY <2>6 DEF EdgesAreOfFiles
  <2>8. EdgesAreCurrent'
    BY <2>1, <2>4, <2>6 DEF EdgesAreCurrent, EdgesAreOfFiles, Without
  <2> QED
    BY <1>1, <2>3, <2>5, <2>7, <2>8
<1> QED
  BY <1>2, <1>3

(* The resolving steps link references that are in the table or held back. *)
LEMMA ResolvingKeepsInv ==
  ASSUME IndexInv, ResolveScoped \/ ResolveBatch \/ ResolveChains
  PROVE  IndexInv'
<1> USE DEF IndexInv
<1>1. PICK batch \in SUBSET (refs \cup deferred) : Link(batch)
  <2>1. CASE ResolveScoped
    BY <2>1 DEF ResolveScoped, Try, Resolvable
  <2>2. CASE ResolveBatch
    BY <2>2 DEF ResolveBatch, Try, Resolvable
  <2>3. CASE ResolveChains
    BY <2>3 DEF ResolveChains
  <2> QED
    BY <2>1, <2>2, <2>3
<1>2. UNCHANGED <<source, record, nodes>>
  BY DEF ResolveScoped, ResolveBatch, ResolveChains
<1>3. refs' \cup deferred' \subseteq refs \cup deferred
  <2>1. CASE ResolveScoped
    BY <2>1 DEF ResolveScoped, Try, ResolvedRows
  <2>2. CASE ResolveBatch
    BY <2>2 DEF ResolveBatch, Try
  <2>3. CASE ResolveChains
    BY <2>3 DEF ResolveChains
  <2> QED
    BY <2>1, <2>2, <2>3
<1>4. RunsAreInOrder'
  <2>1. CASE ResolveScoped
    BY <2>1 DEF ResolveScoped, RunsAreInOrder, Runs
  <2>2. CASE ResolveBatch
    <3>1. run' = run \/ run' = [run EXCEPT !.at = "chains"]
      BY <2>2 DEF ResolveBatch
    <3>2. run.at = "resolve"
      BY <2>2 DEF ResolveBatch
    <3>3. run' \in Runs /\ run'.at \in {"resolve", "chains"} /\ run'.by = run.by
      BY <3>1, <3>2 DEF RunsAreInOrder, Runs
    <3> QED
      BY <3>2, <3>3 DEF RunsAreInOrder
  <2>3. CASE ResolveChains
    BY <2>3 DEF ResolveChains, RunsAreInOrder, Runs, NoRun
  <2> QED
    BY <2>1, <2>2, <2>3
<1>5. EdgesAreOfFiles' /\ EdgesAreCurrent'
  BY <1>1, <1>2, LinkKeepsEdges
<1> QED
  BY <1>2, <1>3, <1>4, <1>5 DEF RecordsAreContents, ReferencesAreUses

LEMMA ClearIndexKeepsInv ==
  ASSUME IndexInv, ClearIndex
  PROVE  IndexInv'
<1> USE DEF IndexInv, ClearIndex
<1>1. RunsAreInOrder'
  BY DEF RunsAreInOrder
<1>2. RecordsAreContents'
  BY DEF RecordsAreContents, Contents
<1> QED
  BY <1>1, <1>2 DEF ReferencesAreUses, EdgesAreOfFiles, EdgesAreCurrent

(* The other steps leave the tables alone.                                 *)
LEMMA OtherStepsKeepInv ==
  ASSUME IndexInv, UNCHANGED tables,
         \/ \E f \in Paths : Change(f)
         \/ \E n \in nodes : GetNodeById(n)
         \/ \E p \in Writers, kind \in {"sync", "index"} : StartRun(p, kind)
         \/ EndStore \/ EndBatches \/ RunDies \/ UNCHANGED indexVars
  PROVE  IndexInv'
<1> USE DEF IndexInv, tables
<1>1. RunsAreInOrder' /\ deferred' \subseteq deferred
  <2>1. CASE \E f \in Paths : Change(f)
    BY <2>1 DEF Change, RunsAreInOrder
  <2>2. CASE \E n \in nodes : GetNodeById(n)
    BY <2>2 DEF GetNodeById, RunsAreInOrder
  <2>3. CASE \E p \in Writers, kind \in {"sync", "index"} : StartRun(p, kind)
    BY <2>3 DEF StartRun, RunsAreInOrder, Runs, NoRun
  <2>4. CASE EndStore
    BY <2>4 DEF EndStore, RunsAreInOrder, Runs, NoRun
  <2>5. CASE EndBatches
    BY <2>5 DEF EndBatches, RunsAreInOrder, Runs
  <2>6. CASE RunDies
    BY <2>6 DEF RunDies, RunsAreInOrder, Runs, NoRun
  <2>7. CASE UNCHANGED indexVars
    BY <2>7 DEF indexVars, RunsAreInOrder
  <2> QED
    BY <2>1, <2>2, <2>3, <2>4, <2>5, <2>6, <2>7
<1>2. source' \in [Paths -> Contents]
  <2>1. CASE \E f \in Paths : Change(f)
    BY <2>1 DEF Change, RecordsAreContents
  <2>2. CASE UNCHANGED source
    BY <2>2 DEF RecordsAreContents
  <2> QED
    BY <2>1, <2>2 DEF GetNodeById, StartRun, EndStore, EndBatches, RunDies, indexVars
<1> QED
  BY <1>1, <1>2 DEF RecordsAreContents, ReferencesAreUses, EdgesAreOfFiles, EdgesAreCurrent

LEMMA IndexInvHolds == SpecIndex => []IndexInv
<1>1. IndexInv /\ [StepIndex]_indexVars => IndexInv'
  <2> SUFFICES ASSUME IndexInv, [StepIndex]_indexVars PROVE IndexInv'
    OBVIOUS
  <2>1. CASE \E f \in Paths : StoreFile(f)
    BY <2>1, StoreFileKeepsInv
  <2>2. CASE ResolveScoped \/ ResolveBatch \/ ResolveChains
    BY <2>2, ResolvingKeepsInv
  <2>3. CASE ClearIndex
    BY <2>3, ClearIndexKeepsInv
  <2>4. CASE \/ \E f \in Paths : Change(f)
             \/ \E n \in nodes : GetNodeById(n)
             \/ \E p \in Writers, kind \in {"sync", "index"} : StartRun(p, kind)
             \/ EndStore \/ EndBatches \/ RunDies \/ UNCHANGED indexVars
    <3>1. UNCHANGED tables
      BY <2>4 DEF Change, GetNodeById, StartRun, EndStore, EndBatches, RunDies, indexVars
    <3> QED
      BY <2>4, <3>1, OtherStepsKeepInv
  <2> QED
    BY <2>1, <2>2, <2>3, <2>4 DEF StepIndex
<1> QED
  BY <1>1, IndexInvStarts, PTL DEF SpecIndex

(* queries.ts:399-410 and the cascades of schema.sql: however runs, edits, *)
(* clearings and deaths interleave, an edge leads from a file whose        *)
(* indexed content uses the name to a symbol that is in the index.         *)
THEOREM EdgesStayCurrent == SpecIndex => []EdgesAreCurrent
<1>1. IndexInv => EdgesAreCurrent
  BY DEF IndexInv
<1> QED
  BY <1>1, IndexInvHolds, PTL

-----------------------------------------------------------------------------
(* Every use of an indexed content is accounted for at every step.         *)
LEMMA UsesStartAccounted == InitIndex => UsesAreAccounted
  BY DEF InitIndex, UsesAreAccounted, Missing

(* What a step must keep for the uses of one file.                         *)
Accounted(f, u) ==
    \/ <<f, u>> \in refs \cup deferred \cup missed \cup cut \cup forgotten
    \/ \E e \in edges : e.from = f /\ e.to[2] = u

LEMMA StoreFileAccounts ==
  ASSUME NEW f \in Paths, IndexInv, UsesAreAccounted, StoreFile(f)
  PROVE  UsesAreAccounted'
<1>1. CASE RowsStay(f)
  <2>1. UNCHANGED <<record, edges, refs, deferred, missed, cut, forgotten>>
    BY <1>1 DEF StoreFile, tables
  <2> SUFFICES ASSUME NEW g \in Paths, NEW u \in record'[g].uses PROVE Accounted(g, u)'
    BY DEF UsesAreAccounted, Accounted
  <2>2. u \in record[g].uses
    BY <2>1
  <2>3. Accounted(g, u)
    BY <2>2 DEF UsesAreAccounted, Accounted
  <2> QED
    BY <2>1, <2>3 DEF Accounted
<1>2. CASE ~RowsStay(f)
  <2>1. /\ refs' = Without(f, refs) \cup {<<f, u>> : u \in ContentRead(f).uses}
        /\ edges' = CascadedEdges(f)
        /\ record' = [record EXCEPT ![f] = ContentRead(f)]
        /\ cut' = Without(f, cut) \cup CutBy(f)
        /\ missed' = Without(f, missed) /\ forgotten' = Without(f, forgotten)
        /\ UNCHANGED deferred
    BY <1>2 DEF StoreFile
  <2>2. \A g \in Paths : record'[g] = IF g = f THEN ContentRead(f) ELSE record[g]
    BY <2>1 DEF IndexInv, RecordsAreContents
  <2> SUFFICES ASSUME NEW g \in Paths, NEW u \in record'[g].uses
               PROVE  Accounted(g, u)'
    BY DEF UsesAreAccounted, Accounted
  <2>3. CASE g = f
    BY <2>1, <2>2, <2>3 DEF Accounted
  <2>4. CASE g # f
    <3>1. Accounted(g, u)
      BY <2>2, <2>4 DEF UsesAreAccounted, Accounted
    <3>2. CASE <<g, u>> \in refs \cup deferred \cup missed \cup cut \cup forgotten
      BY <2>1, <2>4, <3>2 DEF Accounted, Without
    <3>3. CASE \E e \in edges : e.from = g /\ e.to[2] = u
      <4>1. PICK e \in edges : e.from = g /\ e.to[2] = u
        BY <3>3
      <4>2. CASE e.to[1] = f
        <5>1. <<g, u>> \in CutBy(f)
          BY <2>4, <4>1, <4>2 DEF CutBy
        <5> QED
          BY <2>1, <5>1 DEF Accounted
      <4>3. CASE e.to[1] # f
        <5>1. e \in edges'
          BY <2>1, <2>4, <4>1, <4>3 DEF CascadedEdges
        <5> QED
          BY <4>1, <5>1 DEF Accounted
      <4> QED
        BY <4>2, <4>3
    <3> QED
      BY <3>1, <3>2, <3>3 DEF Accounted
  <2> QED
    BY <2>3, <2>4
<1> QED
  BY <1>1, <1>2

(* A reference that leaves the table or the hands of the run has its edge, *)
(* is held back, or is put down as missed.                                 *)
LEMMA ResolvingAccounts ==
  ASSUME UsesAreAccounted, ResolveScoped \/ ResolveBatch \/ ResolveChains
  PROVE  UsesAreAccounted'
<1>1. PICK batch : Link(batch) /\ \A r \in (refs \cup deferred) \ (refs' \cup deferred') :
                                     r \in batch \cup missed'
  <2>1. CASE ResolveScoped
    BY <2>1 DEF ResolveScoped, Try, ResolvedRows
  <2>2. CASE ResolveBatch
    <3>1. PICK batch \in SUBSET refs :
            /\ Try(batch) /\ refs' = refs \ batch
            /\ missed' = missed \cup {r \in batch : r[2] \notin Chained /\ Candidates(r) = {}}
      BY <2>2 DEF ResolveBatch
    <3> WITNESS Resolvable(batch)
    <3> QED
      BY <3>1 DEF Try, Resolvable
  <2>3. CASE ResolveChains
    BY <2>3 DEF ResolveChains
  <2> QED
    BY <2>1, <2>2, <2>3
<1>2. UNCHANGED <<record, cut, forgotten>> /\ missed \subseteq missed'
  BY DEF ResolveScoped, ResolveBatch, ResolveChains, history
<1> SUFFICES ASSUME NEW f \in Paths, NEW u \in record[f].uses
             PROVE  Accounted(f, u)'
  BY <1>2 DEF UsesAreAccounted, Accounted
<1>3. Accounted(f, u)
  BY DEF UsesAreAccounted, Accounted
<1>4. CASE <<f, u>> \in batch
  <2>1. \E e \in edges' : e.from = f /\ e.to[2] = u
    BY <1>1, <1>4, LinkAddsEdges
  <2> QED
    BY <2>1 DEF Accounted
<1>5. CASE \E e \in edges : e.from = f /\ e.to[2] = u
  BY <1>1, <1>5, LinkAddsEdges DEF Accounted
<1>6. CASE <<f, u>> \notin batch /\ <<f, u>> \in refs \cup deferred \cup missed \cup cut \cup forgotten
  BY <1>1, <1>2, <1>6 DEF Accounted
<1> QED
  BY <1>3, <1>4, <1>5, <1>6 DEF Accounted

LEMMA OtherStepsAccount ==
  ASSUME IndexInv, UsesAreAccounted, UNCHANGED tables,
         \/ \E f \in Paths : Change(f)
         \/ \E n \in nodes : GetNodeById(n)
         \/ \E p \in Writers, kind \in {"sync", "index"} : StartRun(p, kind)
         \/ EndStore \/ EndBatches \/ RunDies \/ UNCHANGED indexVars
  PROVE  UsesAreAccounted'
<1>1. /\ UNCHANGED <<missed, cut>> /\ forgotten \subseteq forgotten'
      /\ deferred \subseteq deferred' \cup refs \cup forgotten'
  <2>1. CASE RunDies
    BY <2>1 DEF RunDies
  <2>2. CASE UNCHANGED <<deferred, history>>
    BY <2>2 DEF history
  <2> QED
    BY <2>1, <2>2 DEF Change, GetNodeById, StartRun, EndStore, EndBatches, indexVars
<1> QED
  BY <1>1 DEF UsesAreAccounted, tables

LEMMA ClearIndexAccounts == ClearIndex => UsesAreAccounted'
  BY DEF ClearIndex, UsesAreAccounted, Missing

-----------------------------------------------------------------------------
(* The server's row cache, as long as it is the only writer.               *)
LEMMA CacheStepKeeps ==
  ASSUME RunsAreInOrder, CacheIsCurrent, [StepIndex]_indexVars
  PROVE  CacheIsCurrent'
<1>1. CASE \E f \in Paths : StoreFile(f)
  <2>1. PICK f \in Paths : StoreFile(f)
    BY <1>1
  <2>2. run.by \in {"server", "cli"}
    BY <2>1 DEF StoreFile, RunsAreInOrder, Runs, Writers
  <2>3. CASE RowsStay(f)
    BY <2>1, <2>3 DEF StoreFile, tables, CacheIsCurrent
  <2>4. CASE ~RowsStay(f)
    <3>1. /\ Without(f, nodes) \subseteq nodes'
          /\ cache' = Evicted(f) /\ foreign' = (foreign \/ run.by = "cli")
      BY <2>1, <2>4 DEF StoreFile
    <3> QED
      BY <2>2, <3>1 DEF CacheIsCurrent, Evicted, Without
  <2> QED
    BY <2>3, <2>4
<1>2. CASE \E n \in nodes : GetNodeById(n)
  BY <1>2 DEF GetNodeById, CacheIsCurrent, tables, history
<1>3. CASE ClearIndex
  BY <1>3 DEF ClearIndex, CacheIsCurrent
<1>4. CASE /\ nodes' = nodes /\ cache' \in {cache, {}} /\ foreign' = foreign
  BY <1>4 DEF CacheIsCurrent
<1>5. ASSUME \/ \E f \in Paths : Change(f)
             \/ \E p \in Writers, kind \in {"sync", "index"} : StartRun(p, kind)
             \/ EndStore \/ ResolveScoped \/ ResolveBatch \/ EndBatches \/ ResolveChains
             \/ RunDies \/ UNCHANGED indexVars
      PROVE  nodes' = nodes /\ cache' \in {cache, {}} /\ foreign' = foreign
  BY <1>5 DEF Change, StartRun, EndStore, ResolveScoped, ResolveBatch, EndBatches, ResolveChains,
       RunDies, indexVars, tables, history
<1> QED
  BY <1>1, <1>2, <1>3, <1>4, <1>5 DEF StepIndex

(* resolution/index.ts:805-836, queries.ts:399-410: whatever runs, dies or *)
(* is edited in between, no reference of an indexed content is lost but by *)
(* the causes on record, and the rows a server answers from exist as long  *)
(* as no other process writes.                                             *)
THEOREM ReferencesStayKept == SpecIndex => []ReferencesAreKept
<1>1. InitIndex => ReferencesAreKept
  BY UsesStartAccounted DEF InitIndex, ReferencesAreKept, CacheIsCurrent
<1>2. IndexInv /\ ReferencesAreKept /\ [StepIndex]_indexVars => ReferencesAreKept'
  <2> SUFFICES ASSUME IndexInv, ReferencesAreKept, [StepIndex]_indexVars
               PROVE  ReferencesAreKept'
    OBVIOUS
  <2> USE DEF ReferencesAreKept
  <2>1. CacheIsCurrent'
    BY CacheStepKeeps DEF IndexInv
  <2>2. CASE \E f \in Paths : StoreFile(f)
    BY <2>1, <2>2, StoreFileAccounts
  <2>3. CASE ResolveScoped \/ ResolveBatch \/ ResolveChains
    BY <2>1, <2>3, ResolvingAccounts
  <2>4. CASE ClearIndex
    BY <2>1, <2>4, ClearIndexAccounts
  <2>5. CASE \/ \E f \in Paths : Change(f)
             \/ \E n \in nodes : GetNodeById(n)
             \/ \E p \in Writers, kind \in {"sync", "index"} : StartRun(p, kind)
             \/ EndStore \/ EndBatches \/ RunDies \/ UNCHANGED indexVars
    <3>1. UNCHANGED tables
      BY <2>5 DEF Change, GetNodeById, StartRun, EndStore, EndBatches, RunDies, indexVars
    <3> QED
      BY <2>1, <2>5, <3>1, OtherStepsAccount
  <2> QED
    BY <2>2, <2>3, <2>4, <2>5 DEF StepIndex
<1> QED
  BY <1>1, <1>2, IndexInvHolds, PTL DEF SpecIndex
-----------------------------------------------------------------------------
(***************************************************************************)
(* Walks over the graph.                                                   *)
(***************************************************************************)
Trails == [ids : Seq(Ids), rows : Seq(DOMAIN graph.edges)]

TrailsLead ==
    /\ queue \in Seq(Trails) /\ at \in Trails /\ DOMAIN by \subseteq Ids
    /\ \A k \in DOMAIN queue : IsTrail(queue[k])
    /\ IsTrail(at)
    /\ \A id \in DOMAIN by : by[id] \in Trails /\ IsTrail(by[id]) /\ End(by[id]) = id

(* What waits is one edge further than what was visited last, or as far.   *)
QueueIsSorted ==
    /\ \A k \in DOMAIN queue : Depth(at) <= Depth(queue[k]) /\ Depth(queue[k]) <= Depth(at) + 1
    /\ \A j, k \in DOMAIN queue : j <= k => Depth(queue[j]) <= Depth(queue[k])
    /\ \A id \in DOMAIN by : Depth(by[id]) <= Depth(at)
    /\ asked.q = "bfs" => Depth(at) <= asked.o.maxDepth /\ \A k \in DOMAIN queue : Depth(queue[k]) <= asked.o.maxDepth

OpenEdges ==
    /\ todo \subseteq Adjacent(End(at))
    /\ todo # {} => End(at) \in DOMAIN by /\ by[End(at)] = at /\ ~FarEnough(at) /\ path = NoPath

StartIsSettled ==
    \/ asked.id \in DOMAIN by /\ Depth(by[asked.id]) = 0
    \/ queue = <<Start>> /\ todo = {} /\ DOMAIN by = {}

Settled(id, n) ==
    \/ id \in DOMAIN by /\ Depth(by[id]) <= n
    \/ \E k \in DOMAIN queue : End(queue[k]) = id /\ Depth(queue[k]) <= n

(* A neighbour of a visited node is visited, waits or is about to be met.  *)
NeighboursAreSettled ==
    \A a \in DOMAIN by : \A b \in Ids :
        ~FarEnough(by[a]) /\ Leads(a, b) =>
            Settled(b, Depth(by[a]) + 1) \/ (a = End(at) /\ \E i \in todo : Other(i, a) = b)

ShortestSoFar == \A id \in DOMAIN by : IsShortest(by[id])

PathIsFound ==
    /\ path # NoPath => asked.q = "path" /\ IsTrail(path) /\ End(path) = asked.to /\ IsShortest(path)
    /\ asked.q = "path" => asked.to \notin DOMAIN by

ListIsKept ==
    /\ asked.q = "bfs" => \A id \in listed : Within(asked.o.maxDepth, id)
    /\ \A k \in DOMAIN queue : End(queue[k]) \in listed \cup {asked.id}
    /\ DOMAIN by \subseteq listed \cup {asked.id}
    /\ asked.id \in listed <=> asked.o.includeStart

Nothing == queue = <<>> /\ todo = {} /\ DOMAIN by = {} /\ listed = {} /\ path = NoPath
Underway ==
    /\ TrailsLead /\ QueueIsSorted /\ OpenEdges /\ ShortestSoFar /\ PathIsFound /\ ListIsKept
    /\ path = NoPath => StartIsSettled /\ NeighboursAreSettled
WalkInv ==
    /\ graph \in Graphs /\ asked \in WalkQuestions(graph)
    /\ IF Known THEN Underway ELSE Nothing
-----------------------------------------------------------------------------
(* The graph and the question stay as they are, and so does what is        *)
(* defined by them alone.                                                  *)
LEMMA QuestionStays ==
  ASSUME UNCHANGED <<graph, asked>>
  PROVE  /\ Ids' = Ids /\ Trails' = Trails /\ Start' = Start /\ Known' = Known
         /\ \A a : Adjacent(a)' = Adjacent(a) /\ Fits(a)' = Fits(a)
         /\ \A i, a : Other(i, a)' = Other(i, a)
         /\ \A a, b : Leads(a, b)' = Leads(a, b)
         /\ \A n, id : Reaches(n, id)' = Reaches(n, id) /\ Within(n, id)' = Within(n, id)
         /\ \A t : IsTrail(t)' = IsTrail(t) /\ IsShortest(t)' = IsShortest(t) /\ FarEnough(t)' = FarEnough(t)
         /\ \A id : Sought(id)' = Sought(id)
<1>1. Ids' = Ids /\ Trails' = Trails /\ Start' = Start /\ Known' = Known
  BY DEF Ids, Trails, Start, Known
<1>2. \A a : Adjacent(a)' = Adjacent(a) /\ Fits(a)' = Fits(a)
  BY <1>1 DEF Adjacent, Edge, Fits
<1>3. \A i, a : Other(i, a)' = Other(i, a)
  BY DEF Other, Edge
<1>4. \A a, b : Leads(a, b)' = Leads(a, b)
  BY <1>2, <1>3 DEF Leads
<1>5. \A n, id : Reaches(n, id)' = Reaches(n, id)
  BY <1>1, <1>4 DEF Reaches
<1>6. \A n, id : Within(n, id)' = Within(n, id)
  BY <1>5 DEF Within
<1>7. \A t : IsTrail(t)' = IsTrail(t)
  BY <1>2, <1>3 DEF IsTrail
<1>8. \A t : IsShortest(t)' = IsShortest(t)
  BY <1>5 DEF IsShortest, End, Depth
<1>9. \A t : FarEnough(t)' = FarEnough(t)
  BY DEF FarEnough, Depth
<1>10. \A id : Sought(id)' = Sought(id)
  BY DEF Sought
<1> QED
  BY <1>1, <1>2, <1>3, <1>4, <1>5, <1>6, <1>7, <1>8, <1>9, <1>10

(* A trail of n edges is a chain of n steps.                               *)
LEMMA TrailsReach ==
  ASSUME NEW t \in Trails, IsTrail(t)
  PROVE  Depth(t) \in Nat /\ End(t) \in Ids /\ Reaches(Depth(t), End(t))
<1> DEFINE n == Depth(t)
           c == [k \in 0..n |-> t.ids[k + 1]]
<1>1. t.ids \in Seq(Ids) /\ t.rows \in Seq(DOMAIN graph.edges) /\ n \in Nat /\ Len(t.ids) = n + 1
  BY DEF Trails, IsTrail, Depth
<1>2. \A k \in 0..n : t.ids[k + 1] \in Ids
  BY <1>1
<1>3. c \in [0..n -> Ids]
  BY <1>2
<1>4. c[0] = asked.id /\ c[n] = End(t)
  BY <1>1 DEF IsTrail, End
<1>5. \A k \in 0..n - 1 : Leads(c[k], c[k + 1])
  <2> SUFFICES ASSUME NEW k \in 0..n - 1 PROVE Leads(c[k], c[k + 1])
    OBVIOUS
  <2>1. k + 1 \in DOMAIN t.rows
    BY <1>1 DEF Depth
  <2>2. /\ t.rows[k + 1] \in Adjacent(t.ids[k + 1]) /\ Other(t.rows[k + 1], t.ids[k + 1]) = t.ids[k + 2]
        /\ Fits(t.ids[k + 2])
    BY <1>1, <2>1 DEF IsTrail
  <2>3. c[k] = t.ids[k + 1] /\ c[k + 1] = t.ids[k + 2]
    BY <1>1
  <2> HIDE DEF c
  <2> QED
    BY <2>2, <2>3 DEF Leads
<1>6. End(t) \in Ids
  BY <1>1, <1>2 DEF End
<1> HIDE DEF c
<1> QED
  BY <1>1, <1>3, <1>4, <1>5, <1>6 DEF Reaches

(* One edge more.                                                          *)
LEMMA TrailsExtend ==
  ASSUME NEW t \in Trails, IsTrail(t), NEW i \in Adjacent(End(t)), Fits(Other(i, End(t)))
  PROVE  LET u == Trail(Append(t.ids, Other(i, End(t))), Append(t.rows, i)) IN
         u \in Trails /\ IsTrail(u) /\ Depth(u) = Depth(t) + 1 /\ End(u) = Other(i, End(t))
<1> DEFINE next == Other(i, End(t))
           n == Len(t.rows)
           u == Trail(Append(t.ids, next), Append(t.rows, i))
<1>1. t.ids \in Seq(Ids) /\ t.rows \in Seq(DOMAIN graph.edges) /\ n \in Nat /\ Len(t.ids) = n + 1
  BY DEF Trails, IsTrail
<1>2. i \in DOMAIN graph.edges /\ next \in Ids
  BY DEF Adjacent, Fits
<1>3. t.ids[n + 1] = End(t)
  BY <1>1 DEF End
<1> HIDE DEF next, n
<1>4. u.ids = Append(t.ids, next) /\ u.rows = Append(t.rows, i)
  BY DEF Trail
<1>5. u \in Trails
  BY <1>1, <1>2 DEF Trails, Trail
<1>6. Len(u.rows) = n + 1 /\ Len(u.ids) = n + 2 /\ u.ids[n + 2] = next /\ u.rows[n + 1] = i
  BY <1>1, <1>2, <1>4 DEF n
<1>7. /\ \A k \in 1..n + 1 : u.ids[k] = t.ids[k]
      /\ \A k \in 1..n : u.rows[k] = t.rows[k]
  BY <1>1, <1>2, <1>4 DEF n
<1> HIDE DEF u
<1>8. IsTrail(u)
  <2>1. u.ids[1] = asked.id
    BY <1>1, <1>7 DEF IsTrail
  <2>2. DOMAIN u.rows = 1..n + 1 /\ DOMAIN t.rows = 1..n
    BY <1>1, <1>4, <1>6, <1>2 DEF n
  <2>3. ASSUME NEW k \in 1..n + 1
        PROVE  u.rows[k] \in Adjacent(u.ids[k]) /\ Other(u.rows[k], u.ids[k]) = u.ids[k + 1] /\ Fits(u.ids[k + 1])
    <3>1. CASE k = n + 1
      <4>1. u.rows[k] = i /\ u.ids[k] = End(t)
        BY <1>1, <1>3, <1>6, <1>7, <3>1
      <4>2. k + 1 = n + 2 /\ u.ids[k + 1] = next
        BY <1>1, <1>6, <3>1
      <4> QED
        BY <4>1, <4>2 DEF next
    <3>2. CASE k \in 1..n
      <4>1. k + 1 \in 1..n + 1 /\ k \in DOMAIN t.rows
        BY <1>1, <2>2, <3>2
      <4> QED
        BY <1>7, <3>2, <4>1 DEF IsTrail
    <3> QED
      BY <1>1, <3>1, <3>2
  <2>4. Len(u.ids) = Len(u.rows) + 1
    BY <1>1, <1>6
  <2>5. \A k \in DOMAIN u.rows :
          u.rows[k] \in Adjacent(u.ids[k]) /\ Other(u.rows[k], u.ids[k]) = u.ids[k + 1] /\ Fits(u.ids[k + 1])
    BY <2>2, <2>3
  <2> QED
    BY <2>1, <2>4, <2>5 DEF IsTrail
<1>9. Depth(u) = Depth(t) + 1 /\ End(u) = next
  BY <1>1, <1>6 DEF Depth, End, n
<1> QED
  BY <1>5, <1>8, <1>9 DEF u, next

(* The first of a nonempty queue, and the rest of it.                      *)
LEMMA QueueSplits ==
  ASSUME NEW S, NEW q \in Seq(S), q # <<>>
  PROVE  /\ 1 \in DOMAIN q /\ Head(q) = q[1] /\ Head(q) \in S /\ Tail(q) \in Seq(S)
         /\ \A k \in DOMAIN Tail(q) : k + 1 \in DOMAIN q /\ Tail(q)[k] = q[k + 1]
         /\ \A k \in DOMAIN q : k # 1 => k - 1 \in DOMAIN Tail(q) /\ Tail(q)[k - 1] = q[k]
         /\ DOMAIN q \subseteq Nat /\ DOMAIN Tail(q) \subseteq Nat
  OBVIOUS

LEMMA QueueGrows ==
  ASSUME NEW S, NEW q \in Seq(S), NEW e \in S
  PROVE  /\ Append(q, e) \in Seq(S) /\ DOMAIN Append(q, e) = DOMAIN q \cup {Len(q) + 1}
         /\ Append(q, e)[Len(q) + 1] = e /\ \A k \in DOMAIN q : Append(q, e)[k] = q[k]
         /\ Len(q) + 1 \in Nat /\ DOMAIN q = 1..Len(q)
  OBVIOUS

(* Any set of naturals with a member has a least one.                      *)
LEMMA LeastDepth ==
  ASSUME NEW S, S \subseteq Nat, S # {}
  PROVE  \E m \in S : \A k \in S : m <= k
<1> DEFINE R == OpToRel(<, Nat)
<1>1. IsWellFoundedOn(R, Nat)
  BY NatLessThanWellFounded, Zenon
<1> HIDE DEF R
<1>2. PICK m \in S : \A k \in S : ~ (<<k, m>> \in R)
  BY <1>1, WFMin
<1>3. ASSUME NEW k \in S PROVE m <= k
  <2>1. k \in Nat /\ m \in Nat /\ (k < m => <<k, m>> \in R)
    BY DEF R, OpToRel
  <2> QED
    BY <1>2, <2>1
<1> QED
  BY <1>3

(* The heart of it: once all that waits is further than n edges from the   *)
(* start, every node within n edges has been visited, by a trail no longer *)
(* than that.  Otherwise take a nearest node that was not.                 *)
LEMMA NearIsVisited ==
  ASSUME WalkInv, Known, path = NoPath, todo = {}, NEW n \in Nat,
         \A k \in DOMAIN queue : n < Depth(queue[k]),
         asked.q = "bfs" => n <= asked.o.maxDepth,
         NEW m \in Nat, m <= n, NEW id, Reaches(m, id)
  PROVE  id \in DOMAIN by /\ Depth(by[id]) <= m
<1> DEFINE Done(j, a) == a \in DOMAIN by /\ Depth(by[a]) <= j
           Missed == {j \in 0..n : \E a \in Ids : Reaches(j, a) /\ ~Done(j, a)}
<1>1. TrailsLead /\ QueueIsSorted /\ StartIsSettled /\ NeighboursAreSettled
  BY DEF WalkInv, Underway
<1>2. \A a \in DOMAIN by : Depth(by[a]) \in Nat
  BY <1>1, TrailsReach DEF TrailsLead
<1>3. id \in Ids
  BY DEF Reaches
<1>4. asked.id \in DOMAIN by /\ Depth(by[asked.id]) = 0
  <2>1. queue # <<Start>>
    <3>1. Depth(Start) = 0
      BY DEF Depth, Start, Trail
    <3>2. ASSUME queue = <<Start>> PROVE FALSE
      <4>1. 1 \in DOMAIN queue /\ queue[1] = Start
        BY <3>2
      <4> QED
        BY <3>1, <4>1
    <3> QED
      BY <3>2
  <2> QED
    BY <1>1, <2>1 DEF StartIsSettled
<1>5. SUFFICES ASSUME Missed # {} PROVE FALSE
  <2>1. m \in 0..n
    OBVIOUS
  <2> QED
    BY <1>3, <1>5, <2>1
<1>6. PICK j \in Missed : \A k \in Missed : j <= k
  <2>1. Missed \subseteq Nat
    OBVIOUS
  <2> HIDE DEF Missed
  <2> QED
    BY <1>5, <2>1, LeastDepth
<1>7. PICK a \in Ids : Reaches(j, a) /\ ~Done(j, a)
  BY <1>6
<1>8. PICK c \in [0..j -> Ids] : c[0] = asked.id /\ c[j] = a /\ \A k \in 0..j - 1 : Leads(c[k], c[k + 1])
  BY <1>7 DEF Reaches
<1>9. j \in Nat /\ j <= n
  BY <1>6
<1>10. j # 0
  BY <1>4, <1>7, <1>8
<1> DEFINE i == j - 1
           b == c[i]
<1>11. i \in 0..n /\ i < j /\ i + 1 = j /\ i \in 0..j
  BY <1>9, <1>10
<1>12. b \in Ids /\ Leads(b, a)
  BY <1>8, <1>11
<1>13. Reaches(i, b)
  <2> DEFINE d == [k \in 0..i |-> c[k]]
  <2>1. d \in [0..i -> Ids] /\ d[0] = asked.id /\ d[i] = b
    BY <1>8, <1>11
  <2>2. \A k \in 0..i - 1 : Leads(d[k], d[k + 1])
    <3> SUFFICES ASSUME NEW k \in 0..i - 1 PROVE Leads(d[k], d[k + 1])
      OBVIOUS
    <3>1. d[k] = c[k] /\ d[k + 1] = c[k + 1] /\ k \in 0..j - 1
      BY <1>11
    <3> HIDE DEF d
    <3> QED
      BY <1>8, <3>1
  <2> HIDE DEF d, b
  <2> QED
    BY <2>1, <2>2 DEF Reaches
<1> HIDE DEF b
<1>14. Done(i, b)
  <2>1. i \notin Missed
    BY <1>6, <1>9, <1>11
  <2> HIDE DEF Done
  <2> QED
    BY <1>11, <1>12, <1>13, <2>1
<1>15. ~FarEnough(by[b])
  <2>1. Depth(by[b]) < n
    BY <1>2, <1>9, <1>11, <1>14
  <2>2. asked.q = "bfs" => asked.o.maxDepth \in Nat
    BY WalkAssumption DEF WalkInv
  <2> QED
    BY <1>2, <1>14, <2>1, <2>2 DEF FarEnough
<1>16. Settled(a, Depth(by[b]) + 1)
  BY <1>1, <1>7, <1>12, <1>14, <1>15 DEF NeighboursAreSettled
<1>17. ~ \E k \in DOMAIN queue : Depth(queue[k]) <= Depth(by[b]) + 1
  <2> SUFFICES ASSUME NEW k \in DOMAIN queue, Depth(queue[k]) <= Depth(by[b]) + 1 PROVE FALSE
    OBVIOUS
  <2>1. n < Depth(queue[k]) /\ Depth(queue[k]) \in Nat
    BY <1>1, TrailsReach DEF TrailsLead
  <2> QED
    BY <1>2, <1>9, <1>11, <1>14, <2>1
<1>18. a \in DOMAIN by /\ Depth(by[a]) <= Depth(by[b]) + 1
  BY <1>16, <1>17 DEF Settled
<1> QED
  BY <1>2, <1>7, <1>9, <1>11, <1>14, <1>18

-----------------------------------------------------------------------------
LEMMA StartIsTrail ==
  ASSUME Known
  PROVE  Start \in Trails /\ IsTrail(Start) /\ Depth(Start) = 0 /\ End(Start) = asked.id /\ IsShortest(Start)
<1>1. Start.ids = <<asked.id>> /\ Start.rows = <<>>
  BY DEF Start, Trail
<1>2. asked.id \in Ids
  BY DEF Known
<1>3. Start \in Trails
  BY <1>2 DEF Start, Trail, Trails
<1>4. Len(<<asked.id>>) = 1 /\ <<asked.id>>[1] = asked.id /\ Len(<<>>) = 0 /\ DOMAIN <<>> = {}
  OBVIOUS
<1> QED
  BY <1>1, <1>3, <1>4 DEF IsTrail, Depth, End, IsShortest

LEMMA WalkInvStarts == InitWalk => WalkInv
<1> SUFFICES ASSUME InitWalk PROVE WalkInv
  OBVIOUS
<1>1. graph \in Graphs /\ asked \in WalkQuestions(graph) /\ todo = {} /\ path = NoPath /\ DOMAIN by = {} /\ at = Start
  BY DEF InitWalk
<1>2. CASE ~Known
  BY <1>1, <1>2 DEF InitWalk, WalkInv, Nothing
<1>3. CASE Known
  <2>1. queue = <<Start>> /\ DOMAIN queue = {1} /\ queue[1] = Start
    BY <1>3 DEF InitWalk
  <2>2. Start \in Trails /\ IsTrail(Start) /\ Depth(Start) = 0 /\ End(Start) = asked.id /\ IsShortest(Start)
    BY <1>3, StartIsTrail
  <2>3. asked.o.maxDepth \in Nat /\ asked.o.includeStart \in BOOLEAN
    BY <1>1, WalkAssumption
  <2>4. TrailsLead
    BY <1>1, <2>1, <2>2 DEF TrailsLead
  <2>5. QueueIsSorted
    BY <1>1, <2>1, <2>2, <2>3 DEF QueueIsSorted
  <2>6. OpenEdges /\ ShortestSoFar /\ PathIsFound
    BY <1>1 DEF OpenEdges, ShortestSoFar, PathIsFound
  <2>7. Reaches(0, asked.id)
    BY <2>2, TrailsReach
  <2>8. listed \subseteq {asked.id} /\ (asked.id \in listed <=> asked.o.includeStart)
    BY <1>3, <2>3 DEF InitWalk
  <2>9. ListIsKept
    BY <1>1, <2>1, <2>2, <2>3, <2>7, <2>8 DEF ListIsKept, Within
  <2>10. StartIsSettled /\ NeighboursAreSettled
    BY <1>1, <2>1 DEF StartIsSettled, NeighboursAreSettled
  <2> QED
    BY <1>1, <1>3, <2>4, <2>5, <2>6, <2>9, <2>10 DEF WalkInv, Underway
<1> QED
  BY <1>2, <1>3

(* What comes off the queue is a shortest trail unless its node was        *)
(* visited.                                                                *)
LEMMA HeadIsShortest ==
  ASSUME WalkInv, Known, GoesOn, End(Head(queue)) \notin DOMAIN by
  PROVE  IsShortest(Head(queue))
<1> DEFINE t == Head(queue)
<1>1. TrailsLead /\ QueueIsSorted
  BY DEF WalkInv, Underway
<1>2. queue \in Seq(Trails) /\ queue # <<>> /\ todo = {} /\ path = NoPath
  BY <1>1 DEF TrailsLead, GoesOn
<1>3. 1 \in DOMAIN queue /\ t = queue[1] /\ DOMAIN queue \subseteq Nat /\ \A k \in DOMAIN queue : 1 <= k
  BY <1>2
<1>4. \A k \in DOMAIN queue : Depth(t) <= Depth(queue[k]) /\ Depth(queue[k]) \in Nat
  BY <1>1, <1>2, <1>3, TrailsReach DEF TrailsLead, QueueIsSorted
<1>5. SUFFICES ASSUME NEW m \in 0..TrailBound, m < Depth(t), Reaches(m, End(t)) PROVE FALSE
  BY DEF IsShortest
<1>6. m \in Nat
  BY WalkAssumption
<1>7. \A k \in DOMAIN queue : m < Depth(queue[k])
  BY <1>3, <1>4, <1>5, <1>6
<1>8. asked.q = "bfs" => m <= asked.o.maxDepth
  <2>1. asked.q = "bfs" => Depth(t) <= asked.o.maxDepth /\ asked.o.maxDepth \in Nat
    BY <1>1, <1>3, WalkAssumption DEF QueueIsSorted, WalkInv
  <2> QED
    BY <1>3, <1>4, <1>5, <1>6, <2>1
<1> HIDE DEF t
<1>9. End(t) \in DOMAIN by
  <2>1. m <= m /\ m \in Nat /\ Reaches(m, End(t)) /\ todo = {} /\ path = NoPath
    BY <1>2, <1>5, <1>6
  <2> QED
    BY <1>7, <1>8, <2>1, NearIsVisited
<1> QED
  BY <1>9 DEF t

(* A shorter queue: what was first is gone.                                *)
LEMMA FirstIsTaken ==
  ASSUME WalkInv, Known, GoesOn, queue' = Tail(queue), UNCHANGED <<graph, asked>>
  PROVE  LET t == Head(queue) IN
         /\ t \in Trails /\ IsTrail(t) /\ t # NoPath /\ Depth(t) \in Nat
         /\ Depth(at) <= Depth(t) /\ End(t) \in listed \cup {asked.id}
         /\ asked.q = "bfs" => Depth(t) <= asked.o.maxDepth
         /\ queue' \in Seq(Trails)
         /\ \A k \in DOMAIN queue' :
               /\ IsTrail(queue'[k]) /\ Depth(queue'[k]) \in Nat /\ End(queue'[k]) \in listed \cup {asked.id}
               /\ Depth(t) <= Depth(queue'[k]) /\ Depth(queue'[k]) <= Depth(at) + 1
               /\ asked.q = "bfs" => Depth(queue'[k]) <= asked.o.maxDepth
         /\ \A j, k \in DOMAIN queue' : j <= k => Depth(queue'[j]) <= Depth(queue'[k])
         /\ \A n, id : Settled(id, n) =>
               \/ id \in DOMAIN by /\ Depth(by[id]) <= n
               \/ id = End(t) /\ Depth(t) <= n
               \/ \E k \in DOMAIN queue' : End(queue'[k]) = id /\ Depth(queue'[k]) <= n
<1> DEFINE t == Head(queue)
           q == queue'
<1>1. TrailsLead /\ QueueIsSorted /\ ListIsKept /\ queue # <<>>
  BY DEF WalkInv, Underway, GoesOn
<1>2. queue \in Seq(Trails)
  BY <1>1 DEF TrailsLead
<1>3. /\ 1 \in DOMAIN queue /\ t = queue[1] /\ t \in Trails /\ q \in Seq(Trails)
      /\ \A k \in DOMAIN q : k \in Nat /\ k + 1 \in DOMAIN queue /\ q[k] = queue[k + 1]
      /\ \A k \in DOMAIN queue : k # 1 => k - 1 \in DOMAIN q /\ q[k - 1] = queue[k]
  BY <1>1, <1>2, QueueSplits
<1>4. \A k \in DOMAIN queue :
          /\ IsTrail(queue[k]) /\ Depth(queue[k]) \in Nat /\ End(queue[k]) \in listed \cup {asked.id}
          /\ Depth(at) <= Depth(queue[k]) /\ Depth(queue[k]) <= Depth(at) + 1
          /\ asked.q = "bfs" => Depth(queue[k]) <= asked.o.maxDepth
  BY <1>1, <1>2, TrailsReach DEF TrailsLead, QueueIsSorted, ListIsKept
<1>5. \A j, k \in DOMAIN queue : j <= k => Depth(queue[j]) <= Depth(queue[k])
  BY <1>1 DEF QueueIsSorted
<1> HIDE DEF t, q
<1>6. t # NoPath
  <2>1. Len(t.ids) = Len(t.rows) + 1 /\ t.rows \in Seq(DOMAIN graph.edges)
    BY <1>3, <1>4 DEF IsTrail, Trails
  <2>2. NoPath.ids = <<>> /\ NoPath.rows = <<>>
    BY DEF NoPath, Trail
  <2> QED
    BY <2>1, <2>2
<1>7. ASSUME NEW k \in DOMAIN q
      PROVE  /\ IsTrail(q[k]) /\ Depth(q[k]) \in Nat /\ End(q[k]) \in listed \cup {asked.id}
             /\ Depth(t) <= Depth(q[k]) /\ Depth(q[k]) <= Depth(at) + 1
             /\ asked.q = "bfs" => Depth(q[k]) <= asked.o.maxDepth
  <2>1. k + 1 \in DOMAIN queue /\ q[k] = queue[k + 1] /\ 1 <= k + 1
    BY <1>3
  <2> QED
    BY <1>3, <1>4, <1>5, <2>1
<1>8. ASSUME NEW j \in DOMAIN q, NEW k \in DOMAIN q, j <= k PROVE Depth(q[j]) <= Depth(q[k])
  <2>1. j + 1 <= k + 1 /\ j + 1 \in DOMAIN queue /\ k + 1 \in DOMAIN queue /\ q[j] = queue[j + 1] /\ q[k] = queue[k + 1]
    BY <1>3, <1>8
  <2> QED
    BY <1>5, <2>1
<1>9. ASSUME NEW n, NEW id, NEW k \in DOMAIN queue, End(queue[k]) = id, Depth(queue[k]) <= n
      PROVE  \/ id = End(t) /\ Depth(t) <= n
             \/ \E l \in DOMAIN q : End(q[l]) = id /\ Depth(q[l]) <= n
  <2>1. CASE k = 1
    BY <1>3, <1>9, <2>1
  <2>2. CASE k # 1
    BY <1>3, <1>9, <2>2
  <2> QED
    BY <2>1, <2>2
<1>10. \A n, id : Settled(id, n) =>
          \/ id \in DOMAIN by /\ Depth(by[id]) <= n
          \/ id = End(t) /\ Depth(t) <= n
          \/ \E k \in DOMAIN q : End(q[k]) = id /\ Depth(q[k]) <= n
  BY <1>9 DEF Settled
<1>11. /\ IsTrail(t) /\ Depth(t) \in Nat /\ Depth(at) <= Depth(t) /\ End(t) \in listed \cup {asked.id}
       /\ asked.q = "bfs" => Depth(t) <= asked.o.maxDepth
  BY <1>3, <1>4
<1> QED
  BY <1>3, <1>6, <1>7, <1>8, <1>10, <1>11 DEF t, q

LEMMA WalkInvStays == WalkInv /\ [StepWalk]_walkVars => WalkInv'
<1> SUFFICES ASSUME WalkInv, [StepWalk]_walkVars PROVE WalkInv'
  OBVIOUS
<1>1. UNCHANGED <<graph, asked>>
  BY DEF StepWalk, FindIt, SkipVisited, Visit, Follow, walkVars
<1> USE <1>1, QuestionStays
<1>2. graph' \in Graphs /\ asked' \in WalkQuestions(graph') /\ Known' = Known
  BY DEF WalkInv
<1>3. CASE UNCHANGED walkVars
  BY <1>3 DEF walkVars, WalkInv, Nothing, Underway, TrailsLead, QueueIsSorted, OpenEdges, ShortestSoFar, PathIsFound,
              ListIsKept, StartIsSettled, NeighboursAreSettled, Settled
<1>4. CASE ~Known
  <2>1. queue = <<>> /\ todo = {}
    BY <1>4 DEF WalkInv, Nothing
  <2>2. ~StepWalk
    BY <2>1 DEF StepWalk, FindIt, SkipVisited, Visit, GoesOn
  <2> QED
    BY <1>3, <2>2
<1> SUFFICES ASSUME Known, StepWalk PROVE Underway'
  BY <1>2, <1>3, <1>4 DEF WalkInv
<1>5. TrailsLead /\ QueueIsSorted /\ OpenEdges /\ ShortestSoFar /\ PathIsFound /\ ListIsKept
      /\ (path = NoPath => StartIsSettled /\ NeighboursAreSettled)
  BY DEF WalkInv, Underway
<1>6. \A id \in DOMAIN by : Depth(by[id]) \in Nat /\ Depth(by[id]) <= Depth(at)
  BY <1>5, TrailsReach DEF TrailsLead, QueueIsSorted
<1>7. at \in Trails /\ IsTrail(at) /\ Depth(at) \in Nat
  BY <1>5, TrailsReach DEF TrailsLead
<1> DEFINE t == Head(queue)
<1>8. CASE FindIt
  <2>1. GoesOn /\ path' = t /\ queue' = Tail(queue) /\ UNCHANGED <<at, todo, by, listed>> /\ asked.q = "path" /\ End(t) = asked.to
    BY <1>8 DEF FindIt
  <2>2. /\ t \in Trails /\ IsTrail(t) /\ t # NoPath /\ Depth(at) <= Depth(t) /\ Depth(t) \in Nat /\ queue' \in Seq(Trails)
        /\ \A k \in DOMAIN queue' :
               /\ IsTrail(queue'[k]) /\ Depth(queue'[k]) \in Nat /\ End(queue'[k]) \in listed \cup {asked.id}
               /\ Depth(t) <= Depth(queue'[k]) /\ Depth(queue'[k]) <= Depth(at) + 1
               /\ asked.q = "bfs" => Depth(queue'[k]) <= asked.o.maxDepth
        /\ \A j, k \in DOMAIN queue' : j <= k => Depth(queue'[j]) <= Depth(queue'[k])
    BY <2>1, FirstIsTaken
  <2>3. IsShortest(t)
    BY <1>5, <2>1, HeadIsShortest DEF PathIsFound
  <2> HIDE DEF t
  <2>4. TrailsLead'
    BY <1>5, <2>1, <2>2 DEF TrailsLead
  <2>5. QueueIsSorted'
    BY <1>5, <1>7, <2>1, <2>2 DEF QueueIsSorted, Depth
  <2>6. OpenEdges'
    BY <1>5, <2>1 DEF OpenEdges, GoesOn
  <2>7. ShortestSoFar' /\ PathIsFound'
    BY <1>5, <2>1, <2>2, <2>3 DEF ShortestSoFar, PathIsFound
  <2>8. ListIsKept'
    BY <1>5, <2>1, <2>2 DEF ListIsKept
  <2> QED
    BY <2>1, <2>2, <2>4, <2>5, <2>6, <2>7, <2>8 DEF Underway
<1>9. CASE SkipVisited
  <2>1. GoesOn /\ queue' = Tail(queue) /\ UNCHANGED <<at, todo, by, listed, path>> /\ End(t) \in DOMAIN by
        /\ todo = {} /\ path = NoPath
    BY <1>9 DEF SkipVisited, GoesOn
  <2>2. /\ Depth(at) <= Depth(t) /\ Depth(t) \in Nat /\ queue' \in Seq(Trails)
        /\ \A k \in DOMAIN queue' :
               /\ IsTrail(queue'[k]) /\ Depth(queue'[k]) \in Nat /\ End(queue'[k]) \in listed \cup {asked.id}
               /\ Depth(t) <= Depth(queue'[k]) /\ Depth(queue'[k]) <= Depth(at) + 1
               /\ asked.q = "bfs" => Depth(queue'[k]) <= asked.o.maxDepth
        /\ \A j, k \in DOMAIN queue' : j <= k => Depth(queue'[j]) <= Depth(queue'[k])
    BY <2>1, FirstIsTaken
  <2>3. \A n, id : Settled(id, n) =>
               \/ id \in DOMAIN by /\ Depth(by[id]) <= n
               \/ id = End(t) /\ Depth(t) <= n
               \/ \E k \in DOMAIN queue' : End(queue'[k]) = id /\ Depth(queue'[k]) <= n
    BY <2>1, FirstIsTaken
  <2> HIDE DEF t
  <2>4. TrailsLead'
    BY <1>5, <2>1, <2>2 DEF TrailsLead
  <2>5. QueueIsSorted'
    BY <1>5, <1>7, <2>1, <2>2 DEF QueueIsSorted, Depth
  <2>6. OpenEdges' /\ ShortestSoFar' /\ PathIsFound'
    BY <1>5, <2>1 DEF OpenEdges, ShortestSoFar, PathIsFound
  <2>7. ListIsKept'
    BY <1>5, <2>1, <2>2 DEF ListIsKept
  <2>8. StartIsSettled'
    BY <1>5, <2>1 DEF StartIsSettled, Depth
  <2>9. NeighboursAreSettled'
    <3> SUFFICES ASSUME NEW a \in DOMAIN by, NEW b \in Ids, ~FarEnough(by[a]), Leads(a, b)
                 PROVE  \/ b \in DOMAIN by /\ Depth(by[b]) <= Depth(by[a]) + 1
                        \/ \E k \in DOMAIN queue' : End(queue'[k]) = b /\ Depth(queue'[k]) <= Depth(by[a]) + 1
      BY <2>1 DEF NeighboursAreSettled, Settled, Depth, End
    <3>1. Settled(b, Depth(by[a]) + 1)
      BY <1>5, <2>1 DEF NeighboursAreSettled
    <3>2. CASE b = End(t) /\ Depth(t) <= Depth(by[a]) + 1
      <4>1. Depth(by[b]) \in Nat /\ Depth(by[b]) <= Depth(at)
        BY <1>6, <2>1, <3>2
      <4>2. Depth(by[b]) <= Depth(by[a]) + 1
        BY <1>6, <1>7, <2>2, <3>2, <4>1
      <4> QED
        BY <2>1, <3>2, <4>2
    <3> QED
      BY <2>3, <3>1, <3>2
  <2> QED
    BY <2>4, <2>5, <2>6, <2>7, <2>8, <2>9 DEF Underway
<1>10. CASE Visit
  <2> DEFINE here == End(t)
  <2>1. /\ GoesOn /\ queue' = Tail(queue) /\ at' = t /\ UNCHANGED <<listed, path>> /\ todo = {} /\ path = NoPath
        /\ here \notin DOMAIN by /\ ~Sought(here)
        /\ by' = [id \in DOMAIN by \cup {here} |-> IF id = here THEN t ELSE by[id]]
        /\ todo' = IF FarEnough(t) THEN {} ELSE Adjacent(here)
    BY <1>10 DEF Visit, GoesOn
  <2>2. /\ t \in Trails /\ IsTrail(t) /\ Depth(at) <= Depth(t) /\ Depth(t) \in Nat /\ queue' \in Seq(Trails)
        /\ here \in listed \cup {asked.id} /\ (asked.q = "bfs" => Depth(t) <= asked.o.maxDepth)
        /\ \A k \in DOMAIN queue' :
               /\ IsTrail(queue'[k]) /\ Depth(queue'[k]) \in Nat /\ End(queue'[k]) \in listed \cup {asked.id}
               /\ Depth(t) <= Depth(queue'[k]) /\ Depth(queue'[k]) <= Depth(at) + 1
               /\ asked.q = "bfs" => Depth(queue'[k]) <= asked.o.maxDepth
        /\ \A j, k \in DOMAIN queue' : j <= k => Depth(queue'[j]) <= Depth(queue'[k])
    BY <2>1, FirstIsTaken
  <2>3. \A n, id : Settled(id, n) =>
               \/ id \in DOMAIN by /\ Depth(by[id]) <= n
               \/ id = here /\ Depth(t) <= n
               \/ \E k \in DOMAIN queue' : End(queue'[k]) = id /\ Depth(queue'[k]) <= n
    BY <2>1, FirstIsTaken
  <2>4. IsShortest(t)
    BY <2>1, HeadIsShortest
  <2>5. here \in Ids
    BY <2>2, TrailsReach
  <2>6. queue = <<Start>> => t = Start
    OBVIOUS
  <2>7. here = End(t)
    OBVIOUS
  <2> HIDE DEF t, here
  <2>8. DOMAIN by' = DOMAIN by \cup {here} /\ by'[here] = t /\ \A id \in DOMAIN by : by'[id] = by[id]
    BY <2>1
  <2>9. TrailsLead'
    BY <1>5, <2>1, <2>2, <2>5, <2>7, <2>8 DEF TrailsLead, End
  <2>10. QueueIsSorted'
    <3>1. \A k \in DOMAIN queue' : Depth(queue'[k]) <= Depth(t) + 1
      BY <1>7, <2>2
    <3>2. \A id \in DOMAIN by' : Depth(by'[id]) <= Depth(t)
      BY <1>6, <1>7, <2>2, <2>8
    <3> QED
      BY <2>1, <2>2, <3>1, <3>2 DEF QueueIsSorted, Depth
  <2>11. OpenEdges'
    BY <2>1, <2>7, <2>8 DEF OpenEdges, End
  <2>12. ShortestSoFar'
    BY <1>5, <2>4, <2>8 DEF ShortestSoFar
  <2>13. PathIsFound'
    BY <1>5, <2>1, <2>8 DEF PathIsFound, Sought
  <2>14. ListIsKept'
    BY <1>5, <2>1, <2>2, <2>8 DEF ListIsKept
  <2>15. StartIsSettled'
    <3>1. CASE asked.id \in DOMAIN by
      BY <1>5, <2>1, <2>8, <3>1 DEF StartIsSettled, Depth
    <3>2. CASE asked.id \notin DOMAIN by
      <4>1. t = Start
        BY <1>5, <2>1, <2>6, <3>2 DEF StartIsSettled
      <4>2. here = asked.id /\ Depth(t) = 0
        BY <2>7, <4>1, StartIsTrail
      <4> QED
        BY <2>8, <4>2 DEF StartIsSettled, Depth
    <3> QED
      BY <3>1, <3>2
  <2>16. NeighboursAreSettled'
    <3>1. ASSUME NEW a \in DOMAIN by', NEW b \in Ids, ~FarEnough(by'[a]), Leads(a, b)
          PROVE  \/ b \in DOMAIN by' /\ Depth(by'[b]) <= Depth(by'[a]) + 1
                 \/ \E k \in DOMAIN queue' : End(queue'[k]) = b /\ Depth(queue'[k]) <= Depth(by'[a]) + 1
                 \/ a = here /\ \E i \in todo' : Other(i, a) = b
      <4>1. CASE a = here
        BY <2>1, <2>8, <3>1, <4>1 DEF Leads
      <4>2. CASE a # here
        <5>1. a \in DOMAIN by /\ by'[a] = by[a]
          BY <2>8, <3>1, <4>2
        <5>2. Settled(b, Depth(by[a]) + 1)
          BY <1>5, <2>1, <3>1, <5>1 DEF NeighboursAreSettled
        <5> QED
          BY <2>3, <2>8, <5>1, <5>2
      <4> QED
        BY <4>1, <4>2
    <3>2. End(at)' = here
      BY <2>1, <2>7 DEF End
    <3>3. \A a \in DOMAIN by', b \in Ids : ~FarEnough(by'[a]) /\ Leads(a, b) =>
              Settled(b, Depth(by[a]) + 1)' \/ (a = here /\ \E i \in todo' : Other(i, a) = b)
      BY <3>1 DEF Settled, Depth, End
    <3>4. /\ Ids' = Ids /\ \A a, b : Leads(a, b)' = Leads(a, b)
          /\ \A i, a : Other(i, a)' = Other(i, a)
          /\ \A a : FarEnough(by[a])' = FarEnough(by'[a])
      BY <1>1, QuestionStays DEF FarEnough, Depth
    <3> QED
      BY <3>2, <3>3, <3>4 DEF NeighboursAreSettled
  <2> QED
    BY <2>9, <2>10, <2>11, <2>12, <2>13, <2>14, <2>15, <2>16 DEF Underway
<1>11. ASSUME NEW i \in todo, Follow(i) PROVE Underway'
  <2> DEFINE here == End(at)
             next == Other(i, here)
             u == Trail(Append(at.ids, next), Append(at.rows, i))
  <2>1. /\ UNCHANGED <<at, by, path>> /\ todo' = todo \ {i}
        /\ IF next \notin DOMAIN by /\ Fits(next) THEN queue' = Append(queue, u) /\ listed' = listed \cup {next}
           ELSE UNCHANGED <<queue, listed>>
    BY <1>11 DEF Follow
  <2>2. /\ todo \subseteq Adjacent(here) /\ path = NoPath
        /\ here \in DOMAIN by /\ by[here] = at /\ ~FarEnough(at)
    BY <1>5 DEF OpenEdges
  <2>3. StartIsSettled /\ NeighboursAreSettled /\ asked.id \in DOMAIN by
    BY <1>5, <2>2 DEF StartIsSettled
  <2>4. OpenEdges' /\ ShortestSoFar' /\ PathIsFound'
    BY <1>5, <2>1, <2>2 DEF OpenEdges, ShortestSoFar, PathIsFound, End
  <2>5. StartIsSettled'
    BY <2>1, <2>3 DEF StartIsSettled, Depth
  <2>6. CASE ~(next \notin DOMAIN by /\ Fits(next))
    <3>1. UNCHANGED <<queue, listed>>
      BY <2>1, <2>6
    <3>2. TrailsLead' /\ QueueIsSorted' /\ ListIsKept'
      BY <1>5, <2>1, <3>1 DEF TrailsLead, QueueIsSorted, ListIsKept, Depth
    <3>3. ASSUME NEW a \in DOMAIN by, NEW b \in Ids, ~FarEnough(by[a]), Leads(a, b)
          PROVE  Settled(b, Depth(by[a]) + 1) \/ (a = here /\ \E j \in todo \ {i} : Other(j, a) = b)
      <4>1. Fits(b)
        BY <3>3 DEF Leads
      <4>2. CASE a = here /\ b = next
        <5>1. b \in DOMAIN by
          BY <2>6, <4>1, <4>2
        <5>2. Depth(by[b]) <= Depth(by[a]) + 1
          BY <1>6, <1>7, <2>2, <4>2, <5>1
        <5> QED
          BY <5>1, <5>2 DEF Settled
      <4>3. CASE ~(a = here /\ b = next)
        BY <2>3, <3>3, <4>3 DEF NeighboursAreSettled
      <4> QED
        BY <4>2, <4>3
    <3>4. NeighboursAreSettled'
      BY <2>1, <3>1, <3>3 DEF NeighboursAreSettled, Settled, Depth, End
    <3> QED
      BY <2>4, <2>5, <3>2, <3>4 DEF Underway
  <2>7. CASE next \notin DOMAIN by /\ Fits(next)
    <3>1. queue' = Append(queue, u) /\ listed' = listed \cup {next}
      BY <2>1, <2>7
    <3>2. u \in Trails /\ IsTrail(u) /\ Depth(u) = Depth(at) + 1 /\ End(u) = next
      BY <1>7, <2>2, <2>7, TrailsExtend
    <3>3. next # asked.id
      BY <2>3, <2>7
    <3> HIDE DEF here, next, u
    <3>4. queue \in Seq(Trails)
      BY <1>5 DEF TrailsLead
    <3> DEFINE l == Len(queue) + 1
    <3>5. /\ queue' \in Seq(Trails) /\ DOMAIN queue' = DOMAIN queue \cup {l} /\ queue'[l] = u
          /\ \A k \in DOMAIN queue : queue'[k] = queue[k] /\ k < l /\ k \in Nat
          /\ l \in Nat
      BY <3>1, <3>2, <3>4, QueueGrows
    <3> HIDE DEF l
    <3>6. \A k \in DOMAIN queue : Depth(queue[k]) \in Nat
      BY <1>5, TrailsReach DEF TrailsLead
    <3>7. asked.q = "bfs" => Depth(u) <= asked.o.maxDepth
      <4>1. asked.o.maxDepth \in Nat
        BY WalkAssumption DEF WalkInv
      <4> QED
        BY <1>7, <2>2, <3>2, <4>1 DEF FarEnough
    <3>8. TrailsLead'
      BY <1>5, <2>1, <3>2, <3>5 DEF TrailsLead
    <3>9. QueueIsSorted'
      <4>1. \A k \in DOMAIN queue' : Depth(at) <= Depth(queue'[k]) /\ Depth(queue'[k]) <= Depth(at) + 1
        BY <1>5, <1>7, <3>2, <3>5 DEF QueueIsSorted
      <4>2. ASSUME NEW j \in DOMAIN queue', NEW k \in DOMAIN queue', j <= k PROVE Depth(queue'[j]) <= Depth(queue'[k])
        <5>1. CASE k \in DOMAIN queue
          <6>1. j \in DOMAIN queue
            BY <3>5, <4>2, <5>1
          <6> QED
            BY <1>5, <3>5, <4>2, <5>1, <6>1 DEF QueueIsSorted
        <5>2. CASE k = l
          BY <3>2, <3>5, <4>1, <5>2
        <5> QED
          BY <3>5, <5>1, <5>2
      <4>3. asked.q = "bfs" => Depth(at) <= asked.o.maxDepth /\ \A k \in DOMAIN queue' : Depth(queue'[k]) <= asked.o.maxDepth
        BY <1>5, <3>5, <3>7 DEF QueueIsSorted
      <4>4. \A id \in DOMAIN by : Depth(by[id]) <= Depth(at)
        BY <1>6
      <4> QED
        BY <2>1, <4>1, <4>2, <4>3, <4>4 DEF QueueIsSorted, Depth
    <3>10. ListIsKept'
      <4>1. asked.q = "bfs" => Within(asked.o.maxDepth, next)
        <5>1. Reaches(Depth(u), next) /\ Depth(u) \in Nat
          BY <3>2, TrailsReach
        <5>2. asked.o.maxDepth \in Nat
          BY WalkAssumption DEF WalkInv
        <5> QED
          BY <3>7, <5>1, <5>2 DEF Within
      <4> QED
        BY <1>5, <2>1, <3>1, <3>2, <3>3, <3>5, <4>1 DEF ListIsKept
    <3>11. ASSUME NEW a \in DOMAIN by, NEW b \in Ids, ~FarEnough(by[a]), Leads(a, b)
           PROVE  \/ b \in DOMAIN by /\ Depth(by[b]) <= Depth(by[a]) + 1
                  \/ \E k \in DOMAIN queue' : End(queue'[k]) = b /\ Depth(queue'[k]) <= Depth(by[a]) + 1
                  \/ a = here /\ \E j \in todo \ {i} : Other(j, a) = b
      <4>1. CASE a = here /\ b = next
        <5>1. End(queue'[l]) = b /\ Depth(queue'[l]) = Depth(by[a]) + 1
          BY <2>2, <3>2, <3>5, <4>1
        <5> QED
          BY <1>6, <3>5, <5>1
      <4>2. CASE Settled(b, Depth(by[a]) + 1)
        BY <3>5, <4>2 DEF Settled
      <4>3. CASE ~(a = here /\ b = next) /\ ~Settled(b, Depth(by[a]) + 1)
        BY <2>3, <3>11, <4>3 DEF NeighboursAreSettled, here, next
      <4> QED
        BY <4>1, <4>2, <4>3
    <3>12. NeighboursAreSettled'
      BY <2>1, <3>11 DEF NeighboursAreSettled, Settled, Depth, End, here
    <3> QED
      BY <2>4, <2>5, <3>8, <3>9, <3>10, <3>12 DEF Underway
  <2> QED
    BY <2>6, <2>7
<1> QED
  BY <1>8, <1>9, <1>10, <1>11 DEF StepWalk

LEMMA WalkInvIsExact == WalkInv => WalksAreExact
<1> SUFFICES ASSUME WalkInv PROVE WalksAreExact
  OBVIOUS
<1>1. /\ asked.q \in {"bfs", "path"} /\ asked.o.maxDepth \in Nat /\ asked.o.includeStart \in BOOLEAN /\ TrailBound \in Nat
  BY WalkAssumption DEF WalkInv
<1>2. CASE ~Known
  <2>1. Nothing
    BY <1>2 DEF WalkInv
  <2>2. ASSUME NEW n \in Nat, NEW id, Within(n, id) PROVE asked.id \in Ids /\ id \in Ids
    <3>1. PICK m \in 0..n : Reaches(m, id)
      BY <2>2 DEF Within
    <3>2. PICK c \in [0..m -> Ids] : c[0] = asked.id /\ c[m] = id
      BY <3>1 DEF Reaches
    <3> QED
      BY <3>2
  <2>3. NearIsListed
    <3>1. asked.q = "bfs" => asked.id \notin Ids
      BY <1>2 DEF Known
    <3> QED
      BY <1>1, <2>1, <2>2, <3>1 DEF NearIsListed, Nothing
  <2>4. PathsAreShortest
    BY <1>1, <1>2, <2>1, <2>2 DEF PathsAreShortest, Nothing, Known
  <2> QED
    BY <2>3, <2>4 DEF WalksAreExact
<1>3. CASE Known
  <2>1. TrailsLead /\ ShortestSoFar /\ PathIsFound /\ ListIsKept
    BY <1>3 DEF WalkInv, Underway
  <2>2. ASSUME path = NoPath, Ended, NEW n \in Nat, asked.q = "bfs" => n <= asked.o.maxDepth,
               NEW id, Within(n, id)
        PROVE  id \in DOMAIN by
    <3>1. PICK m \in 0..n : Reaches(m, id)
      BY <2>2 DEF Within
    <3>2. todo = {} /\ \A k \in DOMAIN queue : n < Depth(queue[k])
      BY <2>2 DEF Ended
    <3>3. m \in Nat /\ m <= n
      OBVIOUS
    <3> QED
      BY <1>3, <2>2, <3>1, <3>2, <3>3, NearIsVisited
  <2>3. NearIsListed
    <3> SUFFICES ASSUME asked.q = "bfs" PROVE NearIsListed
      BY DEF NearIsListed
    <3>1. path = NoPath
      BY <2>1 DEF PathIsFound
    <3>2. \A id \in DOMAIN by : IsTrail(by[id]) /\ End(by[id]) = id /\ IsShortest(by[id])
      BY <2>1 DEF TrailsLead, ShortestSoFar
    <3>3. \A id \in listed : Within(asked.o.maxDepth, id)
      BY <2>1 DEF ListIsKept
    <3>4. ASSUME Ended, NEW id \in Ids, Within(asked.o.maxDepth, id)
          PROVE  id \in listed <=> (id # asked.id \/ asked.o.includeStart)
      <4>1. id \in DOMAIN by
        BY <1>1, <2>2, <3>1, <3>4
      <4> QED
        BY <2>1, <4>1 DEF ListIsKept
    <3> QED
      BY <3>2, <3>3, <3>4 DEF NearIsListed
  <2>4. PathsAreShortest
    <3> SUFFICES ASSUME asked.q = "path" PROVE PathsAreShortest
      BY DEF PathsAreShortest
    <3>1. ASSUME Ended, path = NoPath, Within(TrailBound, asked.to) PROVE FALSE
      <4>1. asked.to \in DOMAIN by
        BY <1>1, <2>2, <3>1
      <4> QED
        BY <2>1, <4>1 DEF PathIsFound
    <3> QED
      BY <2>1, <3>1 DEF PathsAreShortest, PathIsFound
  <2> QED
    BY <2>3, <2>4 DEF WalksAreExact
<1> QED
  BY <1>2, <1>3

(* Whatever the graph and the question, and in whatever order the edges of *)
(* a node are followed: a traversal visits nodes by shortest trails and,   *)
(* unless its limit ends it, lists just what lies within its depth; a path *)
(* that is found is a shortest one, and none is missed that TrailBound     *)
(* edges can make (traverseBFS and findPath, traversal.ts:48-120, 550-607).*)
THEOREM WalksFindTheNearest == SpecWalk => []WalksAreExact
<1> QED
  BY WalkInvStarts, WalkInvStays, WalkInvIsExact, PTL DEF SpecWalk
-----------------------------------------------------------------------------
(***************************************************************************)
(* The registry of repositories.                                           *)
(***************************************************************************)
RegistryRows == UNION {[S -> RepoRoots] : S \in SUBSET RepoNames}
RegistryFiles == [state : {"missing", "torn", "whole"}, rows : RegistryRows]
IndexJobs ==
    [pc : {"idle", "index", "read", "truncate", "write"}, name : RepoNames \cup {""}, root : RepoRoots \cup {""},
     read : RegistryRows, unseen : SUBSET RepoNames]

RegistryTypeOK ==
    /\ env \in SUBSET {"CODEGRAPH_HOME", "GITNEXUS_HOME"}
    /\ file \in [RegistryHomes -> RegistryFiles]
    /\ indexer \in [Indexers -> IndexJobs]
    /\ \A i \in Indexers : indexer[i].pc # "idle" => indexer[i].name \in RepoNames /\ indexer[i].root \in RepoRoots
    /\ registered \in [RepoNames -> Seq(RepoRoots)]
    /\ DOMAIN handles = RepoNames /\ handles = [n \in RepoNames |-> handles[n]]
    /\ overlooked \in SUBSET RepoNames

(* Whatever is read of a name, now or by an upsert that is under way, was  *)
(* written for it.                                                         *)
RowsAreRegistered(rows) == \A n \in RepoNames \cap DOMAIN rows : rows[n] \in Range(registered[n])
FilesAreRegistered == \A h \in HomeCandidates : RowsAreRegistered(file[h].rows)
ReadsAreRegistered == \A i \in Indexers : InUpsert(i) => RowsAreRegistered(indexer[i].read)
HandlesAreRegistered == \A n \in RepoNames : handles[n] # Gone => handles[n] \in Range(registered[n])

(* The file, unless it is being written, and the copy of each command that *)
(* is about to write it name a repository at its latest directory, but for *)
(* the names whose entry was overlooked, or came after the copy was made.  *)
LatestIsKnown ==
    WritesWhereItReads =>
        /\ ~BeingWritten => \A n \in RepoNames \ overlooked : Resolve(n) = Latest(n)
        /\ \A i \in Indexers : InUpsert(i) =>
              \A n \in RepoNames \ (overlooked \cup indexer[i].unseen) : PathIn(indexer[i].read, n) = Latest(n)

RegistryInv ==
    /\ RegistryTypeOK /\ FilesAreRegistered /\ ReadsAreRegistered /\ HandlesAreRegistered
    /\ LatestIsKnown
-----------------------------------------------------------------------------
LEMMA ReadPathIsPresent ==
  Present # {} => RegistryReadPath \in HomeCandidates /\ file[RegistryReadPath] # NeverWritten
<1> SUFFICES ASSUME Present # {} PROVE Min(Present) \in Present
  BY DEF RegistryReadPath, Present
<1>1. Present \subseteq {1, 2, 3, 4}
  BY DEF Present
<1>2. \E x \in Present : \A y \in Present : x <= y
  <2>1. CASE 1 \in Present
    BY <2>1, <1>1
  <2>2. CASE 1 \notin Present /\ 2 \in Present
    BY <2>2, <1>1
  <2>3. CASE 1 \notin Present /\ 2 \notin Present /\ 3 \in Present
    BY <2>3, <1>1
  <2>4. CASE 1 \notin Present /\ 2 \notin Present /\ 3 \notin Present
    <3>1. Present = {4}
      BY <2>4, <1>1
    <3> QED
      BY <3>1
  <2> QED
    BY <2>1, <2>2, <2>3, <2>4
<1> QED
  BY <1>2 DEF Min

LEMMA PathsAreHomes ==
  ASSUME env \in SUBSET {"CODEGRAPH_HOME", "GITNEXUS_HOME"}
  PROVE  /\ RegistryWritePath \in HomeCandidates /\ RegistryReadPath \in HomeCandidates
         /\ HomeCandidates \subseteq RegistryHomes
<1>1. RegistryHomes = {"CODEGRAPH_HOME", "GITNEXUS_HOME", "~/.codegraph", "~/.gitnexus"}
  <2>1. /\ HomeOrder[1] = "CODEGRAPH_HOME" /\ HomeOrder[2] = "GITNEXUS_HOME"
        /\ HomeOrder[3] = "~/.codegraph" /\ HomeOrder[4] = "~/.gitnexus"
    BY DEF HomeOrder
  <2>2. 1..4 = {1, 2, 3, 4}
    OBVIOUS
  <2> QED
    BY <2>1, <2>2 DEF RegistryHomes
<1>2. RegistryReadPath \in HomeCandidates
  <2>1. CASE Present = {}
    BY <2>1 DEF RegistryReadPath, HomeCandidates
  <2> QED
    BY <2>1, ReadPathIsPresent
<1> QED
  BY <1>1, <1>2 DEF RegistryWritePath, HomeCandidates

LEMMA RowsType ==
  /\ NoRows \in RegistryRows
  /\ \A name \in RepoNames, root \in RepoRoots :
        /\ Entry(name, root) \in RegistryRows
        /\ \A rows \in RegistryRows : Upserted(rows, name, root) \in RegistryRows
<1>1. ASSUME NEW S \in SUBSET RepoNames, NEW f \in [S -> RepoRoots] PROVE f \in RegistryRows
  BY DEF RegistryRows
<1>2. NoRows \in [{} -> RepoRoots]
  BY DEF NoRows
<1>3. ASSUME NEW name \in RepoNames, NEW root \in RepoRoots
      PROVE  /\ Entry(name, root) \in RegistryRows
             /\ \A rows \in RegistryRows : Upserted(rows, name, root) \in RegistryRows
  <2>1. Entry(name, root) \in [{name} -> RepoRoots] /\ {name} \in SUBSET RepoNames
    BY DEF Entry
  <2>2. ASSUME NEW rows \in RegistryRows PROVE Upserted(rows, name, root) \in RegistryRows
    <3>1. PICK S \in SUBSET RepoNames : rows \in [S -> RepoRoots]
      BY DEF RegistryRows
    <3>2. S \cup {name} \in SUBSET RepoNames /\ Upserted(rows, name, root) \in [S \cup {name} -> RepoRoots]
      BY <3>1 DEF Upserted
    <3> QED
      BY <3>2, <1>1
  <2> QED
    BY <2>1, <2>2, <1>1
<1> QED
  BY <1>1, <1>2, <1>3

(* Which registry is read depends on which files there are, not on what is *)
(* in them.                                                                *)
LEMMA ReadPathStays ==
  ASSUME UNCHANGED env, \A h \in RegistryHomes : file'[h] = NeverWritten <=> file[h] = NeverWritten
  PROVE  RegistryReadPath' = RegistryReadPath
<1>1. \A i \in 1..4 : HomeOrder[i] \in RegistryHomes
  BY DEF RegistryHomes
<1>2. HomeCandidates' = HomeCandidates
  BY DEF HomeCandidates
<1>3. Present' = Present
  BY <1>1, <1>2 DEF Present
<1> QED
  BY <1>3 DEF RegistryReadPath

LEMMA RegistryInvStarts == InitRegistry => RegistryInv
<1> SUFFICES ASSUME InitRegistry PROVE RegistryInv
  OBVIOUS
<1>1. PICK earlier \in RegistryHomes \cup {"nowhere"}, name \in RepoNames, root \in RepoRoots :
        /\ file = [h \in RegistryHomes |-> IF h = earlier THEN Whole(Entry(name, root)) ELSE NeverWritten]
        /\ registered = [n \in RepoNames |-> IF n = name /\ Resolve(name) = root THEN <<root>> ELSE <<>>]
  BY DEF InitRegistry
<1>2. env \in SUBSET {"CODEGRAPH_HOME", "GITNEXUS_HOME"}
  BY DEF InitRegistry
<1>3. RegistryTypeOK
  <2>1. file \in [RegistryHomes -> RegistryFiles]
    BY <1>1, RowsType DEF RegistryFiles, Whole, NeverWritten
  <2>2. NoJob \in IndexJobs
    BY RowsType DEF NoJob, IndexJobs
  <2>3. indexer \in [Indexers -> IndexJobs] /\ \A i \in Indexers : indexer[i].pc = "idle"
    BY <2>2 DEF InitRegistry, NoJob
  <2>4. registered \in [RepoNames -> Seq(RepoRoots)]
    BY <1>1
  <2> QED
    BY <1>2, <2>1, <2>3, <2>4 DEF RegistryTypeOK, InitRegistry
<1>4. \A h \in RegistryHomes : file[h].rows = IF h = earlier THEN Entry(name, root) ELSE NoRows
  BY <1>1 DEF Whole, NeverWritten
<1>5. RegistryReadPath \in RegistryHomes
  BY <1>2, PathsAreHomes
<1>6. \A n \in RepoNames : Resolve(n) = Latest(n)
  <2>1. ASSUME NEW n \in RepoNames PROVE Resolve(n) = Latest(n)
    <3>1. Resolve(n) = IF RegistryReadPath = earlier /\ n = name THEN root ELSE Gone
      BY <1>4, <1>5 DEF Resolve, PathIn, LoadRegistry, Entry, NoRows
    <3>2. Resolve(name) = IF RegistryReadPath = earlier THEN root ELSE Gone
      BY <1>4, <1>5 DEF Resolve, PathIn, LoadRegistry, Entry, NoRows
    <3>3. registered[n] = IF n = name /\ Resolve(name) = root THEN <<root>> ELSE <<>>
      BY <1>1
    <3>4. CASE n = name /\ Resolve(name) = root
      BY <3>4, <3>3 DEF Latest
    <3>5. CASE ~(n = name /\ Resolve(name) = root)
      BY <3>5, <3>1, <3>2, <3>3 DEF Latest
    <3> QED
      BY <3>4, <3>5
  <2> QED
    BY <2>1
<1>7. FilesAreRegistered
  <2> SUFFICES ASSUME NEW h \in HomeCandidates, NEW n \in RepoNames \cap DOMAIN file[h].rows
               PROVE  file[h].rows[n] \in Range(registered[n])
    BY DEF FilesAreRegistered, RowsAreRegistered
  <2>1. h \in RegistryHomes
    BY <1>2, PathsAreHomes
  <2>2. h = earlier /\ n = name /\ file[h].rows[n] = root
    BY <2>1, <1>4 DEF Entry, NoRows
  <2>3. Present # {}
    <3>1. PICK k \in 1..4 : HomeOrder[k] = h
      BY <2>1 DEF RegistryHomes
    <3>2. file[h] # NeverWritten
      BY <1>1, <2>1, <2>2 DEF Whole, NeverWritten
    <3> QED
      BY <3>1, <3>2 DEF Present
  <2>4. file[RegistryReadPath] # NeverWritten
    BY <2>3, ReadPathIsPresent
  <2>5. RegistryReadPath = earlier
    BY <2>4, <1>1, <1>5
  <2>6. Resolve(name) = root
    BY <2>5, <2>2 DEF Resolve, PathIn, LoadRegistry
  <2>7. registered[n] = <<root>>
    BY <2>2, <2>6, <1>1
  <2> QED
    BY <2>2, <2>7 DEF Range
<1>8. \A i \in Indexers : indexer[i].pc = "idle"
  BY DEF InitRegistry, NoJob
<1>9. ReadsAreRegistered
  BY <1>8 DEF ReadsAreRegistered, InUpsert
<1>10. LatestIsKnown
  BY <1>6, <1>8 DEF LatestIsKnown, InUpsert
<1>11. HandlesAreRegistered
  BY DEF InitRegistry, HandlesAreRegistered
<1> QED
  BY <1>3, <1>7, <1>9, <1>10, <1>11 DEF RegistryInv

-----------------------------------------------------------------------------
LEMMA JobUpdates ==
  ASSUME NEW job \in IndexJobs
  PROVE  /\ \A pc \in {"read", "write"} : LET j == [job EXCEPT !.pc = pc] IN
               j \in IndexJobs /\ j.name = job.name /\ j.root = job.root
         /\ \A rows \in RegistryRows, names \in SUBSET RepoNames :
               LET j == [job EXCEPT !.pc = "truncate", !.read = rows, !.unseen = names] IN
               j \in IndexJobs /\ j.name = job.name /\ j.root = job.root
         /\ \A name \in RepoNames : LET j == [job EXCEPT !.unseen = @ \cup {name}] IN
               j \in IndexJobs /\ j.pc = job.pc /\ j.name = job.name /\ j.root = job.root
<1>1. \A pc \in {"read", "write"} : LET j == [job EXCEPT !.pc = pc] IN
          j \in IndexJobs /\ j.name = job.name /\ j.root = job.root
  BY DEF IndexJobs
<1>2. ASSUME NEW rows \in RegistryRows, NEW names \in SUBSET RepoNames
      PROVE  LET j == [job EXCEPT !.pc = "truncate", !.read = rows, !.unseen = names] IN
             j \in IndexJobs /\ j.name = job.name /\ j.root = job.root
  BY DEF IndexJobs
<1>3. ASSUME NEW name \in RepoNames
      PROVE  LET j == [job EXCEPT !.unseen = @ \cup {name}] IN
             j \in IndexJobs /\ j.pc = job.pc /\ j.name = job.name /\ j.root = job.root
  BY DEF IndexJobs
<1> QED
  BY <1>1, <1>2, <1>3

LEMMA RegistryTypeStays == RegistryTypeOK /\ [StepRegistry]_registryVars => RegistryTypeOK'
<1> SUFFICES ASSUME RegistryTypeOK, [StepRegistry]_registryVars PROVE RegistryTypeOK'
  OBVIOUS
<1> USE DEF RegistryTypeOK
<1>1. ASSUME NEW i \in Indexers, NEW j \in IndexJobs, indexer' = [indexer EXCEPT ![i] = j],
             j.pc # "idle" => j.name \in RepoNames /\ j.root \in RepoRoots
      PROVE  /\ indexer' \in [Indexers -> IndexJobs]
             /\ \A k \in Indexers : indexer'[k].pc # "idle" => indexer'[k].name \in RepoNames /\ indexer'[k].root \in RepoRoots
  BY <1>1
<1>2. NoJob \in IndexJobs /\ NoJob.pc = "idle"
  BY RowsType DEF NoJob, IndexJobs
<1>3. /\ \A h \in HomeCandidates : file[h].rows \in RegistryRows
      /\ \A i \in Indexers : indexer[i] \in IndexJobs
  BY PathsAreHomes DEF RegistryFiles
<1>4. ASSUME NEW i \in Indexers, StartIndex(i) PROVE RegistryTypeOK'
  <2>1. PICK name \in RepoNames, root \in RepoRoots :
          indexer' = [indexer EXCEPT ![i] = [NoJob EXCEPT !.pc = "index", !.name = name, !.root = root]]
    BY <1>4 DEF StartIndex
  <2> DEFINE j == [NoJob EXCEPT !.pc = "index", !.name = name, !.root = root]
  <2>3. j \in IndexJobs /\ j.name = name /\ j.root = root
    BY <1>2 DEF IndexJobs
  <2>4. indexer' = [indexer EXCEPT ![i] = j]
    BY <2>1
  <2> HIDE DEF j
  <2> QED
    BY <1>1, <1>4, <2>3, <2>4 DEF StartIndex
<1>5. ASSUME NEW i \in Indexers, IndexRepo(i) PROVE RegistryTypeOK'
  <2> DEFINE j == [indexer[i] EXCEPT !.pc = "read"]
  <2>1. j \in IndexJobs /\ j.name = indexer[i].name /\ j.root = indexer[i].root
    BY <1>3, JobUpdates
  <2>2. indexer' = [indexer EXCEPT ![i] = j] /\ indexer[i].pc # "idle"
    BY <1>5 DEF IndexRepo
  <2> HIDE DEF j
  <2> QED
    BY <1>1, <1>5, <2>1, <2>2 DEF IndexRepo
<1>6. ASSUME NEW i \in Indexers, ReadRegistry(i) PROVE RegistryTypeOK'
  <2> DEFINE rows == LoadRegistry
             names == IF file[RegistryReadPath] = Torn THEN NamesRegistered ELSE {}
             j == [indexer[i] EXCEPT !.pc = "truncate", !.read = rows, !.unseen = names]
  <2>1. rows \in RegistryRows
    BY <1>3, PathsAreHomes DEF LoadRegistry
  <2>3. indexer' = [indexer EXCEPT ![i] = j] /\ indexer[i].pc # "idle"
    BY <1>6 DEF ReadRegistry
  <2>4. names \in SUBSET RepoNames
    BY DEF NamesRegistered
  <2> HIDE DEF rows, names
  <2>5. indexer[i] \in IndexJobs
    BY <1>3
  <2>2. j \in IndexJobs /\ j.name = indexer[i].name /\ j.root = indexer[i].root
    BY <2>1, <2>4, <2>5 DEF IndexJobs
  <2> HIDE DEF j
  <2> QED
    BY <1>1, <1>6, <2>2, <2>3 DEF ReadRegistry
<1>7. ASSUME NEW i \in Indexers, OpenForWriting(i) PROVE RegistryTypeOK'
  <2> DEFINE j == [indexer[i] EXCEPT !.pc = "write"]
  <2>1. j \in IndexJobs /\ j.name = indexer[i].name /\ j.root = indexer[i].root
    BY <1>3, JobUpdates
  <2>2. indexer' = [indexer EXCEPT ![i] = j] /\ indexer[i].pc # "idle"
    BY <1>7 DEF OpenForWriting
  <2> HIDE DEF j
  <2>3. Torn \in RegistryFiles
    BY RowsType DEF Torn, RegistryFiles
  <2>4. file' \in [RegistryHomes -> RegistryFiles]
    BY <1>7, <2>3 DEF OpenForWriting
  <2> QED
    BY <1>1, <1>7, <2>1, <2>2, <2>4 DEF OpenForWriting
<1>8. ASSUME NEW i \in Indexers, WriteRegistry(i) PROVE RegistryTypeOK'
  <2> DEFINE name == indexer[i].name
             root == indexer[i].root
             f == Whole(Upserted(indexer[i].read, name, root))
  <2>1. name \in RepoNames /\ root \in RepoRoots /\ indexer[i].read \in RegistryRows
    BY <1>8 DEF WriteRegistry, IndexJobs
  <2>2. f \in RegistryFiles
    BY <2>1, RowsType DEF Whole, RegistryFiles
  <2>3. /\ file' = [file EXCEPT ![RegistryWritePath] = f]
        /\ registered' = [registered EXCEPT ![name] = Append(registered[name], root)]
    BY <1>8 DEF WriteRegistry
  <2> HIDE DEF name, root, f
  <2>4. file' \in [RegistryHomes -> RegistryFiles]
    BY <2>2, <2>3
  <2>5. Append(registered[name], root) \in Seq(RepoRoots)
    BY <2>1
  <2>6. registered' \in [RepoNames -> Seq(RepoRoots)]
    BY <2>3, <2>5
  <2>7. overlooked' \in SUBSET RepoNames
    BY <1>3, <1>8 DEF WriteRegistry, IndexJobs
  <2>8. ASSUME NEW k \in Indexers
        PROVE  /\ indexer'[k] \in IndexJobs
               /\ indexer'[k].pc # "idle" => indexer'[k].name \in RepoNames /\ indexer'[k].root \in RepoRoots
    <3> DEFINE late == [indexer[k] EXCEPT !.unseen = @ \cup {name}]
    <3>1. indexer'[k] = NoJob \/ indexer'[k] = late \/ indexer'[k] = indexer[k]
      BY <1>8 DEF WriteRegistry, name
    <3>2. late \in IndexJobs /\ late.pc = indexer[k].pc /\ late.name = indexer[k].name /\ late.root = indexer[k].root
      BY <1>3, <2>1, JobUpdates
    <3> HIDE DEF late
    <3> QED
      BY <1>2, <1>3, <3>1, <3>2
  <2>9. indexer' \in [Indexers -> IndexJobs]
    BY <1>8, <2>8 DEF WriteRegistry
  <2> QED
    BY <1>8, <2>4, <2>6, <2>7, <2>8, <2>9 DEF WriteRegistry
<1>9. ASSUME NEW i \in Indexers, KillIndexer(i) PROVE RegistryTypeOK'
  <2>1. overlooked' \in SUBSET RepoNames
    BY <1>9 DEF KillIndexer, NamesRegistered
  <2> QED
    BY <1>1, <1>2, <1>9, <2>1 DEF KillIndexer
<1>10. CASE Request
  <2>1. PICK name \in RepoNames : OpenCached(name) \/ OpenAnew(name)
    BY <1>10 DEF Request
  <2>2. handles' = handles \/ handles' = [handles EXCEPT ![name] = Resolve(name)]
    BY <2>1 DEF OpenCached, OpenAnew
  <2>3. DOMAIN handles' = RepoNames /\ handles' = [n \in RepoNames |-> handles'[n]]
    BY <2>2
  <2> QED
    BY <1>10, <2>3 DEF Request
<1>11. CASE CloseAll
  BY <1>11 DEF CloseAll
<1>12. CASE UNCHANGED registryVars
  BY <1>12 DEF registryVars
<1> QED
  BY <1>4, <1>5, <1>6, <1>7, <1>8, <1>9, <1>10, <1>11, <1>12 DEF StepRegistry

(* What was written for a name stays on its list.                          *)
LEMMA RegisteredGrows ==
  ASSUME RegistryTypeOK, [StepRegistry]_registryVars, NEW n \in RepoNames
  PROVE  Range(registered[n]) \subseteq Range(registered'[n])
<1>1. CASE registered' = registered
  BY <1>1
<1>2. ASSUME NEW i \in Indexers, WriteRegistry(i) PROVE Range(registered[n]) \subseteq Range(registered'[n])
  <2> DEFINE old == registered[n]
             root == indexer[i].root
  <2>1. old \in Seq(RepoRoots) /\ root \in RepoRoots
    BY <1>2 DEF RegistryTypeOK, WriteRegistry
  <2>2. registered'[n] = old \/ registered'[n] = Append(old, root)
    BY <1>2 DEF WriteRegistry, RegistryTypeOK
  <2> HIDE DEF old, root
  <2>3. Range(old) \subseteq Range(Append(old, root))
    BY <2>1 DEF Range
  <2> QED
    BY <2>2, <2>3 DEF old
<1> QED
  BY <1>1, <1>2 DEF StepRegistry, StartIndex, IndexRepo, ReadRegistry, OpenForWriting, KillIndexer, Request, CloseAll, registryVars

LEMMA RowsStayRegistered ==
  ASSUME RegistryTypeOK, [StepRegistry]_registryVars, NEW rows, RowsAreRegistered(rows)
  PROVE  \A n \in RepoNames \cap DOMAIN rows : rows[n] \in Range(registered'[n])
  BY RegisteredGrows DEF RowsAreRegistered

(* Steps that leave the files alone, and the list of what was written.     *)
LEMMA SameFiles ==
  ASSUME UNCHANGED <<env, file>>
  PROVE  /\ HomeCandidates' = HomeCandidates /\ RegistryReadPath' = RegistryReadPath
         /\ RegistryWritePath' = RegistryWritePath /\ LoadRegistry' = LoadRegistry
         /\ WritesWhereItReads' = WritesWhereItReads
         /\ \A n \in RepoNames : Resolve(n)' = Resolve(n)
<1>1. HomeCandidates' = HomeCandidates /\ RegistryReadPath' = RegistryReadPath /\ RegistryWritePath' = RegistryWritePath
  BY ReadPathStays DEF HomeCandidates, RegistryWritePath
<1> QED
  BY <1>1 DEF LoadRegistry, WritesWhereItReads, Resolve, PathIn

(* If what was just written is what is read, it was so before.             *)
LEMMA SameHome ==
  ASSUME RegistryTypeOK, UNCHANGED env, NEW f, file' = [file EXCEPT ![RegistryWritePath] = f], f # NeverWritten
  PROVE  /\ RegistryWritePath' = RegistryWritePath /\ RegistryWritePath \in RegistryHomes
         /\ file'[RegistryWritePath] = f
         /\ WritesWhereItReads' => WritesWhereItReads /\ LoadRegistry' = f.rows
<1>1. RegistryWritePath' = RegistryWritePath
  BY DEF RegistryWritePath
<1>2. RegistryWritePath \in RegistryHomes
  BY PathsAreHomes DEF RegistryTypeOK
<1>3. file'[RegistryWritePath] = f /\ \A h \in RegistryHomes : h # RegistryWritePath => file'[h] = file[h]
  BY <1>2 DEF RegistryTypeOK
<1>4. ASSUME WritesWhereItReads' PROVE WritesWhereItReads /\ LoadRegistry' = f.rows
  <2>1. RegistryReadPath' = RegistryWritePath
    BY <1>1, <1>3, <1>4 DEF WritesWhereItReads
  <2>2. LoadRegistry' = f.rows
    BY <2>1, <1>3 DEF LoadRegistry
  <2>3. CASE file[RegistryWritePath] = NeverWritten
    BY <2>2, <2>3 DEF WritesWhereItReads
  <2>4. CASE file[RegistryWritePath] # NeverWritten
    <3>1. \A h \in RegistryHomes : file'[h] = NeverWritten <=> file[h] = NeverWritten
      BY <1>3, <2>4
    <3>2. RegistryReadPath = RegistryWritePath
      BY <3>1, <2>1, ReadPathStays
    <3> QED
      BY <2>2, <3>2 DEF WritesWhereItReads
  <2> QED
    BY <2>3, <2>4
<1> QED
  BY <1>1, <1>2, <1>3, <1>4

LEMMA RegistryInvStays == RegistryInv /\ [StepRegistry]_registryVars => RegistryInv'
<1> SUFFICES ASSUME RegistryInv, [StepRegistry]_registryVars PROVE RegistryInv'
  OBVIOUS
<1>1. RegistryTypeOK
  BY DEF RegistryInv
<1>2. RegistryTypeOK'
  BY <1>1, RegistryTypeStays
<1>3. /\ FilesAreRegistered /\ ReadsAreRegistered /\ HandlesAreRegistered /\ LatestIsKnown
  BY DEF RegistryInv
<1>4. indexer = [i \in Indexers |-> indexer[i]] /\ \A i \in Indexers : indexer[i] \in IndexJobs
  BY <1>1 DEF RegistryTypeOK
<1>5. \A i \in Indexers : indexer[i].pc \in {"idle", "index", "read", "truncate", "write"}
  BY <1>4 DEF IndexJobs
<1>6. RegistryReadPath \in HomeCandidates /\ HomeCandidates \subseteq RegistryHomes
  BY <1>1, PathsAreHomes DEF RegistryTypeOK
<1>7. ASSUME UNCHANGED <<env, file>> PROVE FilesAreRegistered'
  BY <1>1, <1>3, <1>7, SameFiles, RowsStayRegistered DEF FilesAreRegistered, RowsAreRegistered
<1>8. ASSUME \A i \in Indexers : InUpsert(i)' => InUpsert(i) /\ indexer'[i].read = indexer[i].read
      PROVE  ReadsAreRegistered'
  BY <1>1, <1>3, <1>8, RowsStayRegistered DEF ReadsAreRegistered, RowsAreRegistered
<1>9. ASSUME UNCHANGED handles PROVE HandlesAreRegistered'
  BY <1>1, <1>3, <1>9, RegisteredGrows DEF HandlesAreRegistered
(* A name nobody has registered is in no registry and in no copy of one.   *)
<1>10. ASSUME NEW n \in RepoNames \ NamesRegistered
       PROVE  /\ Latest(n) = Gone /\ Resolve(n) = Gone
              /\ \A i \in Indexers : InUpsert(i) => PathIn(indexer[i].read, n) = Gone
  <2>1. registered[n] = <<>> /\ Range(registered[n]) = {}
    BY <1>10 DEF NamesRegistered, Range
  <2>2. ASSUME NEW rows, RowsAreRegistered(rows) PROVE PathIn(rows, n) = Gone
    BY <2>1, <2>2 DEF PathIn, RowsAreRegistered
  <2> QED
    BY <1>3, <1>6, <2>1, <2>2 DEF Latest, Resolve, LoadRegistry, FilesAreRegistered, ReadsAreRegistered
<1>11. ASSUME UNCHANGED <<env, file, registered>>,
              overlooked' = overlooked \/ overlooked' = NamesRegistered,
              BeingWritten => BeingWritten' \/ overlooked' = NamesRegistered,
              \A i \in Indexers : InUpsert(i)' =>
                  InUpsert(i) /\ indexer'[i].read = indexer[i].read /\ indexer'[i].unseen = indexer[i].unseen
       PROVE  LatestIsKnown'
  <2> SUFFICES ASSUME WritesWhereItReads'
               PROVE  /\ ~BeingWritten' => \A n \in RepoNames \ overlooked' : Resolve(n)' = Latest(n)'
                      /\ \A i \in Indexers : InUpsert(i)' =>
                            \A n \in RepoNames \ (overlooked' \cup indexer'[i].unseen) : PathIn(indexer[i].read, n)' = Latest(n)'
    BY DEF LatestIsKnown
  <2>1. WritesWhereItReads
    BY <1>11, SameFiles
  <2>2. \A n \in RepoNames : Latest(n)' = Latest(n) /\ Resolve(n)' = Resolve(n)
    BY <1>11, SameFiles DEF Latest
  <2>3. \A i \in Indexers : InUpsert(i)' => InUpsert(i) /\ \A n \in RepoNames : PathIn(indexer[i].read, n)' = PathIn(indexer[i].read, n)
    BY <1>11 DEF PathIn
  <2>4. CASE overlooked' = NamesRegistered
    BY <1>10, <2>2, <2>3, <2>4
  <2>5. CASE overlooked' = overlooked /\ (BeingWritten => BeingWritten')
    BY <1>3, <1>11, <2>1, <2>2, <2>3, <2>5 DEF LatestIsKnown
  <2> QED
    BY <1>11, <2>4, <2>5
<1>12. ASSUME NEW i \in Indexers, StartIndex(i) \/ IndexRepo(i) \/ KillIndexer(i) PROVE RegistryInv'
  <2>1. UNCHANGED <<env, file, handles, registered>>
    BY <1>12 DEF StartIndex, IndexRepo, KillIndexer
  <2>2. \A k \in Indexers : k # i => indexer'[k] = indexer[k]
    BY <1>4, <1>12 DEF StartIndex, IndexRepo, KillIndexer
  <2>3. indexer'[i].pc \in {"idle", "index", "read"}
    <3>1. CASE StartIndex(i)
      <4>1. PICK name \in RepoNames, root \in RepoRoots :
              indexer' = [indexer EXCEPT ![i] = [NoJob EXCEPT !.pc = "index", !.name = name, !.root = root]]
        BY <3>1 DEF StartIndex
      <4> QED
        BY <1>4, <4>1 DEF NoJob
    <3>2. CASE IndexRepo(i)
      BY <1>4, <3>2 DEF IndexRepo, IndexJobs
    <3>3. CASE KillIndexer(i)
      BY <1>4, <3>3 DEF KillIndexer, NoJob
    <3> QED
      BY <1>12, <3>1, <3>2, <3>3
  <2>4. \A k \in Indexers : InUpsert(k)' => k # i /\ InUpsert(k) /\ indexer'[k] = indexer[k]
    BY <2>2, <2>3 DEF InUpsert
  <2>5. overlooked' = overlooked \/ overlooked' = NamesRegistered
    BY <1>12 DEF StartIndex, IndexRepo, KillIndexer
  <2>6. ASSUME BeingWritten PROVE BeingWritten' \/ overlooked' = NamesRegistered
    <3>1. PICK k \in Indexers : indexer[k].pc = "write"
      BY <2>6 DEF BeingWritten
    <3>2. RegistryWritePath' = RegistryWritePath /\ file' = file
      BY <2>1, SameFiles
    <3>3. CASE k # i
      BY <2>2, <2>6, <3>1, <3>2, <3>3 DEF BeingWritten
    <3>4. CASE k = i
      BY <1>12, <2>6, <3>1, <3>4 DEF BeingWritten, StartIndex, IndexRepo, KillIndexer
    <3> QED
      BY <3>3, <3>4
  <2>7. LatestIsKnown'
    BY <1>11, <2>1, <2>4, <2>5, <2>6
  <2> QED
    BY <1>2, <1>7, <1>8, <1>9, <2>1, <2>4, <2>7 DEF RegistryInv
<1>13. ASSUME NEW i \in Indexers, ReadRegistry(i) PROVE RegistryInv'
  <2>1. UNCHANGED <<env, file, handles, registered>> /\ indexer[i].pc = "read"
    BY <1>13 DEF ReadRegistry
  <2>2. \A k \in Indexers : k # i => indexer'[k] = indexer[k]
    BY <1>4, <1>13 DEF ReadRegistry
  <2> DEFINE rows == LoadRegistry
             names == IF file[RegistryReadPath] = Torn THEN NamesRegistered ELSE {}
  <2>3. indexer' = [indexer EXCEPT ![i] = [indexer[i] EXCEPT !.pc = "truncate", !.read = rows, !.unseen = names]]
    BY <1>13 DEF ReadRegistry
  <2> HIDE DEF rows, names
  <2>4. indexer'[i].pc = "truncate" /\ indexer'[i].read = rows /\ indexer'[i].unseen = names
    BY <1>4, <2>3 DEF IndexJobs
  <2>5. overlooked' = overlooked
    BY <1>13 DEF ReadRegistry
  <2>6. RowsAreRegistered(rows)
    BY <1>3, <1>6 DEF FilesAreRegistered, rows, LoadRegistry
  <2>7. ReadsAreRegistered'
    <3>1. ASSUME NEW k \in Indexers, InUpsert(k)' PROVE RowsAreRegistered(indexer'[k].read)
      <4>1. CASE k = i
        BY <2>4, <2>6, <4>1
      <4>2. CASE k # i
        BY <1>3, <2>2, <3>1, <4>2 DEF ReadsAreRegistered, InUpsert
      <4> QED
        BY <4>1, <4>2
    <3> QED
      BY <2>1, <3>1 DEF ReadsAreRegistered, RowsAreRegistered
  <2>8. \A k \in Indexers : InUpsert(k)' => k = i \/ (InUpsert(k) /\ indexer'[k] = indexer[k])
    BY <2>2 DEF InUpsert
  <2>9. /\ WritesWhereItReads' = WritesWhereItReads /\ RegistryWritePath' = RegistryWritePath
        /\ \A n \in RepoNames : Latest(n)' = Latest(n) /\ Resolve(n)' = Resolve(n)
    BY <2>1, SameFiles DEF Latest
  <2>10. BeingWritten => BeingWritten'
    <3>1. \A k \in Indexers : indexer[k].pc = "write" => indexer'[k].pc = "write"
      BY <2>1, <2>2
    <3> QED
      BY <2>1, <2>9, <3>1 DEF BeingWritten
  <2>11. \A n \in RepoNames : PathIn(indexer[i].read, n)' = Resolve(n)
    BY <2>4 DEF PathIn, Resolve, rows
  <2>12. LatestIsKnown'
    <3> SUFFICES ASSUME WritesWhereItReads'
                 PROVE  /\ ~BeingWritten' => \A n \in RepoNames \ overlooked' : Resolve(n)' = Latest(n)'
                        /\ \A k \in Indexers : InUpsert(k)' =>
                              \A n \in RepoNames \ (overlooked' \cup indexer'[k].unseen) : PathIn(indexer[k].read, n)' = Latest(n)'
      BY DEF LatestIsKnown
    <3>1. /\ ~BeingWritten => \A n \in RepoNames \ overlooked : Resolve(n) = Latest(n)
          /\ \A k \in Indexers : InUpsert(k) =>
                \A n \in RepoNames \ (overlooked \cup indexer[k].unseen) : PathIn(indexer[k].read, n) = Latest(n)
      BY <1>3, <2>9 DEF LatestIsKnown
    <3>2. ASSUME NEW n \in RepoNames \ (overlooked \cup names) PROVE Resolve(n) = Latest(n)
      <4>1. CASE file[RegistryReadPath] = Torn
        BY <1>10, <3>2, <4>1 DEF names
      <4>2. CASE file[RegistryReadPath] # Torn
        <5>1. ~BeingWritten
          BY <2>9, <4>2 DEF BeingWritten, WritesWhereItReads, Torn, NeverWritten
        <5> QED
          BY <3>1, <5>1
      <4> QED
        BY <4>1, <4>2
    <3>3. ASSUME NEW k \in Indexers, InUpsert(k)', NEW n \in RepoNames \ (overlooked' \cup indexer'[k].unseen)
          PROVE  PathIn(indexer[k].read, n)' = Latest(n)'
      <4>1. CASE k = i
        BY <2>4, <2>5, <2>9, <2>11, <3>2, <3>3, <4>1
      <4>2. CASE k # i
        <5>1. InUpsert(k) /\ indexer'[k] = indexer[k]
          BY <2>8, <3>3, <4>2
        <5>2. PathIn(indexer[k].read, n)' = PathIn(indexer[k].read, n)
          BY <5>1 DEF PathIn
        <5> QED
          BY <2>5, <2>9, <3>1, <3>3, <5>1, <5>2
      <4> QED
        BY <4>1, <4>2
    <3> QED
      BY <2>5, <2>9, <2>10, <3>1, <3>3
  <2> QED
    BY <1>2, <1>7, <1>9, <2>1, <2>7, <2>12 DEF RegistryInv
<1>14. ASSUME NEW i \in Indexers, OpenForWriting(i) PROVE RegistryInv'
  <2>1. UNCHANGED <<env, handles, registered, overlooked>> /\ indexer[i].pc = "truncate"
        /\ file' = [file EXCEPT ![RegistryWritePath] = Torn]
    BY <1>14 DEF OpenForWriting
  <2>2. Torn # NeverWritten /\ Torn.rows = NoRows
    BY DEF Torn, NeverWritten
  <2>3. \A k \in Indexers : k # i => indexer'[k] = indexer[k]
    BY <1>4, <1>14 DEF OpenForWriting
  <2>4. indexer'[i].pc = "write" /\ indexer'[i].read = indexer[i].read /\ indexer'[i].unseen = indexer[i].unseen
    BY <1>4, <1>14 DEF OpenForWriting, IndexJobs
  <2>5. \A k \in Indexers : InUpsert(k)' =>
            InUpsert(k) /\ indexer'[k].read = indexer[k].read /\ indexer'[k].unseen = indexer[k].unseen
    BY <2>1, <2>3, <2>4 DEF InUpsert
  <2>6. FilesAreRegistered'
    <3>1. \A h \in HomeCandidates' : h \in HomeCandidates /\ (file'[h] = file[h] \/ file'[h] = Torn)
      BY <1>1, <1>6, <2>1 DEF HomeCandidates, RegistryTypeOK
    <3> QED
      BY <1>3, <2>1, <2>2, <3>1 DEF FilesAreRegistered, RowsAreRegistered, NoRows
  <2>7. LatestIsKnown'
    <3>1. RegistryWritePath' = RegistryWritePath /\ file'[RegistryWritePath] = Torn
      BY <1>1, <2>1, <2>2, SameHome
    <3>2. BeingWritten'
      BY <2>4, <3>1 DEF BeingWritten
    <3> SUFFICES ASSUME WritesWhereItReads'
                 PROVE  \A k \in Indexers : InUpsert(k)' =>
                            \A n \in RepoNames \ (overlooked' \cup indexer'[k].unseen) : PathIn(indexer[k].read, n)' = Latest(n)'
      BY <3>2 DEF LatestIsKnown
    <3>3. WritesWhereItReads
      BY <1>1, <2>1, <2>2, SameHome
    <3>4. \A n \in RepoNames : Latest(n)' = Latest(n)
      BY <2>1 DEF Latest
    <3>5. \A k \in Indexers : InUpsert(k)' =>
              InUpsert(k) /\ \A n \in RepoNames : PathIn(indexer[k].read, n)' = PathIn(indexer[k].read, n)
      BY <2>5 DEF PathIn
    <3> QED
      BY <1>3, <2>1, <2>5, <3>3, <3>4, <3>5 DEF LatestIsKnown
  <2> QED
    BY <1>2, <1>8, <1>9, <2>1, <2>5, <2>6, <2>7 DEF RegistryInv
<1>15. ASSUME NEW i \in Indexers, WriteRegistry(i) PROVE RegistryInv'
  <2> DEFINE name == indexer[i].name
             root == indexer[i].root
             rows == Upserted(indexer[i].read, name, root)
  <2>1. UNCHANGED <<env, handles>> /\ indexer[i].pc = "write"
        /\ file' = [file EXCEPT ![RegistryWritePath] = Whole(rows)]
        /\ registered' = [registered EXCEPT ![name] = Append(registered[name], root)]
        /\ overlooked' = (overlooked \cup indexer[i].unseen) \ {name}
    BY <1>15 DEF WriteRegistry
  <2>2. Whole(rows) # NeverWritten /\ Whole(rows).rows = rows
    BY DEF Whole, NeverWritten
  <2>3. name \in RepoNames /\ root \in RepoRoots /\ registered[name] \in Seq(RepoRoots)
    BY <1>1, <2>1 DEF RegistryTypeOK
  <2>4. \A n \in RepoNames : PathIn(rows, n) = IF n = name THEN root ELSE PathIn(indexer[i].read, n)
    BY DEF PathIn, Upserted
  <2>5. registered'[name] = Append(registered[name], root) /\ \A n \in RepoNames : n # name => registered'[n] = registered[n]
    BY <1>1, <2>1, <2>3 DEF RegistryTypeOK
  <2>6. root \in Range(registered'[name])
    <3> DEFINE s == registered[name]
    <3>1. Append(s, root)[Len(s) + 1] = root /\ Len(s) + 1 \in DOMAIN Append(s, root)
      BY <2>3
    <3> QED
      BY <2>5, <3>1 DEF Range
  <2>7. /\ indexer'[i] = NoJob /\ NoJob.pc = "idle"
        /\ \A k \in Indexers : k # i =>
              indexer'[k] = IF InUpsert(k) THEN [indexer[k] EXCEPT !.unseen = @ \cup {name}] ELSE indexer[k]
    <3>1. NoJob.pc = "idle"
      BY DEF NoJob
    <3> QED
      BY <1>15, <3>1 DEF WriteRegistry
  <2>8. \A k \in Indexers : InUpsert(k)' =>
            /\ InUpsert(k) /\ indexer'[k].read = indexer[k].read
            /\ indexer'[k].unseen = indexer[k].unseen \cup {name}
    <3>1. ASSUME NEW k \in Indexers, InUpsert(k)' PROVE k # i /\ InUpsert(k)
      <4>1. k # i
        BY <2>7, <3>1 DEF InUpsert
      <4> QED
        BY <2>7, <3>1, <4>1 DEF InUpsert
    <3> QED
      BY <1>4, <2>7, <3>1 DEF IndexJobs
  <2>9. FilesAreRegistered'
    <3>1. ASSUME NEW n \in RepoNames \cap DOMAIN rows PROVE rows[n] \in Range(registered'[n])
      <4>1. CASE n = name
        BY <2>6, <4>1 DEF Upserted
      <4>2. CASE n # name
        <5>1. n \in DOMAIN indexer[i].read /\ rows[n] = indexer[i].read[n]
          BY <4>2 DEF Upserted
        <5>2. RowsAreRegistered(indexer[i].read)
          BY <1>3, <2>1 DEF ReadsAreRegistered, InUpsert
        <5> QED
          BY <2>5, <4>2, <5>1, <5>2 DEF RowsAreRegistered
      <4> QED
        BY <4>1, <4>2
    <3>2. \A h \in HomeCandidates' : h \in HomeCandidates /\ (file'[h] = file[h] \/ file'[h].rows = rows)
      BY <1>1, <1>6, <2>1, <2>2 DEF HomeCandidates, RegistryTypeOK
    <3> HIDE DEF rows
    <3>3. ASSUME NEW h \in HomeCandidates', NEW n \in RepoNames \cap DOMAIN file'[h].rows
          PROVE  file'[h].rows[n] \in Range(registered'[n])
      <4>1. CASE file'[h] = file[h]
        <5>1. RowsAreRegistered(file[h].rows)
          BY <1>3, <3>2 DEF FilesAreRegistered
        <5> QED
          BY <1>1, <4>1, <5>1, RowsStayRegistered
      <4>2. CASE file'[h].rows = rows
        BY <3>1, <4>2
      <4> QED
        BY <3>2, <4>1, <4>2
    <3> QED
      BY <3>3 DEF FilesAreRegistered, RowsAreRegistered
  <2>10. LatestIsKnown'
    <3> SUFFICES ASSUME WritesWhereItReads'
                 PROVE  /\ \A n \in RepoNames \ overlooked' : Resolve(n)' = Latest(n)'
                        /\ \A k \in Indexers : InUpsert(k)' =>
                              \A n \in RepoNames \ (overlooked' \cup indexer'[k].unseen) : PathIn(indexer[k].read, n)' = Latest(n)'
      BY DEF LatestIsKnown
    <3>1. WritesWhereItReads /\ LoadRegistry' = rows
      BY <1>1, <2>1, <2>2, SameHome
    <3>2. \A k \in Indexers : InUpsert(k) =>
              \A n \in RepoNames \ (overlooked \cup indexer[k].unseen) : PathIn(indexer[k].read, n) = Latest(n)
      BY <1>3, <3>1 DEF LatestIsKnown
    <3>3. \A n \in RepoNames : Resolve(n)' = PathIn(rows, n)
      BY <3>1 DEF Resolve, PathIn
    <3>4. \A n \in RepoNames : Latest(n)' = IF n = name THEN root ELSE Latest(n)
      <4>1. ASSUME NEW n \in RepoNames, n = name PROVE Latest(n)' = root
        <5>1. Append(registered[n], root) # <<>> /\ Append(registered[n], root)[Len(Append(registered[n], root))] = root
          BY <2>3, <4>1
        <5>2. registered'[n] = Append(registered[n], root)
          BY <2>5, <4>1
        <5> QED
          BY <5>1, <5>2 DEF Latest
      <4> QED
        BY <4>1, <2>5 DEF Latest
    <3>5. \A n \in RepoNames \ overlooked' : PathIn(rows, n) = Latest(n)'
      BY <2>1, <2>4, <3>2, <3>4 DEF InUpsert
    <3>6. ASSUME NEW k \in Indexers, InUpsert(k)', NEW n \in RepoNames \ (overlooked' \cup indexer'[k].unseen)
          PROVE  PathIn(indexer[k].read, n)' = Latest(n)'
      <4>1. InUpsert(k) /\ n # name /\ n \notin overlooked \cup indexer[k].unseen
        BY <2>1, <2>8, <3>6
      <4>2. PathIn(indexer[k].read, n)' = PathIn(indexer[k].read, n)
        BY <2>8, <3>6 DEF PathIn
      <4> QED
        BY <3>2, <3>4, <4>1, <4>2
    <3> QED
      BY <3>3, <3>5, <3>6
  <2> QED
    BY <1>2, <1>8, <1>9, <2>1, <2>8, <2>9, <2>10 DEF RegistryInv
<1>16. ASSUME UNCHANGED <<env, file, indexer, registered, overlooked>>, HandlesAreRegistered' PROVE RegistryInv'
  <2>1. RegistryWritePath' = RegistryWritePath
    BY <1>16, SameFiles
  <2>2. LatestIsKnown'
    BY <1>11, <1>16, <2>1 DEF BeingWritten, InUpsert
  <2> QED
    BY <1>2, <1>7, <1>8, <1>16, <2>2 DEF RegistryInv, InUpsert
<1>17. CASE Request
  <2>1. UNCHANGED <<env, file, indexer, registered, overlooked>>
    BY <1>17 DEF Request
  <2>2. PICK name \in RepoNames : OpenCached(name) \/ OpenAnew(name)
    BY <1>17 DEF Request
  <2>3. handles' = handles \/ handles' = [handles EXCEPT ![name] = Resolve(name)]
    BY <2>2 DEF OpenCached, OpenAnew
  <2>4. Resolve(name) # Gone => Resolve(name) \in Range(registered[name])
    BY <1>3, <1>6 DEF Resolve, PathIn, LoadRegistry, FilesAreRegistered, RowsAreRegistered
  <2>5. HandlesAreRegistered'
    BY <1>1, <1>3, <2>1, <2>3, <2>4 DEF HandlesAreRegistered, RegistryTypeOK
  <2> QED
    BY <1>16, <2>1, <2>5
<1>18. CASE CloseAll
  BY <1>16, <1>18 DEF CloseAll, HandlesAreRegistered
<1>19. CASE UNCHANGED registryVars
  BY <1>9, <1>16, <1>19 DEF registryVars
<1> QED
  BY <1>12, <1>13, <1>14, <1>15, <1>17, <1>18, <1>19 DEF StepRegistry

(* Whoever indexes, in whatever order commands read, write and die, side   *)
(* by side too: where the registry is read back, it names each repository  *)
(* at its latest directory but for those a writer did not know of, and the *)
(* server never answers for a name from a directory that was not indexed   *)
(* under it (lib/registry.js, lib/pool.js).                                *)
THEOREM RegistryFindsRepos == SpecRegistry => []RegisteredReposAreFound
<1>1. RegistryInv => RegisteredReposAreFound
  BY DEF RegistryInv, RegisteredReposAreFound, HandlesAreRegistered, LatestIsKnown
<1> QED
  BY <1>1, RegistryInvStarts, RegistryInvStays, PTL DEF SpecRegistry
=============================================================================
