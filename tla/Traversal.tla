------------------------------ MODULE Traversal ------------------------------
(***************************************************************************)
(* Questions about a stored graph (graph/traversal.ts, graph/queries.ts);  *)
(* the breadth-first ones are in BreadthFirst.                             *)
(* graph is [nodes, edges, files]: nodes maps an identifier to its record  *)
(* [kind, file, exported]; edges are rows [source, target, kind] in the    *)
(* order the database returns them; files are the paths of the files       *)
(* table.  A foreign key keeps both ends of an edge in nodes.              *)
(***************************************************************************)
EXTENDS Naturals, Sequences, FiniteSets, SequencesExt

CONSTANTS Graphs, Asked(_)

VARIABLES graph, asked, answer

traversalVars == <<graph, asked, answer>>

Nodes == DOMAIN graph.nodes
Kind(id) == graph.nodes[id].kind
NoAnswer == [nodes |-> <<>>, edges |-> <<>>, visited |-> {}]

-----------------------------------------------------------------------------
(* Edge queries; an empty set of kinds asks for all.                       *)
OfKinds(e, kinds) == kinds = {} \/ e.kind \in kinds
GetOutgoingEdges(id, kinds) == SelectSeq(graph.edges, LAMBDA e : e.source = id /\ OfKinds(e, kinds))
GetIncomingEdges(id, kinds) == SelectSeq(graph.edges, LAMBDA e : e.target = id /\ OfKinds(e, kinds))
FindEdgesBetweenNodes(ids, kinds) ==
    SelectSeq(graph.edges, LAMBDA e : e.source \in ids /\ e.target \in ids /\ OfKinds(e, kinds))

CrossFile(from, to) ==
    \E i \in DOMAIN graph.edges :
        LET e == graph.edges[i] IN
        e.kind # "contains" /\ graph.nodes[e.source].file = from /\ graph.nodes[e.target].file = to /\ from # to
FileOf == {graph.nodes[id].file : id \in Nodes}
GetDependencyFilePaths(path) == SetToSeq({f \in FileOf : CrossFile(path, f)})
GetDependentFilePaths(path) == SetToSeq({f \in FileOf : CrossFile(f, path)})

-----------------------------------------------------------------------------
(* Results: the nodes as the keys of a map, in the order they were set.    *)
Put(nodes, id) == IF id \in Range(nodes) THEN nodes ELSE Append(nodes, id)
Visit(s, id) == [s EXCEPT !.visited = @ \cup {id}]
Found(s, id, e) == [s EXCEPT !.nodes = Put(@, id), !.edges = Append(@, e)]

GetAdjacentEdges(id, o) ==
    CASE o.direction = "outgoing" -> GetOutgoingEdges(id, o.kinds)
      [] o.direction = "incoming" -> GetIncomingEdges(id, o.kinds)
      [] OTHER -> GetOutgoingEdges(id, o.kinds) \o GetIncomingEdges(id, o.kinds)
Next1(e, id) == IF e.source = id THEN e.target ELSE e.source
Wanted(id, o) == o.nodeKinds = {} \/ Kind(id) \in o.nodeKinds

RECURSIVE DfsRecursive(_, _, _, _)
DfsRecursive(s, id, depth, o) ==
    IF id \in s.visited \/ Len(s.nodes) >= o.limit \/ depth >= o.maxDepth THEN s
    ELSE FoldLeft(LAMBDA t, e : LET to == Next1(e, id) IN
                      IF to \in t.visited \/ ~Wanted(to, o) THEN t ELSE DfsRecursive(Found(t, to, e), to, depth + 1, o),
                  Visit(s, id), GetAdjacentEdges(id, o))
TraverseDFS(id, o) ==
    DfsRecursive([NoAnswer EXCEPT !.nodes = IF o.includeStart THEN <<id>> ELSE <<>>], id, 0, o)

-----------------------------------------------------------------------------
(* Callers and callees: pairs of a node and the edge it was reached by; a  *)
(* node is listed once for each edge from it that is met before its visit. *)
Usage == {"calls", "references", "imports"}
Listed(s, id, e) == [s EXCEPT !.nodes = Append(@, id), !.edges = Append(@, e)]

RECURSIVE CallersRecursive(_, _, _)
CallersRecursive(s, id, left) ==
    IF left = 0 \/ id \in s.visited THEN s
    ELSE FoldLeft(LAMBDA t, e : IF e.source \in t.visited THEN t ELSE CallersRecursive(Listed(t, e.source, e), e.source, left - 1),
                  Visit(s, id), GetIncomingEdges(id, Usage))
GetCallers(id, maxDepth) == CallersRecursive(NoAnswer, id, maxDepth)

RECURSIVE CalleesRecursive(_, _, _)
CalleesRecursive(s, id, left) ==
    IF left = 0 \/ id \in s.visited THEN s
    ELSE FoldLeft(LAMBDA t, e : IF e.target \in t.visited THEN t ELSE CalleesRecursive(Listed(t, e.target, e), e.target, left - 1),
                  Visit(s, id), GetOutgoingEdges(id, Usage))
GetCallees(id, maxDepth) == CalleesRecursive(NoAnswer, id, maxDepth)

GetCallGraph(id, depth) ==
    LET callers == GetCallers(id, depth)
        callees == GetCallees(id, depth) IN
    [NoAnswer EXCEPT !.nodes = FoldLeft(Put, <<id>>, callers.nodes \o callees.nodes), !.edges = callers.edges \o callees.edges]

-----------------------------------------------------------------------------
(* The type hierarchy.  The descendants share the visited set with the     *)
(* ancestors, which already holds the type that was asked for.             *)
Heritage == {"extends", "implements"}
RECURSIVE TypeAncestors(_, _)
TypeAncestors(s, id) ==
    IF id \in s.visited THEN s
    ELSE FoldLeft(LAMBDA t, e : IF e.target \in Range(t.nodes) THEN t ELSE TypeAncestors(Found(t, e.target, e), e.target),
                  Visit(s, id), GetOutgoingEdges(id, Heritage))
RECURSIVE TypeDescendants(_, _)
TypeDescendants(s, id) ==
    IF id \in s.visited THEN s
    ELSE FoldLeft(LAMBDA t, e : IF e.source \in Range(t.nodes) THEN t ELSE TypeDescendants(Found(t, e.source, e), e.source),
                  Visit(s, id), GetIncomingEdges(id, Heritage))
GetTypeHierarchy(id) == TypeDescendants(TypeAncestors([NoAnswer EXCEPT !.nodes = <<id>>], id), id)

FindUsages(id) == LET es == GetIncomingEdges(id, {}) IN
    [NoAnswer EXCEPT !.edges = es, !.nodes = [i \in DOMAIN es |-> es[i].source]]

(* The impact: what uses a node or, if it is a container, its members.     *)
Containers == {"class", "interface", "struct", "trait", "protocol", "module", "enum"}
RECURSIVE ImpactRecursive(_, _, _)
ImpactRecursive(s, id, left) ==
    LET members == IF Kind(id) \in Containers THEN GetOutgoingEdges(id, {"contains"}) ELSE <<>>
        uses == SelectSeq(GetIncomingEdges(id, {}), LAMBDA e : e.kind # "contains")
        inside == FoldLeft(LAMBDA t, e : IF e.target \in t.visited THEN t ELSE ImpactRecursive(Found(t, e.target, e), e.target, left),
                           Visit(s, id), members) IN
    IF left = 0 \/ id \in s.visited THEN s
    ELSE FoldLeft(LAMBDA t, e : IF e.source \in Range(t.nodes) THEN t ELSE ImpactRecursive(Found(t, e.source, e), e.source, left - 1),
                  inside, uses)
GetImpactRadius(id, maxDepth) == ImpactRecursive([NoAnswer EXCEPT !.nodes = <<id>>], id, maxDepth)

RECURSIVE AncestorsFrom(_, _)
AncestorsFrom(id, visited) ==
    LET within == GetIncomingEdges(id, {"contains"}) IN
    IF id \in visited \/ within = <<>> THEN <<>>
    ELSE <<within[1].source>> \o AncestorsFrom(within[1].source, visited \cup {id})
GetAncestors(id) == AncestorsFrom(id, {})
GetChildren(id) == LET es == GetOutgoingEdges(id, {"contains"}) IN [i \in DOMAIN es |-> es[i].target]

-----------------------------------------------------------------------------
(* graph/queries.ts.                                                       *)
NotContains(es) == SelectSeq(es, LAMBDA e : e.kind # "contains")
GetContext(id) ==
    LET above == GetAncestors(id)
        file == SelectSeq(above, LAMBDA a : Kind(a) = "file")
        types == GetOutgoingEdges(id, {"type_of"}) \o GetOutgoingEdges(id, {"returns"}) IN
    [ancestors |-> above, children |-> GetChildren(id),
     incomingRefs |-> NotContains(GetIncomingEdges(id, {})), outgoingRefs |-> NotContains(GetOutgoingEdges(id, {})),
     types |-> FoldLeft(LAMBDA ts, e : Put(ts, e.target), <<>>, types),
     imports |-> IF file = <<>> THEN <<>> ELSE GetOutgoingEdges(file[1], {"imports"})]

RECURSIVE Circles(_, _, _)
Circles(s, path, at) ==
    CASE at \in Range(path) -> [s EXCEPT !.cycles = Append(@, SubSeq(path, SelectInSeq(path, LAMBDA p : p = at), Len(path)))]
      [] at \in s.visited -> s
      [] OTHER -> FoldLeft(LAMBDA t, dep : Circles(t, Append(path, at), dep), Visit(s, at), GetDependencyFilePaths(at))
FindCircularDependencies ==
    FoldLeft(LAMBDA s, f : IF f \in s.visited THEN s ELSE Circles(s, <<>>, f), [cycles |-> <<>>, visited |-> {}], graph.files).cycles

GetNodeMetrics(id) ==
    [incomingEdgeCount |-> Len(GetIncomingEdges(id, {})), outgoingEdgeCount |-> Len(GetOutgoingEdges(id, {})),
     callCount |-> Len(GetOutgoingEdges(id, {"calls"})), callerCount |-> Len(GetIncomingEdges(id, {"calls"})),
     childCount |-> Len(GetOutgoingEdges(id, {"contains"})), depth |-> Len(GetAncestors(id))]
FindDeadCode ==
    {id \in Nodes : /\ Kind(id) \in {"function", "method", "class"} /\ ~graph.nodes[id].exported
                    /\ NotContains(GetIncomingEdges(id, {})) = <<>>}
GetExportedSymbols(path) == {id \in Nodes : graph.nodes[id].file = path /\ graph.nodes[id].exported}

FilterKinds == {"file", "module", "class", "struct", "interface", "trait", "function", "method", "variable", "constant",
                "enum", "type_alias"}
GetFilteredSubgraph(ids) ==
    LET kept == {id \in ids : Kind(id) \in FilterKinds} IN
    [nodes |-> kept, edges |-> FindEdgesBetweenNodes(kept, {})]

-----------------------------------------------------------------------------
InitTraversal == graph \in Graphs /\ asked \in Asked(graph) /\ answer = NoAnswer

Answer(result) == answer = NoAnswer /\ answer' = [is |-> result] /\ UNCHANGED <<graph, asked>>
AnswerDFS == asked.q = "dfs" /\ Answer(TraverseDFS(asked.id, asked.o))
AnswerCallGraph == asked.q = "calls" /\ Answer(GetCallGraph(asked.id, asked.depth))
AnswerTypes == asked.q = "types" /\ Answer(GetTypeHierarchy(asked.id))
AnswerImpact == asked.q = "impact" /\ Answer(GetImpactRadius(asked.id, asked.depth))
AnswerContext ==
    asked.q = "context" /\ Answer([context |-> GetContext(asked.id), usages |-> FindUsages(asked.id), metrics |-> GetNodeMetrics(asked.id)])
AnswerFiles ==
    asked.q = "files" /\ Answer([cycles |-> FindCircularDependencies, dead |-> FindDeadCode,
                                 dependents |-> [f \in FileOf |-> GetDependentFilePaths(f)],
                                 exported |-> [f \in FileOf |-> GetExportedSymbols(f)],
                                 unexported |-> GetFilteredSubgraph({id \in Nodes : ~graph.nodes[id].exported})])

StepTraversal ==
    AnswerDFS \/ AnswerCallGraph \/ AnswerTypes \/ AnswerImpact \/ AnswerContext \/ AnswerFiles

-----------------------------------------------------------------------------
(* The reference: the nodes within n steps of a relation on the nodes.     *)
RECURSIVE Within(_, _, _)
Within(rel, ids, n) == IF n = 0 THEN ids ELSE Within(rel, ids \cup {p[2] : p \in {p \in rel : p[1] \in ids}}, n - 1)
Along(kinds) == {<<e.source, e.target>> : e \in {e \in Range(graph.edges) : OfKinds(e, kinds)}}
Against(kinds) == {<<e.target, e.source>> : e \in {e \in Range(graph.edges) : OfKinds(e, kinds)}}
Step1(o) == CASE o.direction = "outgoing" -> Along(o.kinds)
              [] o.direction = "incoming" -> Against(o.kinds)
              [] OTHER -> Along(o.kinds) \cup Against(o.kinds)
Far == Cardinality(Nodes)
Is == answer.is

(* traversal.ts:129-199, 230-350: what a depth-first walk lists is within  *)
(* its depth, and nothing next to the start is missing.                    *)
DepthFirst ==
    /\ asked.q = "dfs" =>
           LET reach(n) == Within(Step1(asked.o), {asked.id}, n) IN
           /\ Range(Is.nodes) \subseteq reach(asked.o.maxDepth)
           /\ asked.o.includeStart /\ Len(Is.nodes) < asked.o.limit => reach(1) \subseteq Range(Is.nodes)
    /\ asked.q = "calls" =>
           LET reach(n) == Within(Along(Usage), {asked.id}, n) \cup Within(Against(Usage), {asked.id}, n) IN
           reach(1) \subseteq Range(Is.nodes) /\ Range(Is.nodes) \subseteq reach(asked.depth)

(* traversal.ts:358-435: every supertype is listed, and nothing            *)
(* but super- and subtypes.  That subtypes are listed too (374) cannot be  *)
(* said: see the README.                                                   *)
AllSupertypes ==
    asked.q = "types" =>
        LET above == Within(Along(Heritage), {asked.id}, Far) IN
        /\ above \subseteq Range(Is.nodes)
        /\ Range(Is.nodes) \subseteq above \cup Within(Against(Heritage), {asked.id}, Far)

(* traversal.ts:466-540: who uses a node or a member of it is in its       *)
(* impact, and only what leads to it by uses and membership is.            *)
ImpactIsUse ==
    asked.q = "impact" =>
        LET down == {p \in Along({"contains"}) : Kind(p[1]) \in Containers}
            uses == Against({}) \ Against({"contains"}) IN
        /\ Range(Is.nodes) \subseteq Within(down \cup uses, {asked.id}, Far)
        /\ Within(uses, Within(down, {asked.id}, Far), 1) \subseteq Range(Is.nodes)

(* graph/queries.ts:225-263: what is reported is a circle of imports, and  *)
(* if there is a circle one is reported.                                   *)
CirclesAreFound ==
    asked.q = "files" =>
        LET dep == {p \in FileOf \X FileOf : CrossFile(p[1], p[2])} IN
        /\ \A c \in Range(Is.cycles) : \A i \in DOMAIN c : <<c[i], c[(i % Len(c)) + 1]>> \in dep
        /\ Is.cycles = <<>> => \A f \in FileOf : f \notin Within(dep, {g \in FileOf : <<f, g>> \in dep}, Far)

(* The answers above, and dead code and the file of a context.             *)
AnswersFitTheGraph ==
    answer # NoAnswer =>
        /\ DepthFirst /\ AllSupertypes /\ ImpactIsUse /\ CirclesAreFound
        /\ asked.q = "files" => \A id \in Is.dead : Within(Against({}) \ Against({"contains"}), {id}, 1) = {id}
        /\ asked.q = "context" => Range(Is.context.ancestors) \subseteq Within(Against({"contains"}), {asked.id}, Far)
=============================================================================
