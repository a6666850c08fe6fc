----------------------------- MODULE BreadthFirst -----------------------------
(***************************************************************************)
(* The two breadth-first loops over a stored graph (graph/traversal.ts):   *)
(* traverseBFS, which lists the nodes within a depth, and findPath.  Both  *)
(* take what waits longest off a queue, visit its node once and put the    *)
(* neighbours that are not visited on the queue.  A trail is the way to a  *)
(* node: findPath keeps all of it, traverseBFS its last node, its last     *)
(* edge and its length.                                                    *)
(***************************************************************************)
EXTENDS Naturals, Sequences, FiniteSets

CONSTANTS Graphs,           \* [nodes: id -> record with its kind, edges: rows]
          WalkQuestions(_), \* of a graph: [q, id, to, o]
          TrailBound        \* bound: the trails that answers are compared with

ASSUME WalkAssumption ==
    /\ TrailBound \in Nat
    /\ \A g \in Graphs : \A w \in WalkQuestions(g) :
          w.q \in {"bfs", "path"} /\ w.o.maxDepth \in Nat /\ w.o.includeStart \in BOOLEAN

VARIABLES graph, asked,     \* the graph and the question
          queue,            \* trails to the nodes that wait for their visit
          at,               \* the trail that was taken off last
          todo,             \* edges at its end that are still to be followed
          by,               \* visited node -> the trail it was visited by
          listed,           \* nodes that were put on the queue, the answer of traverseBFS
          path              \* the answer of findPath

walkVars == <<graph, asked, queue, at, todo, by, listed, path>>

Ids == DOMAIN graph.nodes
Edge(i) == graph.edges[i]
Trail(ids, rows) == [ids |-> ids, rows |-> rows]
NoPath == Trail(<<>>, <<>>)
Depth(t) == Len(t.rows)
End(t) == t.ids[Len(t.ids)]

(* The edges at a node that are asked for.                                 *)
Adjacent(id) ==
    {i \in DOMAIN graph.edges :
        /\ asked.o.kinds = {} \/ Edge(i).kind \in asked.o.kinds
        /\ \/ asked.o.direction # "incoming" /\ Edge(i).source = id
           \/ asked.o.direction # "outgoing" /\ Edge(i).target = id}
Other(i, id) == IF Edge(i).source = id THEN Edge(i).target ELSE Edge(i).source
Fits(id) == id \in Ids /\ (asked.o.nodeKinds = {} \/ graph.nodes[id].kind \in asked.o.nodeKinds)

(* Structure first, and at one node the edges that leave it.               *)
Priority(i) == CASE Edge(i).kind = "contains" -> 0 [] Edge(i).kind = "calls" -> 1 [] OTHER -> 2
Sooner(i, j, id) ==
    Priority(i) < Priority(j) \/ (Priority(i) = Priority(j) /\ Edge(i).source = id /\ Edge(j).source # id)

-----------------------------------------------------------------------------
Known == asked.id \in Ids /\ (asked.q = "path" => asked.to \in Ids)
Start == Trail(<<asked.id>>, <<>>)
InitWalk ==
    /\ graph \in Graphs /\ asked \in WalkQuestions(graph)
    /\ queue = IF Known THEN <<Start>> ELSE <<>>
    /\ listed = IF Known /\ asked.o.includeStart THEN {asked.id} ELSE {}
    /\ at = Start /\ todo = {} /\ path = NoPath
    /\ by = [id \in {} |-> Start]

GoesOn ==
    /\ queue # <<>> /\ todo = {} /\ path = NoPath
    /\ asked.q = "bfs" => Cardinality(listed) < asked.o.limit

(* findPath stops when the node it looks for comes off the queue.          *)
FindIt ==
    /\ GoesOn /\ asked.q = "path" /\ End(Head(queue)) = asked.to
    /\ path' = Head(queue) /\ queue' = Tail(queue)
    /\ UNCHANGED <<graph, asked, at, todo, by, listed>>

Sought(id) == asked.q = "path" /\ id = asked.to
SkipVisited ==
    /\ GoesOn /\ End(Head(queue)) \in DOMAIN by /\ ~Sought(End(Head(queue)))
    /\ queue' = Tail(queue)
    /\ UNCHANGED <<graph, asked, at, todo, by, listed, path>>

FarEnoughOneMore(t) == asked.q = "bfs" /\ Depth(t) > asked.o.maxDepth   \* follows the edges at the greatest depth too
FarEnough(t) == asked.q = "bfs" /\ Depth(t) >= asked.o.maxDepth
Visit ==
    LET t == Head(queue) IN
    /\ GoesOn /\ End(t) \notin DOMAIN by /\ ~Sought(End(t))
    /\ queue' = Tail(queue) /\ at' = t
    /\ by' = [id \in DOMAIN by \cup {End(t)} |-> IF id = End(t) THEN t ELSE by[id]]
    /\ todo' = IF FarEnough(t) THEN {} ELSE Adjacent(End(t))
    /\ UNCHANGED <<graph, asked, listed, path>>

(* traverseBFS sorts the edges of a node by their kind.                    *)
Follow(i) ==
    LET next == Other(i, End(at)) IN
    /\ i \in todo /\ (asked.q = "bfs" => \A j \in todo : ~Sooner(j, i, End(at)))
    /\ todo' = todo \ {i}
    /\ IF next \notin DOMAIN by /\ Fits(next)
       THEN /\ queue' = Append(queue, Trail(Append(at.ids, next), Append(at.rows, i)))
            /\ listed' = listed \cup {next}
       ELSE UNCHANGED <<queue, listed>>
    /\ UNCHANGED <<graph, asked, at, by, path>>

StepWalk == FindIt \/ SkipVisited \/ Visit \/ \E i \in todo : Follow(i)
SpecWalk == InitWalk /\ [][StepWalk]_walkVars

-----------------------------------------------------------------------------
(* The reference: a node is n steps from the start if a chain of n edges   *)
(* leads to it.                                                            *)
Leads(a, b) == Fits(b) /\ \E i \in Adjacent(a) : Other(i, a) = b
Reaches(n, id) ==
    \E c \in [0..n -> Ids] : c[0] = asked.id /\ c[n] = id /\ \A k \in 0..n - 1 : Leads(c[k], c[k + 1])
Within(n, id) == \E m \in 0..n : Reaches(m, id)

IsTrail(t) ==
    /\ Len(t.ids) = Len(t.rows) + 1 /\ t.ids[1] = asked.id
    /\ \A k \in DOMAIN t.rows :
          t.rows[k] \in Adjacent(t.ids[k]) /\ Other(t.rows[k], t.ids[k]) = t.ids[k + 1] /\ Fits(t.ids[k + 1])
IsShortest(t) == \A m \in 0..TrailBound : m < Depth(t) => ~Reaches(m, End(t))
Ended == queue = <<>> /\ todo = {}

(* A traversal visits each node by a shortest trail, so that its depth is  *)
(* never used up on a detour, lists nothing beyond the depth and, unless   *)
(* its limit ends it, everything within it (traversal.ts:48-120).          *)
NearIsListed ==
    asked.q = "bfs" =>
        /\ \A id \in DOMAIN by : IsTrail(by[id]) /\ End(by[id]) = id /\ IsShortest(by[id])
        /\ \A id \in listed : Within(asked.o.maxDepth, id)
        /\ Ended => \A id \in Ids : Within(asked.o.maxDepth, id) =>
                        (id \in listed <=> (id # asked.id \/ asked.o.includeStart))

(* A path that is found leads along edges to the node that is sought and   *)
(* is a shortest one; if none is found none exists (traversal.ts:550-607). *)
PathsAreShortest ==
    asked.q = "path" =>
        /\ path # NoPath => IsTrail(path) /\ End(path) = asked.to /\ IsShortest(path)
        /\ Ended /\ path = NoPath => ~Within(TrailBound, asked.to)

WalksAreExact == NearIsListed /\ PathsAreShortest
=============================================================================
