---------------------------- MODULE SidecarQueries ----------------------------
(***************************************************************************)
(* The questions the router asks the codegraph sidecar over HTTP           *)
(* (codegraph/lib/handlers.js).  index is [nodes, edges]: nodes are        *)
(* [name, kind, file, words], a name is its sequence of words, a file the  *)
(* sequence of the segments of its path, words those of the signature and  *)
(* the qualified name; edges are [source, target, kind] between positions  *)
(* of nodes.  LIKE '%w%' is membership of the word.                        *)
(***************************************************************************)
EXTENDS Naturals, Sequences, FiniteSets, SequencesExt, TLC

CONSTANTS Indexes, Requests(_),
          StopWords, StemOf,    \* of the words of a question; StemOf is a function
          Plural,               \* the plural of a word, a function
          Idf                   \* 10 * ln(1 + 1000 / (n + 1)) of a count n, rounded

VARIABLES index, request, reply

queryVars == <<index, request, reply>>

Node(i) == index.nodes[i]
Ids == [i \in DOMAIN index.nodes |-> i]
Limited(s, n) == SubSeq(s, 1, IF n < Len(s) THEN n ELSE Len(s))
Has(words, w) == w \in Range(words)
Distinct(s) == FoldLeft(LAMBDA t, x : IF Has(t, x) THEN t ELSE Append(t, x), <<>>, s)
PathHas(file, w) == \E i \in DOMAIN file : Has(file[i], w)
BaseName(file) == file[Len(file)]

-----------------------------------------------------------------------------
(* Relations: pairs of names, by the name of one end.                      *)
Edge(from, to, file) == [from |-> from, to |-> to, file |-> file]
DedupEdges(edges, limit) ==
    Limited(FoldLeft(LAMBDA s, e : IF e.from = e.to \/ \E i \in DOMAIN s : s[i].from = e.from /\ s[i].to = e.to THEN s ELSE Append(s, e),
                     <<>>, edges), limit)

NodesByName(name) == SelectSeq(Ids, LAMBDA i : Node(i).name = name)
Incoming(i, kinds) == SelectSeq(index.edges, LAMBDA e : e.target = i /\ e.kind \in kinds)
Outgoing(i, kinds) == SelectSeq(index.edges, LAMBDA e : e.source = i /\ e.kind \in kinds)
Each(s, Rows(_)) == FlattenSeq([i \in DOMAIN s |-> Rows(s[i])])
Map(s, F(_)) == [i \in DOMAIN s |-> F(s[i])]
FromSource(e, to) == Edge(Node(e.source).name, to, Node(e.source).file)

Callers(name, limit) ==
    DedupEdges(Each(NodesByName(name), LAMBDA t : Map(Incoming(t, {"calls"}), LAMBDA e : FromSource(e, name))), limit)
Callees(name, limit) ==
    DedupEdges(Each(NodesByName(name), LAMBDA s : Map(Outgoing(s, {"calls"}), LAMBDA e : Edge(name, Node(e.target).name, Node(e.target).file))), limit)
Upstream(name, limit) ==
    DedupEdges(Each(NodesByName(name), LAMBDA t : Each(Incoming(t, {"calls"}), LAMBDA p :
        Map(Incoming(p.source, {"calls"}), LAMBDA g : FromSource(g, Node(p.source).name)))), limit)
Importers(name, limit) ==
    DedupEdges(Each(NodesByName(name), LAMBDA t :
        Map(SelectSeq(Incoming(t, {"references", "imports", "calls"}), LAMBDA e : Node(e.source).file # Node(t).file),
            LAMBDA e : FromSource(e, name))), limit)
ImportersByPackage(word, limit) ==
    LET rows == Distinct(Map(SelectSeq(Ids, LAMBDA i : Node(i).kind \in {"import", "module", "namespace"} /\ Has(Node(i).name, word)),
                             LAMBDA i : [file |-> Node(i).file, pkg |-> Node(i).name]))
        others == SelectSeq(Limited(rows, 2 * limit), LAMBDA r : ~Has(BaseName(r.file), word)) IN
    DedupEdges(Map(others, LAMBDA r : Edge(BaseName(r.file), r.pkg, r.file)), limit)
ExtendsRel(name, limit) ==
    LET Heritage == {"extends", "implements"} IN
    DedupEdges(Each(NodesByName(name), LAMBDA n :
        Map(Outgoing(n, Heritage), LAMBDA e : Edge(name, Node(e.target).name, Node(n).file))
          \o Map(Incoming(n, Heritage), LAMBDA e : FromSource(e, name))), limit)
Methods(name, limit) ==
    DedupEdges(Each(NodesByName(name), LAMBDA o :
        Map(SelectSeq(Outgoing(o, {"contains"}), LAMBDA e : Node(e.target).kind \in {"method", "function", "property", "field"}),
            LAMBDA e : Edge(name, Node(e.target).name, Node(e.target).file))), limit)
Routes == SelectSeq(index.edges, LAMBDA e : Node(e.source).kind = "route" /\ e.kind \in {"references", "calls"}
                                           /\ Node(e.target).kind \in {"function", "method", "class"})
CrossWire(name, direction, limit) ==
    LET Route(e) == Node(e.source).name
        Handler(e) == Node(e.target) IN
    IF direction = "callers"
    THEN DedupEdges(Map(SelectSeq(Routes, LAMBDA e : Handler(e).name = name), LAMBDA e : Edge(Route(e), name, Handler(e).file)), limit)
    ELSE DedupEdges(Map(SelectSeq(Routes, LAMBDA e : name \in {Route(e), Handler(e).name}), LAMBDA e : Edge(name, Handler(e).name, Handler(e).file)), limit)

-----------------------------------------------------------------------------
(* Files.                                                                  *)
FilePaths == Distinct(Map(Ids, LAMBDA i : Node(i).file))
Siblings(file, limit) ==
    IF Len(file) < 2 THEN <<>> ELSE Limited(SelectSeq(FilePaths, LAMBDA f : Len(f) = Len(file) /\ Front(f) = Front(file)), limit)
RelatedFiles(word, limit) == Limited(SelectSeq(FilePaths, LAMBDA f : PathHas(f, word)), limit)
Files(limit) == Limited(FilePaths, limit)
Symbols(limit) == Limited(Map(Ids, LAMBDA i : [name |-> Node(i).name, file |-> Node(i).file]), limit)
NameHits(word) == Cardinality({i \in DOMAIN index.nodes : Has(Node(i).name, word)})
EndsWith(f, suffix) == IsSuffix(suffix, f)
Within(f, part) == \E i \in 0..Len(f) - Len(part) : SubSeq(f, i + 1, i + Len(part)) = part
SearchByPath(file, limit) ==
    LET At(P(_)) == SelectSeq(Ids, LAMBDA i : P(Node(i).file))
        attempts == <<At(LAMBDA f : f = file), At(LAMBDA f : EndsWith(f, file)), At(LAMBDA f : Within(f, file))>>
        found == SelectSeq(attempts, LAMBDA a : a # <<>>) IN
    IF found = <<>> THEN <<>> ELSE Limited(found[1], limit)

-----------------------------------------------------------------------------
(* Search by name: rows that hold a word of the question in their name, or *)
(* when these are few the rarest of its words in their signature.          *)
SplitQueryWords(words) == Distinct(Map(SelectSeq(words, LAMBDA w : w \notin StopWords), LAMBDA w : StemOf[w]))
FilesMatchingAnyTerm(terms) ==
    {Node(i).file : i \in {j \in DOMAIN index.nodes :
        \E t \in Range(terms) : PathHas(Node(j).file, t) \/ Has(Node(j).name, t) \/ Has(Node(j).words, t)}}
ShouldExclude(n, excludes) ==
    \E x \in Range(excludes) :
        \/ Len(BaseName(n.file)) > 2 /\ IsSuffix(<<x, "go">>, BaseName(n.file))
        \/ \E i \in 2..Len(n.file) - 1 : n.file[i] \in {<<x>>, <<Plural[x]>>}
        \/ n.name[1] = x
ContextBoost(file, hints) ==
    LET matches == Cardinality({i \in DOMAIN hints : PathHas(file, hints[i])}) IN IF matches > 1 THEN 3 ELSE 1 + matches
SurfaceWeight(surface) == IF surface = "name" THEN 10 ELSE 4

Same(i, j) == Node(i).name = Node(j).name /\ Node(i).file = Node(j).file
Collect(s, rows, word, surface) ==
    FoldLeft(LAMBDA t, i :
        LET known == {k \in DOMAIN t.hits : Same(t.hits[k].row, i)}
            k == IF known = {} THEN Len(t.hits) + 1 ELSE CHOOSE k \in known : TRUE
            hits == IF known = {} THEN Append(t.hits, [row |-> i, surfaces |-> [w \in {} |-> ""]]) ELSE t.hits IN
        [hits |-> [hits EXCEPT ![k].surfaces = @ @@ (word :> surface)],
         counts |-> [t.counts EXCEPT ![word] = @ + 1]],
        s, rows)
CollectNames(words, limit) ==
    FoldLeft(LAMBDA s, w : Collect(s, Limited(SelectSeq(Ids, LAMBDA i : Has(Node(i).name, w)), 3 * limit), w, "name"),
             [hits |-> <<>>, counts |-> [w \in Range(words) |-> 0]], words)
Rarest(words, counts) ==
    FoldLeft(LAMBDA best, w : IF counts[w] = 0 \/ (best # "" /\ counts[w] >= counts[best]) THEN best ELSE w, "", words)
CollectContent(s, words, limit) ==
    LET rarest == Rarest(words, s.counts) IN
    IF Len(s.hits) >= limit \/ rarest = "" THEN s
    ELSE Collect(s, Limited(SelectSeq(Ids, LAMBDA i : Has(Node(i).words, rarest)), 2 * limit), rarest, "content")
Score(h, counts, hints) ==
    FoldLeft(+, 0, [i \in 1..Len(SetToSeq(DOMAIN h.surfaces)) |->
        LET w == SetToSeq(DOMAIN h.surfaces)[i] IN Idf[counts[w]] * SurfaceWeight(h.surfaces[w])]) * ContextBoost(Node(h.row).file, hints)
Ranked(hits, counts, hints) ==
    LET scored == [i \in DOMAIN hits |-> [row |-> hits[i].row, score |-> Score(hits[i], counts, hints), at |-> i]] IN
    SortSeq(scored, LAMBDA a, b : a.score > b.score \/ (a.score = b.score /\ a.at < b.at))
SearchByName(q, limit) ==
    LET words == SplitQueryWords(q.words)
        s == CollectContent(CollectNames(words, limit), words, limit)
        must == FilesMatchingAnyTerm(q.must)
        kept == SelectSeq(s.hits, LAMBDA h : ~ShouldExclude(Node(h.row), q.exclude) /\ (must = {} \/ Node(h.row).file \in must)) IN
    IF words = <<>> THEN <<>> ELSE Limited(Ranked(kept, s.counts, q.hints), limit)

-----------------------------------------------------------------------------
InitQueries == index \in Indexes /\ request = [op |-> "none"] /\ reply = <<>>

Ask(r, answer) == request' = r /\ reply' = answer /\ UNCHANGED index
Asked(op) == {r \in Requests(index) : r.op = op}
ReplyCalls ==
    \/ \E r \in Asked("callers") : Ask(r, Callers(r.name, r.limit))
    \/ \E r \in Asked("callees") : Ask(r, Callees(r.name, r.limit))
    \/ \E r \in Asked("upstream") : Ask(r, Upstream(r.name, r.limit))
ReplyStructure ==
    \/ \E r \in Asked("importers") : Ask(r, Importers(r.name, r.limit))
    \/ \E r \in Asked("package") : Ask(r, ImportersByPackage(r.word, r.limit))
    \/ \E r \in Asked("extends") : Ask(r, ExtendsRel(r.name, r.limit))
    \/ \E r \in Asked("methods") : Ask(r, Methods(r.name, r.limit))
    \/ \E r \in Asked("wire") : Ask(r, CrossWire(r.name, r.direction, r.limit))
ReplyFiles ==
    \/ \E r \in Asked("siblings") : Ask(r, Siblings(r.file, r.limit))
    \/ \E r \in Asked("related") : Ask(r, RelatedFiles(r.word, r.limit))
    \/ \E r \in Asked("files") : Ask(r, Files(r.limit))
    \/ \E r \in Asked("symbols") : Ask(r, Symbols(r.limit))
    \/ \E r \in Asked("hits") : Ask(r, NameHits(r.word))
    \/ \E r \in Asked("path") : Ask(r, SearchByPath(r.file, r.limit))
ReplySearch == \E r \in Asked("search") : Ask(r, SearchByName(r, r.limit))
StepQueries == request.op = "none" /\ (ReplyCalls \/ ReplyStructure \/ ReplyFiles \/ ReplySearch)
SpecQueries == InitQueries /\ [][StepQueries]_queryVars

-----------------------------------------------------------------------------
(* What a relation means, whatever the order of the rows.                  *)
Pairs(kinds) == {<<e.source, e.target>> : e \in {f \in Range(index.edges) : f.kind \in kinds}}
Related(r) ==
    LET Named(i) == Node(i).name = r.name
        Names(ps) == {<<Node(p[1]).name, Node(p[2]).name>> : p \in ps} IN
    CASE r.op = "callers" -> Names({p \in Pairs({"calls"}) : Named(p[2])})
      [] r.op = "callees" -> Names({p \in Pairs({"calls"}) : Named(p[1])})
      [] r.op = "upstream" -> Names({p \in Pairs({"calls"}) : \E q \in Pairs({"calls"}) : q[1] = p[2] /\ Named(q[2])})
      [] r.op = "importers" -> Names({p \in Pairs({"references", "imports", "calls"}) : Named(p[2]) /\ Node(p[1]).file # Node(p[2]).file})
      [] r.op = "extends" -> Names({p \in Pairs({"extends", "implements"}) : Named(p[1]) \/ Named(p[2])})
      [] r.op = "methods" -> Names({p \in Pairs({"contains"}) : Named(p[1]) /\ Node(p[2]).kind \in {"method", "function", "property", "field"}})
RelationOps == {"callers", "callees", "upstream", "importers", "extends", "methods"}
EdgesAreTheRelation ==
    request.op \in RelationOps =>
        LET told == {<<reply[i].from, reply[i].to>> : i \in DOMAIN reply}
            all == {p \in Related(request) : p[1] # p[2]} IN
        /\ told \subseteq all /\ Cardinality(told) = Len(reply)
        /\ Len(reply) <= request.limit /\ (Len(reply) < request.limit => told = all)

HitsAreWanted ==
    request.op = "search" =>
        LET row(k) == Node(reply[k].row)
            must == FilesMatchingAnyTerm(request.must)
            words == Range(SplitQueryWords(request.words)) IN
        /\ Len(reply) <= request.limit
        /\ \A j, k \in DOMAIN reply : j < k => reply[j].score >= reply[k].score /\ ~Same(reply[j].row, reply[k].row)
        /\ \A k \in DOMAIN reply :
              /\ \E w \in words, i \in DOMAIN index.nodes : Same(i, reply[k].row) /\ (Has(Node(i).name, w) \/ Has(Node(i).words, w))
              /\ row(k).name[1] \notin Range(request.exclude)
              /\ must # {} => row(k).file \in must
        /\ Len(reply) < request.limit => \A i \in DOMAIN index.nodes :
              \/ ShouldExclude(Node(i), request.exclude) \/ (must # {} /\ Node(i).file \notin must)
              \/ Range(Node(i).name) \cap words = {}
              \/ \E k \in DOMAIN reply : Same(reply[k].row, i)
              \/ \E w \in words : NameHits(w) > 3 * request.limit

(* A relation the router is told holds exactly between the names that the  *)
(* graph joins, each pair once and never a name with itself, up to the     *)
(* limit; a search returns no excluded symbol, honours the files its terms *)
(* single out, and passes over a symbol named by the question only when it *)
(* is full (codegraph/lib/handlers.js dedupEdges, searchByName).           *)
RepliesAreSound == EdgesAreTheRelation /\ HitsAreWanted
=============================================================================
