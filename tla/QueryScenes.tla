----------------------------- MODULE QueryScenes -----------------------------
(* The small graphs, indexes and tables that queries are checked on.        *)
EXTENDS Naturals, Sequences, FiniteSets, SequencesExt, TLC

-----------------------------------------------------------------------------
(* Graphs of four nodes: lists of up to three edges and two diamonds, the  *)
(* kinds of edges taken in turn.                                           *)
GraphIds == {"a", "b", "c", "d"}
Pairs == {<<"a", "b">>, <<"a", "c">>, <<"b", "c">>, <<"c", "b">>, <<"b", "d">>, <<"c", "d">>, <<"d", "a">>}
PairLists ==
    {s \in UNION {[1..n -> Pairs] : n \in 0..3} : IsInjective(s)}
    \cup {<<<<"a", "b">>, <<"a", "c">>, <<"b", "d">>, <<"c", "d">>>>, <<<<"a", "b">>, <<"b", "c">>, <<"a", "c">>, <<"c", "d">>>>}
KindCycles ==
    {<<"calls">>, <<"contains", "calls">>, <<"extends", "contains">>, <<"type_of", "imports">>}
GraphOf(pairs, kinds) ==
    [nodes |-> [id \in GraphIds |-> [kind |-> CASE id = "a" -> "class" [] id = "d" -> "file" [] OTHER -> "function", file |-> id, exported |-> id = "c"]],
     edges |-> [i \in DOMAIN pairs |-> [source |-> pairs[i][1], target |-> pairs[i][2], kind |-> kinds[1 + (i % Len(kinds))]]],
     files |-> <<"a", "b", "c", "d">>]
SmallGraphs == {GraphOf(pairs, kinds) : pairs \in PairLists, kinds \in KindCycles}
Asking(depth, direction, kinds, limit, start) ==
    [maxDepth |-> depth, direction |-> direction, kinds |-> kinds, nodeKinds |-> {}, limit |-> limit, includeStart |-> start]
Everything == Asking(9, "outgoing", {}, 9, TRUE)
Askings == {Everything, Asking(2, "both", {"calls"}, 9, TRUE), Asking(1, "incoming", {}, 9, FALSE), Asking(2, "outgoing", {}, 2, TRUE)}
AskGraph(q, id, depth) == [q |-> q, id |-> id, depth |-> depth, o |-> Everything]
GraphQuestions(g) ==
    {[AskGraph("dfs", "a", 1) EXCEPT !.o = o] : o \in Askings}
    \cup {AskGraph(q, "a", depth) : q \in {"calls", "impact"}, depth \in 1..2}
    \cup {AskGraph(q, "b", 1) : q \in {"types", "context"}} \cup {AskGraph("files", "a", 1)}
AskWalk(q, o) == [q |-> q, id |-> "a", to |-> "d", o |-> o]
GraphWalks(g) ==
    {AskWalk("bfs", o) : o \in (Askings \ {Everything}) \cup {Asking(3, "outgoing", {}, 9, TRUE)}}
    \cup {AskWalk("bfs", [Asking(2, "both", {}, 9, FALSE) EXCEPT !.nodeKinds = {"function"}])}
    \cup {AskWalk("path", Everything), [AskWalk("path", Everything) EXCEPT !.to = "e"]}

-----------------------------------------------------------------------------
(* Indexes the sidecar is asked about: ten symbols under every choice of   *)
(* six edges, and the requests of the router.                              *)
Row(name, kind, file, words) == [name |-> name, kind |-> kind, file |-> file, words |-> words]
Joined(source, target, kind) == [source |-> source, target |-> target, kind |-> kind]
UserGo == <<<<"src">>, <<"user", "go">>>>
MainGo == <<<<"main", "go">>>>
SidecarNodes ==
    <<Row(<<"get", "user">>, "route", <<<<"api">>, <<"user", "go">>>>, <<>>), Row(<<"load", "user">>, "function", UserGo, <<"ctx">>),
      Row(<<"user">>, "class", UserGo, <<>>), Row(<<"save">>, "method", UserGo, <<"user">>), Row(<<"base">>, "interface", UserGo, <<>>),
      Row(<<"mock", "user">>, "function", <<<<"src">>, <<"mocks">>, <<"m", "go">>>>, <<>>),
      Row(<<"load", "user">>, "function", <<<<"src">>, <<"user", "mock", "go">>>>, <<>>), Row(<<"user">>, "import", MainGo, <<>>),
      Row(<<"main">>, "function", MainGo, <<"user">>), Row(<<"save">>, "function", MainGo, <<>>)>>
Chosen(pool, S) == LET at == SelectSeq([i \in DOMAIN pool |-> i], LAMBDA i : i \in S) IN [k \in DOMAIN at |-> pool[at[k]]]
SidecarEdges ==
    <<Joined(9, 2, "calls"), Joined(2, 4, "calls"), Joined(2, 7, "calls"), Joined(7, 10, "calls"), Joined(1, 2, "references"), Joined(3, 5, "extends"),
     Joined(3, 4, "contains")>>
SidecarIndexes == {[nodes |-> SidecarNodes, edges |-> Chosen(SidecarEdges, S)] : S \in SUBSET DOMAIN SidecarEdges}
AskSidecar(op, name, limit) ==
    [op |-> op, name |-> name, word |-> "user", direction |-> "callers", file |-> UserGo, limit |-> limit, words |-> <<>>, must |-> <<>>,
     exclude |-> <<>>, hints |-> <<>>]
Question(words, must, exclude, hints, limit) ==
    [AskSidecar("search", <<>>, limit) EXCEPT !.words = words, !.must = must, !.exclude = exclude, !.hints = hints]
SidecarWords == {"user", "get", "load", "loads", "save", "base", "mock", "main", "the", "none"}
SidecarStems == [w \in SidecarWords |-> IF w = "loads" THEN "load" ELSE w]
SidecarIdf == [n \in 0..10 |-> IF n = 0 THEN 0 ELSE <<62, 58, 55, 53, 51, 50, 48, 47, 46, 45>>[n]]
SidecarRequests(i) ==
    {AskSidecar(op, n, limit) : op \in {"callers", "callees", "upstream", "importers", "extends", "methods", "wire"},
                         n \in {<<"load", "user">>, <<"save">>, <<"user">>, <<"base">>}, limit \in {1, 9}}
    \cup {[AskSidecar("wire", <<"get", "user">>, 9) EXCEPT !.direction = "callees"]}
    \cup {AskSidecar(op, <<>>, limit) : op \in {"package", "siblings", "related", "files", "symbols", "hits", "path"}, limit \in {1, 9}}
    \cup {[AskSidecar("path", <<>>, 9) EXCEPT !.file = f] : f \in {<<<<"user", "go">>>>, <<<<"mocks">>>>, <<<<"none">>>>}}
    \cup (IF Len(i.edges) < 7 THEN {}
          ELSE {Question(w, m, e, h, limit) : w \in {<<"the", "loads", "user">>, <<"save">>, <<"user", "main">>, <<"the">>},
                                              m \in {<<>>, <<"base">>, <<"none">>}, e \in {<<>>, <<"mock">>}, h \in {<<>>, <<"src", "go">>},
                                              limit \in {1, 3, 9}})

-----------------------------------------------------------------------------
(* Tables searched, and the questions.                                     *)
Letters == <<" ", ":", "::", "B", "a", "b", "c", "d", "t">>
LetterCode == [l \in Range(Letters) |-> CHOOSE i \in DOMAIN Letters : Letters[i] = l]
LetterLower == [l \in Range(Letters) |-> IF l = "B" THEN "b" ELSE l]
At(dirs, base) == [dirs |-> dirs, base |-> base, test |-> FALSE, generated |-> FALSE]
SearchFiles ==
    <<At(<<<<"d">>>>, <<"a", "b", "c">>), At(<<<<"a", "b", "c">>, <<"c">>>>, <<"d">>), At(<<<<"t">>>>, <<"d">>), [At(<<>>, <<"d">>) EXCEPT !.test = TRUE]>>
Symbol(name, kind, file, rank) ==
    [name |-> name, qualified |-> <<"d", "::">> \o name, doc |-> {}, kind |-> kind, lang |-> "ts", file |-> SearchFiles[file], rank |-> rank]
SymbolPool ==
    <<Symbol(<<"a", "b", "c">>, "function", 1, 1), Symbol(<<"a", "b", "c">>, "class", 3, 90), Symbol(<<"a", "B", "c">>, "function", 2, 1),
     Symbol(<<"a", "b", "c", "a", "b">>, "function", 1, 60), Symbol(<<"c", "a", "b">>, "route", 2, 30),
     Symbol(<<"c", "d">>, "function", 2, 7),
     [Symbol(<<"b", "a">>, "class", 1, 5) EXCEPT !.lang = "go", !.doc = {<<"c", "c", "c">>}], Symbol(<<"a", "c", "b", "b", "a">>, "function", 2, 2)>>
RouteTable ==
    [nodes |-> [i \in 1..9 |-> Symbol(<<"c">>, IF i <= 7 THEN "route" ELSE "function", CASE i <= 3 -> 1 [] i <= 7 -> 3 [] OTHER -> 2, i)],
     edges |-> [i \in 1..7 |-> [source |-> i, target |-> IF i = 7 THEN 8 ELSE 9, kind |-> IF i = 1 THEN "calls" ELSE "references"]]
                 \o <<[source |-> 8, target |-> 9, kind |-> "calls"], [source |-> 9, target |-> 8, kind |-> "calls"]>>]
SearchTables == {[nodes |-> Chosen(SymbolPool, S), edges |-> <<>>] : S \in SUBSET DOMAIN SymbolPool} \cup {RouteTable, [RouteTable EXCEPT !.edges = <<>>]}
Word(w) == [key |-> "", value |-> "", part |-> <<>>, raw |-> w]
Filter(key, value) == [key |-> key, value |-> value, part |-> <<>>, raw |-> <<"d", ":", "d">>]
PartFilter(key, part) == [key |-> key, value |-> "", part |-> part, raw |-> <<"d", ":">> \o part]
Options(kinds, languages, limit) == [kinds |-> kinds, languages |-> languages, limit |-> limit]
Wanting(op, tokens, names, strict, options) == [op |-> op, tokens |-> tokens, names |-> names, strict |-> strict, options |-> options]
WordsAsked ==
    {<<"a", "b", "c">>, <<"a", "B", "c">>, <<"b", "c">>, <<"a", "b", "d">>, <<"a", "c", "b">>, <<"c", "a", "d">>, <<"a", "b", "c", "d", "b">>, <<"c", "c">>,
     <<"a", "b", "::", "c">>, <<"d", "::", "a">>, <<"a">>, <<"c", "d">>, <<"b", "c", "a">>, <<"c", "a", "b">>}
TokensAsked ==
    {<<>>} \cup {<<Word(w)>> : w \in WordsAsked} \cup {<<Word(<<"a", "b", "c">>), Word(w)>> : w \in {<<"b", "a">>, <<"d">>, <<"c", "d">>}}
      \cup {<<f>> : f \in {Filter("kind", "class"), Filter("kind", "bogus"), Filter("lang", "go"), PartFilter("name", <<"b">>)}}
      \cup {<<Word(<<"a", "b">>), f>> : f \in {Filter("kind", "function"), PartFilter("path", <<"a", "b">>), PartFilter("name", <<"c", "a">>)}}
SearchQuestions(t) ==
    {Wanting("search", w, <<>>, FALSE, o) : w \in TokensAsked, o \in {Options({}, {}, 9), Options({}, {}, 1), Options({"class", "route"}, {}, 9)}}
    \cup {Wanting("exact", <<>>, n, FALSE, o) : n \in {<<>>, <<<<"a", "b", "c">>, <<"b", "a">>>>, <<<<"c">>>>}, o \in {Options({}, {}, 9), Options({"function"}, {"ts"}, 1)}}
    \cup {Wanting("part", <<>>, <<<<"b">>>>, strict, Options({}, {}, 2)) : strict \in BOOLEAN}
    \cup {Wanting(op, <<>>, <<>>, FALSE, Options({}, {}, 9)) : op \in {"dominant", "routes", "manifest"}}
=============================================================================
