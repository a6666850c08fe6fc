-------------------------------- MODULE Search --------------------------------
(***************************************************************************)
(* Finding symbols by name (db/queries.ts searchNodes and its fallbacks,   *)
(* search/query-parser.ts, search/query-utils.ts).  table is [nodes,       *)
(* edges]; a node is [name, qualified, doc, kind, lang, file, rank]: names *)
(* are sequences of letters, doc the set of the other indexed words, rank  *)
(* the BM25 score of the row; a file is [dirs, base, test, generated],     *)
(* test saying that the base name has the form of a test.  A query is a    *)
(* sequence of tokens [key, value, part, raw].  Scores are 30-fold.        *)
(***************************************************************************)
EXTENDS Integers, Sequences, FiniteSets, SequencesExt, TLC

CONSTANTS Tables, Questions(_),
          Code, Lower,                   \* of a letter: its code, its lower case
          KindBonus, Languages,          \* KindBonus: a function of the kinds
          StopWords, Operators, TestWords, ProjectTokens,   \* sets of lower-case words
          TestDirs, InnerTestDirs,       \* names of test directories; those that count below the top only
          LowValueDirs,
          DominantEdges,                 \* 20 in the code
          FtsFloor                       \* least number of full-text rows fetched: 100 in the code

VARIABLES table, question, found

searchVars == <<table, question, found>>

Node(i) == table.nodes[i]
Ids == [i \in DOMAIN table.nodes |-> i]
Hit(i, score) == [id |-> i, score |-> score]
Limited(s, n) == SubSeq(s, 1, IF n < Len(s) THEN n ELSE Len(s))
Sorted(s, Better(_, _)) ==
    LET placed == SortSeq([k \in DOMAIN s |-> [item |-> s[k], at |-> k]],
                          LAMBDA x, y : Better(x.item, y.item) \/ (~Better(y.item, x.item) /\ x.at < y.at)) IN
    [k \in DOMAIN s |-> placed[k].item]
ByScore(s) == Sorted(s, LAMBDA x, y : x.score > y.score)
Larger(a, b) == IF a > b THEN a ELSE b

Fold(w) == [i \in DOMAIN w |-> Lower[w[i]]]
IsUpper(c) == Lower[c] # c
Alike(v, w) == Fold(v) = Fold(w)                         \* COLLATE NOCASE
HasPart(w, part) == \E i \in 0..Len(w) - Len(part) : SubSeq(w, i + 1, i + Len(part)) = part
Like(w, part) == HasPart(Fold(w), Fold(part))           \* LIKE '%part%'
StartsLike(w, part) == IsPrefix(Fold(part), Fold(w))
Precedes(v, w) ==
    \E i \in 1..Len(w) : i <= Len(v) + 1 /\ SubSeq(v, 1, i - 1) = SubSeq(w, 1, i - 1) /\ (i > Len(v) \/ Code[v[i]] < Code[w[i]])
Split(w, Ends(_)) ==    \* the non-empty pieces of w; Ends(i): w[i] is a separator
    SelectSeq(FoldLeft(LAMBDA s, i : IF Ends(i) THEN Append(s, <<>>) ELSE [s EXCEPT ![Len(s)] = Append(@, w[i])],
                       <<<<>>>>, [i \in DOMAIN w |-> i]), LAMBDA p : p # <<>>)
CamelSplit(w, At(_)) ==    \* w with a space before every i with At(i)
    FoldLeft(LAMBDA s, i : IF At(i) THEN s \o <<" ", w[i]>> ELSE Append(s, w[i]), <<>>, [i \in DOMAIN w |-> i])
AtHump(w, i) == i > 1 /\ IsUpper(w[i]) /\ w[i - 1] # " " /\ ~IsUpper(w[i - 1])
AtAcronymEnd(w, i) == i \in 2..Len(w) - 1 /\ IsUpper(w[i]) /\ IsUpper(w[i - 1]) /\ ~IsUpper(w[i + 1])
SpacedWords(w) == Split(w, LAMBDA i : w[i] = " ")

-----------------------------------------------------------------------------
(* The query: recognised filters, and the rest as text.                    *)
Recognised(t) ==
    \/ t.key \in {"path", "name"}
    \/ t.key = "kind" /\ t.value \in DOMAIN KindBonus
    \/ t.key = "lang" /\ t.value \in Languages
Joined(words) == FoldLeft(LAMBDA s, w : IF s = <<>> THEN w ELSE s \o <<" ">> \o w, <<>>, words)
RawsOf(tokens) == [i \in DOMAIN tokens |-> tokens[i].raw]
ParseQuery(tokens) ==
    LET Of(key, F(_)) == {F(t) : t \in {u \in Range(tokens) : u.key = key /\ Recognised(u)}} IN
    [text |-> Joined(RawsOf(SelectSeq(tokens, LAMBDA t : ~Recognised(t)))), raw |-> RawsOf(tokens),
     kinds |-> Of("kind", LAMBDA t : t.value), languages |-> Of("lang", LAMBDA t : t.value),
     pathFilters |-> Of("path", LAMBDA t : t.part), nameFilters |-> Of("name", LAMBDA t : t.part)]

-----------------------------------------------------------------------------
(* The edit distance of a and b, or anything above maxDist when it is.     *)
LeastOf(row) == FoldLeft(LAMBDA m, x : IF x < m THEN x ELSE m, row[1], row)
NextRow(prev, c, b) ==
    FoldLeft(LAMBDA cur, j : Append(cur, LeastOf(<<cur[j] + 1, prev[j + 1] + 1, prev[j] + (IF c = b[j] THEN 0 ELSE 1)>>)),
             <<prev[1] + 1>>, [j \in DOMAIN b |-> j])
BoundedEditDistance(a, b, maxDist) ==
    LET last == FoldLeft(LAMBDA row, c : IF row = <<>> THEN row ELSE LET r == NextRow(row, c, b) IN IF LeastOf(r) > maxDist THEN <<>> ELSE r,
                         [j \in 1..Len(b) + 1 |-> j - 1], a) IN
    IF a = b THEN 0
    ELSE IF Len(a) - Len(b) > maxDist \/ Len(b) - Len(a) > maxDist \/ last = <<>> THEN maxDist + 1
    ELSE last[Len(last)]

-----------------------------------------------------------------------------
(* Candidates.                                                             *)
Admits(f, n) == (f.kinds = {} \/ n.kind \in f.kinds) /\ (f.languages = {} \/ n.lang \in f.languages)
Where(f, P(_)) == SelectSeq(Ids, LAMBDA i : Admits(f, Node(i)) /\ P(Node(i)))

SearchAllByFilters(f, limit) ==
    LET rows == Sorted(Where(f, LAMBDA n : TRUE), LAMBDA i, j : Precedes(Node(i).name, Node(j).name)) IN
    [k \in 1..Len(Limited(rows, limit)) |-> Hit(rows[k], 30)]

FtsTerms(text) ==
    LET words == Split(text, LAMBDA i : text[i] \in {" ", "::"})
        bare == [k \in DOMAIN words |-> Fold(SelectSeq(words[k], LAMBDA c : c # ":"))] IN
    {w \in Range(bare) : w # <<>> /\ w \notin Operators}
FtsTokens(n) == {Fold(n.name)} \cup Range(Split(Fold(n.qualified), LAMBDA i : n.qualified[i] = "::")) \cup n.doc
SearchNodesFTS(text, f, limit) ==
    LET rows == Where(f, LAMBDA n : \E t \in FtsTerms(text), w \in FtsTokens(n) : IsPrefix(t, w)) IN
    Limited(ByScore([k \in DOMAIN rows |-> Hit(rows[k], Node(rows[k]).rank)]), Larger(limit * 5, FtsFloor))

LikeScore(n, text) ==
    IF n.name = text THEN 30 ELSE IF StartsLike(n.name, text) THEN 27 ELSE IF Like(n.name, text) THEN 24 ELSE 21
SearchNodesLike(text, f, limit) ==
    LET rows == Where(f, LAMBDA n : Like(n.name, text) \/ Like(n.qualified, text))
        hits == [k \in DOMAIN rows |-> Hit(rows[k], LikeScore(Node(rows[k]), text))]
        length(h) == Len(Node(h.id).name) IN
    Limited(Sorted(hits, LAMBDA x, y : x.score > y.score \/ (x.score = y.score /\ length(x) < length(y))), limit)

AllNames == FoldLeft(LAMBDA s, i : IF Node(i).name \in Range(s) THEN s ELSE Append(s, Node(i).name), <<>>, Ids)
MaxDistance(text) == IF Len(text) <= 4 THEN 1 ELSE 2
SearchNodesFuzzy(text, f, limit) ==
    LET measured == [k \in DOMAIN AllNames |->
            [name |-> AllNames[k], dist |-> BoundedEditDistance(Fold(AllNames[k]), Fold(text), MaxDistance(text))]]
        near == Sorted(SelectSeq(measured, LAMBDA c : c.dist <= MaxDistance(text)), LAMBDA x, y : x.dist < y.dist)
        capped == Limited(near, Larger(limit * 2, 50))
        rows(c) == Limited(Where(f, LAMBDA n : n.name = c.name), 5)
        hits(c) == [k \in DOMAIN rows(c) |-> Hit(rows(c)[k], 30 \div (1 + c.dist))] IN
    Limited(FlattenSeq([k \in DOMAIN capped |-> hits(capped[k])]), limit)

(* Mutant: only what the search itself fetched.                            *)
SupplementNothing(hits, words, f) == hits

(* Symbols named exactly like a word of the query are always candidates.   *)
SupplementExact(hits, words, f) ==
    LET best == FoldLeft(LAMBDA m, h : Larger(m, h.score), 0, hits)
        known(s) == {s[k].id : k \in DOMAIN s} IN
    FoldLeft(LAMBDA s, w : LET rows == Limited(Where(f, LAMBDA n : Alike(n.name, w)), 20) IN
                           s \o [k \in 1..Len(SelectSeq(rows, LAMBDA i : i \notin known(s))) |->
                                     Hit(SelectSeq(rows, LAMBDA i : i \notin known(s))[k], best)],
             hits, SelectSeq(words, LAMBDA w : Len(w) >= 2))

-----------------------------------------------------------------------------
(* Scoring.                                                                *)
IsTestFile(file) ==
    \/ file.test
    \/ \E i \in DOMAIN file.dirs : file.dirs[i] \in TestDirs \/ (i > 1 /\ file.dirs[i] \in InnerTestDirs)
IsLowValueFile(file) == file.generated \/ file.test \/ \E i \in DOMAIN file.dirs : file.dirs[i] \in LowValueDirs

SubTokens(word) ==    \* extractSearchTerms without stems
    LET spaced == CamelSplit(word, LAMBDA i : AtHump(word, i) \/ AtAcronymEnd(word, i))
        parts == Split(spaced, LAMBDA i : spaced[i] \in {" ", ":", "::"})
        compound == IF Len(parts) > 1 /\ parts # Split(word, LAMBDA i : word[i] \in {":", "::"}) THEN {Fold(word)} ELSE {} IN
    {t \in compound \cup ({Fold(p) : p \in Range(parts)} \ StopWords) : Len(t) >= 3}
PathWorth(ts, file) ==    \* of the sub-tokens of one word
    LET InBase(t) == HasPart(Fold(file.base), t)
        InDirs(t) == \E i \in DOMAIN file.dirs : HasPart(Fold(file.dirs[i]), t) IN
    (IF \E t \in ts : InBase(t) THEN 10 ELSE 0)
      + (IF \E t \in ts : InDirs(t) THEN 5 ELSE IF \E t \in ts : InBase(t) THEN 3 ELSE 0)
ScorePathRelevance(file, query) ==
    LET all == SpacedWords(query)
        others == SelectSeq(all, LAMBDA w : Fold(w) \notin ProjectTokens)
        scored == IF others # <<>> THEN others ELSE all
        aboutTests == \E w \in TestWords : HasPart(Fold(query), w) IN
    IF all = <<>> THEN 0
    ELSE FoldLeft(LAMBDA n, w : n + PathWorth(SubTokens(w), file), 0, scored) - (IF ~aboutTests /\ IsTestFile(file) THEN 15 ELSE 0)
NameMatchBonus(name, query) ==
    LET lower == Fold(name)
        spaced == CamelSplit(query, LAMBDA i : AtHump(query, i))
        Long(words) == {Fold(w) : w \in {v \in Range(words) : Len(v) >= 2}}
        rawTerms == SelectSeq(SpacedWords(spaced), LAMBDA w : Len(w) >= 2)
        queryTokens == SelectSeq(SpacedWords(query), LAMBDA w : Len(w) >= 2)
        whole == Fold(SelectSeq(query, LAMBDA c : c # " ")) IN
    IF lower = whole THEN 80
    ELSE IF Len(queryTokens) > 1 /\ lower \in Long(queryTokens) THEN 60
    ELSE IF IsPrefix(whole, lower) THEN 10 + (60 * Len(whole) + Len(lower)) \div (2 * Len(lower))
    ELSE IF Len(rawTerms) > 1 /\ \A t \in Long(rawTerms) : HasPart(lower, t) THEN 15
    ELSE IF HasPart(lower, whole) THEN 10
    ELSE 0
Rescored(hits, query) ==
    LET Bonus(n) == KindBonus[n.kind] + ScorePathRelevance(n.file, query) + NameMatchBonus(n.name, query) IN
    [k \in DOMAIN hits |-> Hit(hits[k].id, hits[k].score + 30 * Bonus(Node(hits[k].id)))]

PathContains(file, part) == \E w \in Range(file.dirs) \cup {file.base} : Like(w, part)
OrElse(hits, others) == IF hits = <<>> THEN others ELSE hits    \* the next kind of search when one finds nothing
Candidates(p, f, limit) ==
    OrElse(IF p.text = <<>> THEN SearchAllByFilters(f, limit * 5) ELSE SearchNodesFTS(p.text, f, limit),
           OrElse(IF Len(p.text) >= 2 THEN SearchNodesLike(p.text, f, limit) ELSE <<>>,
                  IF Len(p.text) >= 3 THEN SearchNodesFuzzy(p.text, f, limit) ELSE <<>>))
Kept(n, p) ==
    /\ p.pathFilters = {} \/ \E part \in p.pathFilters : PathContains(n.file, part)
    /\ p.nameFilters = {} \/ \E part \in p.nameFilters : Like(n.name, part)
Ranked(hits, p, f, limit) ==
    IF p.raw = <<>> THEN hits
    ELSE Limited(ByScore(Rescored(IF hits = <<>> THEN hits ELSE SupplementExact(hits, p.raw, f),
                                  IF p.text # <<>> THEN p.text ELSE Joined(p.raw))), limit)
Filters(p, options) == [kinds |-> options.kinds \cup p.kinds, languages |-> options.languages \cup p.languages]
SearchParsed(p, f, limit) ==
    SelectSeq(Ranked(Candidates(p, f, limit), p, f, limit), LAMBDA h : Kept(Node(h.id), p))
SearchFor(p, options) == SearchParsed(p, Filters(p, options), options.limit)
SearchNodes(tokens, options) == SearchFor(ParseQuery(tokens), options)

-----------------------------------------------------------------------------
(* Look-ups by exact name and by part of a name.                           *)
FilesNamed(name, kinds) == {Node(i).file : i \in {j \in DOMAIN table.nodes : Alike(Node(j).name, name) /\ (kinds = {} \/ Node(j).kind \in kinds)}}
FindNodesByExactName(names, f, limit) ==
    LET filesOf == [k \in DOMAIN names |-> FilesNamed(names[k], f.kinds)]
        distinctive == UNION {filesOf[k] : k \in {j \in DOMAIN names : Cardinality(filesOf[j]) < 10}}
        perName == Larger(8, (limit + Len(names) - 1) \div Len(names))
        hits(name, known) == LET rows == SelectSeq(Limited(Where(f, LAMBDA n : Alike(n.name, name)), Larger(3 * perName, 50)), LAMBDA i : i \notin known) IN
            Limited(ByScore([k \in DOMAIN rows |-> Hit(rows[k], IF Node(rows[k]).file \in distinctive THEN 21 ELSE 1)]), perName) IN
    IF names = <<>> THEN <<>>
    ELSE Limited(ByScore(FoldLeft(LAMBDA s, name : s \o hits(name, {s[k].id : k \in DOMAIN s}), <<>>, names)), limit)
FindNodesByNameSubstring(part, excludePrefix, f, limit) ==
    LET rows == Where(f, LAMBDA n : Like(n.name, part) /\ ~(excludePrefix /\ StartsLike(n.name, part))) IN
    Limited(Sorted([k \in DOMAIN rows |-> Hit(rows[k], 30)], LAMBDA x, y : Len(Node(x.id).name) < Len(Node(y.id).name)), limit)

-----------------------------------------------------------------------------
(* The files that stand out.  Counts are per file, in order of first use.  *)
Tally(files) ==
    LET once == FoldLeft(LAMBDA s, x : IF x \in Range(s) THEN s ELSE Append(s, x), <<>>, files) IN
    [k \in DOMAIN once |-> [file |-> once[k], count |-> Cardinality({j \in DOMAIN files : files[j] = once[k]})]]
TopOf(files) == SelectSeq(Limited(Sorted(Tally(files), LAMBDA x, y : x.count > y.count), 20), LAMBDA r : ~IsLowValueFile(r.file))
Edges(P(_)) == SelectSeq(table.edges, LAMBDA e : P(e))
Nowhere == <<>>
GetDominantFile ==
    LET inside == Edges(LAMBDA e : Node(e.source).file = Node(e.target).file)
        top == TopOf([k \in DOMAIN inside |-> Node(inside[k].source).file]) IN
    IF top = <<>> \/ top[1].count < DominantEdges THEN Nowhere ELSE <<top[1]>>
GetTopRouteFile ==
    LET routes == SelectSeq(Ids, LAMBDA i : Node(i).kind = "route")
        top == TopOf([k \in DOMAIN routes |-> Node(routes[k]).file])
        total == FoldLeft(LAMBDA n, r : n + r.count, 0, top) IN
    IF top = <<>> \/ total < 3 \/ top[1].count < 3 \/ 10 * top[1].count < 3 * total THEN Nowhere ELSE <<top[1]>>
GetRoutingManifest(limit) ==
    LET Handled(i) == Edges(LAMBDA e : e.source = i /\ Node(i).kind = "route" /\ e.kind \in {"references", "calls"}
                                         /\ Node(e.target).kind \in {"function", "method", "class"})
        rows == Limited(FlattenSeq([i \in DOMAIN Ids |-> Handled(i)]), limit)
        handlers == SelectSeq([k \in DOMAIN rows |-> Node(rows[k].target).file], LAMBDA file : ~IsLowValueFile(file)) IN
    IF Len(handlers) < 3 THEN Nowhere ELSE <<Sorted(Tally(handlers), LAMBDA x, y : x.count > y.count)[1]>>

-----------------------------------------------------------------------------
InitSearch == table \in Tables /\ question = [op |-> "none"] /\ found = <<>>
Answered(q, answer) == question' = q /\ found' = answer /\ UNCHANGED table
Asked(op) == {q \in Questions(table) : q.op = op}
FindByQuery == \E q \in Asked("search") : Answered(q, SearchNodes(q.tokens, q.options))
FindByName ==
    \/ \E q \in Asked("exact") : Answered(q, FindNodesByExactName(q.names, q.options, q.options.limit))
    \/ \E q \in Asked("part") : Answered(q, FindNodesByNameSubstring(q.names[1], q.strict, q.options, q.options.limit))
FindFile ==
    \/ \E q \in Asked("dominant") : Answered(q, GetDominantFile)
    \/ \E q \in Asked("routes") : Answered(q, GetTopRouteFile)
    \/ \E q \in Asked("manifest") : Answered(q, GetRoutingManifest(q.options.limit))
StepSearch == question.op = "none" /\ (FindByQuery \/ FindByName \/ FindFile)
SpecSearch == InitSearch /\ [][StepSearch]_searchVars

-----------------------------------------------------------------------------
(* What a user may rely on.                                                *)
OneEdit(w, letters) ==
    {RemoveAt(w, i) : i \in DOMAIN w} \cup {ReplaceAt(w, i, c) : i \in DOMAIN w, c \in letters}
      \cup {InsertAt(w, i, c) : i \in 1..Len(w) + 1, c \in letters}
WithinEdits(v, w, k) ==
    LET Near(u) == {u} \cup OneEdit(u, Range(v) \cup Range(w)) IN
    IF k = 1 THEN w \in Near(v) ELSE \E u \in Near(v) : w \in Near(u)

Distinct(hits) == \A j, k \in DOMAIN hits : j < k => hits[j].id # hits[k].id /\ hits[j].score >= hits[k].score
Includes(hits, i) == \E k \in DOMAIN hits : hits[k].id = i
WorthOf(i, query) ==
    30 * (KindBonus[Node(i).kind] + ScorePathRelevance(Node(i).file, query) + NameMatchBonus(Node(i).name, query))
QueriesAreAnswered ==
    question.op = "search" =>
        LET p == ParseQuery(question.tokens)
            o == question.options
            oneSided == (o.kinds = {} \/ p.kinds = {}) /\ (o.languages = {} \/ p.languages = {})
            soft == p.pathFilters = {} /\ p.nameFilters = {}
            wanted == {i \in DOMAIN table.nodes : Admits(Filters(p, o), Node(i))}
            query == IF p.text # <<>> THEN p.text ELSE Joined(p.raw)
            named == {i \in wanted : \E w \in Range(p.raw) : Len(w) >= 2 /\ Alike(Node(i).name, w)}
            passes(i) ==
                /\ p.pathFilters # {} => \E part \in p.pathFilters : PathContains(Node(i).file, part)
                /\ p.nameFilters # {} => \E part \in p.nameFilters : Like(Node(i).name, part)
            oneWord == Len(p.text) >= 3 /\ FtsTerms(p.text) = {Fold(p.text)}
            seen == {i \in wanted : (\E w \in FtsTokens(Node(i)) : IsPrefix(Fold(p.text), w)) \/ Like(Node(i).name, p.text) \/ Like(Node(i).qualified, p.text)}
            close == {i \in wanted : WithinEdits(Fold(p.text), Fold(Node(i).name), MaxDistance(p.text))} IN
        /\ Distinct(found)
        /\ question.tokens # <<>> => Len(found) <= o.limit
        /\ \A k \in DOMAIN found : passes(found[k].id)
        /\ oneSided =>
              /\ \A k \in DOMAIN found : found[k].id \in wanted
              /\ soft /\ found # <<>> =>
                    \A i \in named : \/ Includes(found, i)
                                     \/ Len(found) = o.limit /\ \A k \in DOMAIN found : found[k].score >= WorthOf(i, query)
              /\ ~soft /\ found # <<>> /\ Cardinality(wanted) <= o.limit =>
                    \A i \in named : passes(i) => Includes(found, i)
              /\ soft /\ oneWord /\ seen # {} => found # <<>>
              /\ soft /\ oneWord /\ seen = {} =>
                    /\ \A k \in DOMAIN found : found[k].id \in close
                    /\ Len(found) < o.limit => \A i \in close : Includes(found, i)
NamesAreFound ==
    /\ question.op = "exact" =>
          LET named == {i \in DOMAIN table.nodes : Admits(question.options, Node(i)) /\ \E w \in Range(question.names) : Alike(Node(i).name, w)} IN
          /\ Distinct(found) /\ Len(found) <= question.options.limit
          /\ \A k \in DOMAIN found : found[k].id \in named
          /\ Len(found) < question.options.limit => \A i \in named : Includes(found, i)
    /\ question.op = "part" =>
          LET parts == {i \in DOMAIN table.nodes : /\ Admits(question.options, Node(i)) /\ Like(Node(i).name, question.names[1])
                                                   /\ question.strict => ~StartsLike(Node(i).name, question.names[1])} IN
          /\ \A k \in DOMAIN found : found[k].id \in parts
          /\ \A i \in parts : Includes(found, i) \/ (Len(found) = question.options.limit /\ \A k \in DOMAIN found : Len(Node(found[k].id).name) <= Len(Node(i).name))
FilesStandOut ==
    LET Routes(file) == Cardinality({i \in DOMAIN table.nodes : Node(i).kind = "route" /\ Node(i).file = file}) IN
    /\ question.op \in {"dominant", "routes", "manifest"} /\ found # Nowhere => ~IsLowValueFile(found[1].file)
    /\ question.op = "routes" /\ found # Nowhere =>
          \A i \in DOMAIN table.nodes : IsLowValueFile(Node(i).file) \/ Routes(Node(i).file) <= found[1].count

(* A search returns each symbol once, best first, within the limit and the *)
(* path: and name: filters.  queries.ts:823-828: a symbol named like a word*)
(* of the query is not buried by the rows fetched before it; only better   *)
(* ones displace it.  When nothing starts with or contains the one word    *)
(* asked for, the answer is the symbols within the allowed typing errors.  *)
(* Where the query and the options both name kinds the code takes either,  *)
(* against 780-781; nothing is said of that case: see the README.          *)
SearchAnswers == QueriesAreAnswered /\ NamesAreFound /\ FilesStandOut
=============================================================================
