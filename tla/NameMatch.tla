----------------------------- MODULE NameMatch -----------------------------
(***************************************************************************)
(* Matching a reference to a symbol by names (resolution/name-matcher.ts). *)
(* A symbol is [name, kind, lang, path, owner, line, end, exported, ret,   *)
(* supers, pkg]; path is the sequence of directories and the file's name,  *)
(* owner the names around the symbol, outermost first.  A reference is     *)
(* [form, recv, name, inner, kind, lang, path, line]: the source's         *)
(* "a.b", "a::b", "a/b.h" and "a.b().c" are the forms dotted, scoped, path *)
(* and chain, with recv the segments before the last one.  A match is the  *)
(* symbol's index and a confidence in hundredths.                          *)
(***************************************************************************)
EXTENDS ImportText

CONSTANTS
    Cap,           \* each name with its first letter in upper case
    Lower,         \* each name in lower case
    Words,         \* splitCamelCase of each name, in lower case
    EndsIn,        \* pairs of names of which the second is a tail of the first
    Inside         \* pairs of names of which the second occurs inside the first

Symbols == scene.symbols
None == [to |-> 0, conf |-> 0, by |-> "none"]
Match(i, conf, by) == IF i = 0 THEN None ELSE [to |-> i, conf |-> conf, by |-> by]
Else(a, b) == IF a # None THEN a ELSE b

Mappings(r) == ExtractImportMappings(r.path, r.lang)

(* Indices of the symbols that pass, in the order of the table.            *)
Those(Test(_)) == SelectSeq([i \in DOMAIN Symbols |-> i], LAMBDA i : Test(Symbols[i]))
First(is) == IF is = <<>> THEN 0 ELSE is[1]
FirstOf(is, Test(_)) == First(SelectSeq(is, LAMBDA i : Test(Symbols[i])))
Named(name) == Those(LAMBDA s : s.name = name)
Best(is, Worth(_)) ==
    IF is = <<>> THEN 0
    ELSE LET k == CHOOSE k \in DOMAIN is :
                      \A j \in DOMAIN is :
                          Worth(is[j]) < Worth(is[k]) \/ (Worth(is[j]) = Worth(is[k]) /\ k <= j)
         IN is[k]

Tail1(whole, part) == whole = part \/ <<whole, part>> \in EndsIn
(* String suffix of two joined sequences: only the first segment may be    *)
(* cut.                                                                    *)
EndsWith(whole, part) ==
    /\ part # <<>> /\ Len(whole) >= Len(part)
    /\ LET d == Len(whole) - Len(part) IN
       /\ Tail1(whole[d + 1], part[1])
       /\ \A i \in 2 .. Len(part) : whole[d + i] = part[i]
Qualified(s) == IF s.kind = "file" THEN s.path ELSE Append(s.owner, s.name)
Includes(s, name) == \E n \in Range(Qualified(s)) : n = name \/ <<n, name>> \in Inside
DirOf(path) == SubSeq(path, 1, Len(path) - 1)

-----------------------------------------------------------------------------
(* Languages.                                                              *)
Families == <<{"java", "kotlin", "scala"}, {"swift", "objc"}, {"ts", "tsx", "js", "jsx"},
              {"c", "cpp"}, {"csharp", "razor"}>>
KnownFamily(l) == \E f \in DOMAIN Families : l \in Families[f]
SameFamily(a, b) == a = b \/ \E f \in DOMAIN Families : {a, b} \subseteq Families[f]
CrossesFamily(a, b) == KnownFamily(a) /\ KnownFamily(b) /\ ~SameFamily(a, b)

LanguageGate(is, r) ==
    CASE r.kind = "references" -> SelectSeq(is, LAMBDA i : SameFamily(Symbols[i].lang, r.lang))
      [] r.kind = "imports" -> SelectSeq(is, LAMBDA i : ~CrossesFamily(Symbols[i].lang, r.lang))
      [] OTHER -> is

Shared(p, q) ==
    Len(LongestCommonPrefix({DirOf(p), DirOf(q)}))
Lesser(a, b) == IF a <= b THEN a ELSE b
Proximity(p, q) == Lesser(15 * Shared(p, q), 80)

-----------------------------------------------------------------------------
(* Files.                                                                  *)
ClosestFile(is, r) ==
    LET near == SelectSeq(is, LAMBDA i : DirOf(Symbols[i].path) = DirOf(r.path)) IN
    Best(IF near # <<>> THEN near ELSE is,
         LAMBDA i : Proximity(r.path, Symbols[i].path)
                    + IF SameFamily(Symbols[i].lang, r.lang) THEN 5 ELSE 0)

MatchByFilePath(r) ==
    LET files == SelectSeq(Named(r.name), LAMBDA i : Symbols[i].kind = "file")
        want == Append(r.recv, r.name)
        exact == FirstOf(files, LAMBDA s : s.path = want)
        suffix == SelectSeq(files, LAMBDA i : EndsWith(Symbols[i].path, want)) IN
    IF r.form # "path" THEN None
    ELSE Else(Match(exact, 95, "file-path"),
         Else(Match(ClosestFile(suffix, r), 85, "file-path"),
              IF Len(files) = 1 THEN Match(files[1], 70, "file-path") ELSE None))

-----------------------------------------------------------------------------
(* Plain and qualified names.                                              *)
Callable == {"function", "method"}
KindBonus(s, r) ==
    CASE r.kind = "calls" /\ s.kind \in Callable -> 25
      [] r.kind = "instantiates" /\ s.kind \in {"class", "struct", "interface"} -> 25
      [] r.kind = "decorates" /\ s.kind \in Callable -> 25
      [] r.kind = "decorates" /\ s.kind \in {"class", "interface"} -> 15
      [] OTHER -> 0

Away(a, b) == IF a > b THEN a - b ELSE b - a
Score(s, r) ==
    (IF s.path = r.path THEN 100 + (20 - Lesser(20, Away(s.line, r.line) \div 10)) ELSE 0)
    + Proximity(r.path, s.path) + (IF s.lang = r.lang THEN 50 ELSE -80)
    + KindBonus(s, r) + (IF s.exported THEN 10 ELSE 0)

(* A candidate that scores below zero is none.                             *)
FindBestMatch(is, r) ==
    Best(SelectSeq(is, LAMBDA i : Score(Symbols[i], r) >= 0), LAMBDA i : Score(Symbols[i], r))

OnlyOrBest(is, r) ==
    LET sure(i) == IF Symbols[i].lang = r.lang THEN 90 ELSE 50
        near(i) == IF Proximity(r.path, Symbols[i].path) >= 30 THEN 70 ELSE 40
        matched(i) == IF i = 0 THEN None ELSE Match(i, near(i), "exact-match") IN
    IF Len(is) = 1 THEN Match(is[1], sure(is[1]), "exact-match") ELSE matched(FindBestMatch(is, r))
MatchByExactName(r) ==
    IF r.form \notin {"plain", "path"} \/ (r.form = "path" /\ r.recv # <<>>) THEN None
    ELSE OnlyOrBest(LanguageGate(Named(r.name), r), r)

(* Names with "." never equal a qualified name, which is joined with "::". *)
MatchByQualifiedName(r) ==
    LET want == Append(r.recv, r.name)
        exact == Those(LAMBDA s : Qualified(s) = want /\ s.kind # "file")
        ending == FirstOf(Named(r.name), LAMBDA s : EndsWith(Qualified(s), want)) IN
    IF r.form # "scoped" THEN None
    ELSE IF Len(exact) = 1 THEN Match(exact[1], 95, "qualified-name")
    ELSE Match(ending, 85, "qualified-name")

MatchFuzzy(r) ==
    LET callable == SelectSeq([i \in DOMAIN Symbols |-> i],
            LAMBDA i : /\ Lower[Symbols[i].name] = Lower[r.name]
                       /\ Symbols[i].kind \in Callable \cup {"class"})
        gated == LanguageGate(callable, r)
        native == SelectSeq(gated, LAMBDA i : Symbols[i].lang = r.lang)
        final == IF native # <<>> THEN native ELSE gated IN
    IF r.form # "plain" \/ Len(final) # 1 THEN None
    ELSE Match(final[1], IF Symbols[final[1]].lang = r.lang THEN 50 ELSE 30, "fuzzy")

-----------------------------------------------------------------------------
(* Methods of a type, its own or of a supertype up to four levels up.      *)
TypeKinds == {"class", "struct", "interface", "trait", "protocol", "enum"}
Supertypes(type, lang) ==
    LET is == Those(LAMBDA s : scene.linked /\ s.name = type /\ s.kind \in TypeKinds /\ s.lang = lang) IN
    SelectSeq(FlattenSeq([k \in DOMAIN is |-> Symbols[is[k]].supers]), LAMBDA t : t # type)

MethodsOf(type, method, lang) ==
    Those(LAMBDA s : /\ s.name = method /\ s.kind = "method" /\ s.lang = lang
                     /\ s.owner # <<>> /\ s.owner[Len(s.owner)] = type)

RECURSIVE MethodOnType(_, _, _, _, _), MethodOnOne(_, _, _, _, _)
MethodOnType(type, method, r, fqn, depth) ==
    LET own == MethodsOf(type, method, r.lang)
        imported == FirstOf(own, LAMBDA s : EndsWith(s.path, fqn)) IN
    CASE own = <<>> ->
             IF depth < 4 THEN MethodOnOne(Supertypes(type, r.lang), method, r, fqn, depth) ELSE 0
      [] Len(own) > 1 /\ imported # 0 -> imported
      [] OTHER -> own[1]
MethodOnOne(types, method, r, fqn, depth) ==
    IF types = <<>> THEN 0
    ELSE LET via == MethodOnType(types[1], method, r, fqn, depth + 1) IN
         IF via # 0 THEN via ELSE MethodOnOne(Tail(types), method, r, fqn, depth)

(* The file that the first import of a type in the caller's file names.    *)
JvmFile(segs, lang) == Front(segs) \o <<Last(segs) \o IF lang = "kotlin" THEN ".kt" ELSE ".java">>
ImportedFqn(type, r) ==
    LET of == SelectSeq(Mappings(r), LAMBDA m : m.local = type) IN
    IF of = <<>> THEN <<>> ELSE JvmFile(of[1].source.segs, r.lang)

ReturnType(cls, method, r) ==
    LET is == Those(LAMBDA s : s.name = method /\ s.kind \in Callable /\ s.lang = r.lang /\ s.ret # "")
        i == IF cls = <<>> THEN FirstOf(is, LAMBDA s : s.kind = "function")
             ELSE FirstOf(is, LAMBDA s : LET want == Append(cls, method) IN
                              IsSuffix(want, Qualified(s)) \/ IsSuffix(Qualified(s), want)) IN
    IF i = 0 THEN "" ELSE Symbols[i].ret

TypeExists(name, r) ==
    \E i \in DOMAIN Symbols : /\ Symbols[i].name = name /\ Symbols[i].kind \in {"class", "struct"}
                              /\ Symbols[i].lang = r.lang

-----------------------------------------------------------------------------
(* The type of a C++ variable: the nearest declarator at or above the call *)
(* line, where "auto" asks its initializer, then the header's first.       *)
RECURSIVE CppReceiver(_, _, _), CppResult(_, _, _)
CppDeclared(d, r, depth) ==
    CASE d.type # "auto" -> d.type
      [] d.init.form = "new" -> d.init.name
      [] d.init.form = "none" -> ""
      [] OTHER -> CppResult(d.init, r, depth + 1)
CppReceiver(var, r, depth) ==
    LET above == SelectSeq(scene.decls[r.path],
                     LAMBDA d : /\ d.var = var /\ d.line <= r.line
                                /\ CppDeclared(d, r, depth) # "")
        near == SelectSeq(above, LAMBDA d : \A e \in Range(above) : e.line <= d.line)
        header == SelectSeq(scene.headers[r.path], LAMBDA d : d.var = var /\ d.type # "auto") IN
    CASE near # <<>> -> CppDeclared(near[1], r, depth)
      [] header # <<>> -> header[1].type
      [] OTHER -> ""
CppResult(inner, r, depth) ==
    LET type == CppReceiver(inner.recv[1], r, depth + 1)
        ret == ReturnType(inner.recv, inner.name, r) IN
    CASE depth > 3 -> ""
      [] inner.form = "dotted" ->
             IF Len(inner.recv) > 1 \/ type = "" THEN "" ELSE ReturnType(<<type>>, inner.name, r)
      [] ret # "" -> ret
      [] OTHER -> IF TypeExists(inner.name, r) THEN inner.name ELSE ""

OnType(type, r, conf, fqn) ==
    IF type = "" THEN None
    ELSE Match(MethodOnType(type, r.name, r, fqn, 0), conf, "instance-method")

OnJvmType(type, r, conf) == OnType(type, r, conf, ImportedFqn(type, r))

MatchCppCallChain(r) ==
    IF r.form # "chain" \/ r.lang \notin {"c", "cpp"} THEN None
    ELSE OnType(CppResult(r.inner, r, 0), r, 85, <<>>)

(* Cls::make().m: the factory's return type, or its class for "self".      *)
MatchScopedCallChain(r) ==
    IF r.form # "chain" \/ r.lang \notin {"php", "rust"} \/ r.inner.form # "scoped" THEN None
    ELSE LET ret == ReturnType(r.inner.recv, r.inner.name, r) IN
         OnType(IF ret = "self" THEN r.inner.recv[Len(r.inner.recv)] ELSE ret, r, 85, <<>>)

(* Foo.make().m, and New().m: Go asks the function's return type and then  *)
(* any m; where a bare call of a capitalised name constructs, its type.    *)
Constructs == {"kotlin", "swift", "scala", "dart"}
MatchDottedCallChain(r) ==
    LET inner == r.inner
        bare == [r EXCEPT !.form = "plain", !.recv = <<>>]
        ret == ReturnType(<<>>, inner.name, r)
        made == ReturnType(<<inner.recv[Len(inner.recv)]>>, inner.name, r) IN
    CASE r.form # "chain" \/ r.lang \notin Constructs \cup {"java", "csharp", "go"} -> None
      [] inner.form = "plain" /\ r.lang = "go" ->
             IF ret # "" THEN OnJvmType(ret, r, 85)
             ELSE Else(MatchByExactName(bare), MatchFuzzy(bare))
      [] inner.form = "plain" ->
             IF r.lang \in Constructs /\ Cap[inner.name] = inner.name
             THEN OnJvmType(inner.name, r, 85) ELSE None
      [] inner.form = "dotted" -> OnJvmType(made, r, 85)
      [] OTHER -> None

-----------------------------------------------------------------------------
(* recv.m: the declared type of the receiver, a class of its name, a class *)
(* of its capitalised name, the only method m, the method whose class      *)
(* shares words with the receiver.                                         *)
JavaField(var, r) ==
    LET around == Those(LAMBDA s : /\ s.path = r.path /\ s.lang = r.lang
                                   /\ s.kind \in {"class", "interface"}
                                   /\ s.line <= r.line /\ r.line <= s.end)
        inner == SelectSeq(around, LAMBDA i : \A j \in Range(around) : Symbols[j].line <= Symbols[i].line)
        class == Symbols[inner[Len(inner)]]
        field == FirstOf(Named(var), LAMBDA s : /\ s.kind = "field" /\ s.lang = r.lang /\ s.path = r.path
                                                /\ class.line <= s.line /\ s.end <= class.end) IN
    IF inner = <<>> \/ field = 0 THEN ""
    ELSE IF Cap[Symbols[field].ret] = Symbols[field].ret THEN Symbols[field].ret ELSE ""

MethodOfNamed(class, r) ==
    LET classes == Those(LAMBDA s : s.name = class /\ s.lang = r.lang
                                    /\ s.kind \in {"class", "struct", "interface"})
        method(i) == FirstOf(Named(r.name), LAMBDA s : /\ s.kind = "method" /\ s.path = Symbols[i].path
                                                       /\ Includes(s, class))
        hit == SelectSeq(classes, LAMBDA i : method(i) # 0) IN
    IF hit = <<>> THEN 0 ELSE method(hit[1])

Overlap(s, r) ==
    Len(SelectSeq(FlattenSeq([k \in DOMAIN r.recv |-> Words[r.recv[k]]]),
                  LAMBDA w : \E n \in Range(Qualified(s)) : w \in Range(Words[n])))
    + IF s.lang = r.lang THEN 1 ELSE 0

OnlyMethod(r) ==
    LET all == Those(LAMBDA s : s.name = r.name /\ s.kind = "method")
        native == SelectSeq(all, LAMBDA i : Symbols[i].lang = r.lang)
        is == IF native # <<>> THEN native ELSE all
        best == Best(is, LAMBDA i : Overlap(Symbols[i], r)) IN
    CASE Len(is) = 1 /\ Symbols[is[1]].lang = r.lang -> Match(is[1], 70, "instance-method")
      [] Len(is) > 1 /\ Overlap(Symbols[best], r) >= 2 -> Match(best, 65, "instance-method")
      [] OTHER -> None

MatchMethodCall(r) ==
    LET recv == r.recv[Len(r.recv)]
        declared == CASE r.lang = "cpp" -> OnType(CppReceiver(recv, r, 0), r, 90, <<>>)
                      [] r.lang \in {"java", "kotlin"} -> OnJvmType(JavaField(recv, r), r, 90)
                      [] OTHER -> None IN
    IF r.form \notin {"dotted", "scoped"} \/ (r.form = "scoped" /\ Len(r.recv) > 1) THEN None
    ELSE Else(IF r.form = "dotted" /\ Len(r.recv) = 1 THEN declared ELSE None,
         Else(IF Len(r.recv) = 1 THEN Match(MethodOfNamed(recv, r), 85, "qualified-name") ELSE None,
         Else(IF Len(r.recv) = 1 /\ Cap[recv] # recv
              THEN Match(MethodOfNamed(Cap[recv], r), 80, "instance-method") ELSE None,
              OnlyMethod(r))))

(* The strategies in their order; the first that matches wins.             *)
ByName(r) ==
    Else(MatchByFilePath(r), Else(MatchByQualifiedName(r),
    Else(MatchCppCallChain(r), Else(MatchScopedCallChain(r), Else(MatchDottedCallChain(r),
    Else(MatchMethodCall(r), MatchByExactName(r)))))))
MatchReference(r) == Else(ByName(r), MatchFuzzy(r))
=============================================================================
