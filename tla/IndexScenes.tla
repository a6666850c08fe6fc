----------------------------- MODULE IndexScenes -----------------------------
(* The small projects, files and graphs that the index run is checked on. *)
EXTENDS Naturals, Sequences, FiniteSets, SequencesExt, TLC

-----------------------------------------------------------------------------
(* Names of the resolution scenes.                                         *)
Names == {"run", "Run", "x", "y", "z", "Foo", "foo", "Bar", "bar", "svc", "Svc", "make", "util", "main",
          "auto", "inc", "util.h", "util.php", "util.lua", "util.razor", "util.cs", "util.js", "svc.py", "__init__.py", "userService", "UserService", "find", "", "int", "*", "std", "os", "console", "App", "app"}
SceneCap == [n \in Names |-> CASE n = "run" -> "Run" [] n = "foo" -> "Foo" [] n = "bar" -> "Bar" [] n = "svc" -> "Svc"
                              [] n = "userService" -> "UserService" [] n = "app" -> "App"
                              [] n \in {"x", "y", "z", "make", "util", "main", "find", "int"} -> n \o "'" [] OTHER -> n]
SceneLower == [n \in Names |-> CASE n = "Run" -> "run" [] n = "Foo" -> "foo" [] n = "Bar" -> "bar"
                                [] n = "Svc" -> "svc" [] OTHER -> n]
SceneWords == [n \in Names |-> CASE n \in {"userService", "UserService"} -> <<"user", "service">>
                                [] n \in {"x", "y", "z", "", "*"} -> <<>> [] OTHER -> <<n>>]
SceneEndsIn == {<<"UserService", "Service">>}
SceneInside == {<<"userService", "Service">>}

Src(dots, segs) == [dots |-> dots, segs |-> segs]
St(form, main, names, ns, source) == [form |-> form, main |-> main, names |-> names, ns |-> ns, source |-> source]
Nm(n, a) == [name |-> n, alias |-> a]
Sym(name, kind, lang, path, owner) ==
    [name |-> name, kind |-> kind, lang |-> lang, path |-> path, owner |-> owner, line |-> 5, end |-> 9,
     exported |-> TRUE, ret |-> "", supers |-> <<>>, pkg |-> <<>>, expect |-> FALSE]
FileSym(path, lang) == Sym(path[Len(path)], "file", lang, path, <<>>)
Ref(form, recv, name, kind, lang, path) ==
    [form |-> form, recv |-> recv, name |-> name, kind |-> kind, lang |-> lang, path |-> path, line |-> 7,
     dots |-> 0, fromKind |-> "class", inner |-> [form |-> "none", recv |-> <<>>, name |-> ""]]
Chain(form, recv, callee, name, lang, path) ==
    [Ref("chain", <<>>, name, "calls", lang, path) EXCEPT !.inner = [form |-> form, recv |-> recv, name |-> callee]]

NoConfig == [state |-> "absent", paths |-> <<>>]
PlainDisk == [tsconfig |-> NoConfig, jsconfig |-> NoConfig, npmGlobs |-> <<>>, pnpmGlobs |-> <<>>, dirs |-> <<>>,
              packages |-> {}, goMod |-> <<>>, compileDBs |-> <<>>, headers |-> {}]
Scene(symbols, files, text) ==
    LET at(p) == IF p \in DOMAIN text THEN text[p] ELSE <<>> IN
    [symbols |-> symbols, files |-> files, text |-> [p \in files |-> at(p)], disk |-> PlainDisk,
     decls |-> [p \in files |-> <<>>], headers |-> [p \in files |-> <<>>],
     frameworks |-> <<>>, usings |-> {}, modules |-> {}, linked |-> FALSE, refs |-> {}]
PathsOf(symbols) == {symbols[i].path : i \in DOMAIN symbols}
WithRefs(s, refs) == [s EXCEPT !.refs = refs]

-----------------------------------------------------------------------------
(* Barrels: a.ts imports from ./b; b.ts and c.ts pass on, also in a cycle. *)
TsFile(n) == <<"src", n \o ".ts">>
Star(n) == St("export *", "", <<>>, "", Src(1, <<n>>))
Pass(n, name, alias) == St("export", "", <<Nm(name, alias)>>, "", Src(1, <<n>>))
BarrelTexts(other) == {<<>>, <<Star(other)>>, <<Star(other), Star("d")>>, <<Pass(other, "x", "")>>,
                       <<Pass("d", "y", "x")>>, <<Pass("d", "x", ""), Star(other)>>, <<Pass("d", "default", "x")>>}
BarrelScene(b, c, exported) ==
    LET syms == <<Sym("x", "function", "ts", TsFile("d"), <<>>),
                  [Sym("y", "function", "ts", TsFile("d"), <<>>) EXCEPT !.exported = exported],
                  Sym("x", "class", "ts", TsFile("e"), <<>>)>> IN
    WithRefs(Scene(syms, {TsFile(n) : n \in {"a", "b", "c", "d", "e"}},
                   TsFile("a") :> <<St("import", "", <<Nm("x", ""), Nm("y", "z")>>, "", Src(1, <<"b">>)),
                                    St("import", "Foo", <<>>, "util", Src(1, <<"c">>))>>
                   @@ TsFile("b") :> b @@ TsFile("c") :> c),
             {Ref("plain", <<>>, n, "calls", "ts", TsFile("a")) : n \in {"x", "z", "Foo"}}
             \cup {Ref("dotted", <<"util">>, n, "calls", "ts", TsFile("a")) : n \in {"x", "y"}}
             \cup {Ref("plain", <<>>, "util", "imports", "ts", TsFile("a"))})
BarrelScenes == {BarrelScene(b, c, e) : b \in BarrelTexts("c"), c \in BarrelTexts("b"), e \in BOOLEAN}

(* One name in several languages and directories.                          *)
Deep(n, file) == SubSeq(<<"p1", "p2", "p3", "p4", "p5", "p6">>, 1, n) \o <<file>>
RunSyms == {Sym("run", "function", "ts", <<"lib", "r.ts">>, <<>>),
            [Sym("run", "variable", "ts", <<"lib", "v.ts">>, <<>>) EXCEPT !.exported = FALSE],
            Sym("run", "function", "python", Deep(6, "r.py"), <<>>),
            Sym("run", "class", "python", Deep(2, "s.py"), <<>>),
            Sym("run", "function", "go", Deep(6, "r.go"), <<>>),
            Sym("Run", "function", "ts", <<"lib", "r.ts">>, <<>>)}
CollisionScene(S) ==
    LET syms == SetToSeq(S) IN
    WithRefs(Scene(syms, PathsOf(syms) \cup {Deep(6, "u.ts")}, <<>>),
             {Ref("plain", <<>>, "run", k, "ts", Deep(6, "u.ts")) : k \in {"calls", "references", "instantiates"}})
CollisionScenes == {CollisionScene(S) : S \in {S \in SUBSET RunSyms : Cardinality(S) \in 1 .. 4}}

-----------------------------------------------------------------------------
(* One scene for each language's own rules.                                *)
Kinds == {"calls", "references", "imports", "extends"}
Recvs == {<<"foo">>, <<"svc">>, <<"Foo">>, <<"x", "svc">>, <<"app", "util">>}
RefShapes(lang, path) ==
    {Ref("plain", <<>>, n, k, lang, path) : n \in {"run", "Run", "Foo", "util", "*"}, k \in Kinds}
    \cup {Ref(f, v, n, k, lang, path) : f \in {"dotted", "scoped"}, v \in Recvs, n \in {"run", "make", "find"}, k \in Kinds}
    \cup {Ref("path", v, n, "imports", lang, path) : v \in {<<>>, <<"inc">>, <<"src", "inc">>}, n \in {"util.h", "util.php"}}
    \cup {Chain(f, <<"Foo">>, "make", n, lang, path) : f \in {"dotted", "scoped"}, n \in {"run", "find"}}
    \cup {Chain("plain", <<>>, n, "run", lang, path) : n \in {"make", "Foo"}}

Foo(lang, kind, path) == Sym("Foo", kind, lang, path, <<>>)
Run(lang, path, owner) == Sym("run", "method", lang, path, <<owner>>)
Make(lang, path, owner, ret) == [Sym("make", "function", lang, path, owner) EXCEPT !.ret = ret]
Base(supers, s) == [s EXCEPT !.supers = supers]

JvmScene(lang, ext) ==
    LET a == <<"app", "Foo" \o ext>>  b == <<"lib", "Foo" \o ext>>  u == <<"app", "main" \o ext>>
        syms == <<[Foo(lang, "class", a) EXCEPT !.pkg = <<"x">>], [Foo(lang, "class", b) EXCEPT !.pkg = <<"x">>, !.expect = TRUE],
                  Run(lang, a, "Foo"), Run(lang, b, "Foo"), Base(<<"Bar">>, Foo(lang, "class", u)),
                  Sym("Bar", "interface", lang, u, <<>>), Sym("find", "method", lang, u, <<"Bar">>),
                  Make(lang, a, <<"Foo">>, "Svc"), [Sym("Svc", "class", lang, u, <<>>) EXCEPT !.line = 6, !.supers = <<"Bar">>],
                  [Sym("svc", "field", lang, u, <<"Svc">>) EXCEPT !.line = 7, !.ret = "Foo"]>>
        java == St("import", "", <<>>, ";", Src(0, <<"lib", "Foo">>)) IN
    WithRefs(Scene(syms, PathsOf(syms), u :> <<java, St("import", "", <<>>, "", Src(0, <<"app", "Foo", "run">>))>>),
             RefShapes(lang, u) \cup {Ref("dotted", <<"x">>, "Foo", "imports", lang, u)})

GoScene ==
    LET u == <<"cmd", "main.go">>
        syms == <<Sym("run", "function", "go", <<"svc", "s.go">>, <<>>), Sym("run", "function", "go", <<"svc", "in", "s.go">>, <<>>),
                  Make("go", u, <<>>, "Foo"), Foo("go", "struct", u), Run("go", u, "Foo")>> IN
    [WithRefs(Scene(syms, PathsOf(syms),
                    u :> <<St("import", "", <<>>, "", Src(0, <<"app", "svc">>)),
                           St("block", "foo", <<>>, "", Src(0, <<"app", "internal", "svc">>))>>),
              RefShapes("go", u)) EXCEPT !.disk.goMod = <<"app">>]

PyScene ==
    LET u == <<"app", "main.py">>
        syms == <<Sym("run", "function", "python", <<"app", "svc.py">>, <<>>), Sym("find", "function", "python", <<"app", "util", "__init__.py">>, <<>>),
                  FileSym(<<"app", "svc.py">>, "python"), FileSym(<<"app", "util", "__init__.py">>, "python"),
                  Foo("python", "class", <<"app", "svc.py">>), Run("python", <<"app", "svc.py">>, "Foo")>> IN
    WithRefs(Scene(syms, PathsOf(syms) \cup {u},
                   u :> <<St("from", "", <<Nm("svc", "")>>, "", Src(1, <<>>)),
                          St("from", "", <<Nm("Foo", ""), Nm("run", "foo"), Nm("*", "")>>, "(", Src(1, <<"svc">>)),
                          St("import", "", <<>>, "", Src(0, <<"app", "util">>))>>),
             RefShapes("python", u))

RustScene ==
    LET u == <<"src", "main.rs">>
        syms == <<Sym("run", "function", "rust", <<"src", "foo.rs">>, <<>>), Sym("find", "function", "rust", <<"src", "foo", "bar.rs">>, <<>>),
                  Base(<<"Bar">>, Foo("rust", "struct", <<"src", "foo.rs">>)), Run("rust", <<"src", "util", "mod.rs">>, "Bar"),
                  Make("rust", <<"src", "foo.rs">>, <<"Foo">>, "self")>> IN
    WithRefs(Scene(syms, PathsOf(syms) \cup {u}, <<>>),
             RefShapes("rust", u) \cup RefShapes("rust", <<"src", "foo.rs">>)
             \cup {Ref("scoped", v, n, "calls", "rust", <<"src", "foo", "bar.rs">>) :
                       v \in {<<"crate", "foo">>, <<"super", "super", "util">>, <<"self", "foo">>, <<"bar">>}, n \in {"run", "find"}})

CScene ==
    LET u == <<"src", "main.cpp">>
        decl(v, t, form, recv, n) == [var |-> v, type |-> t, line |-> 3, init |-> [form |-> form, recv |-> recv, name |-> n]]
        syms == <<FileSym(<<"src", "util.h">>, "cpp"), FileSym(<<"inc", "util.h">>, "cpp"), FileSym(<<"lib", "inc", "util.h">>, "c"),
                  Foo("cpp", "class", <<"inc", "util.h">>), Run("cpp", <<"inc", "util.h">>, "Foo"), Sym("main", "function", "cpp", u, <<>>),
                  Make("cpp", <<"inc", "util.h">>, <<"Foo">>, "Foo"), Sym("run", "function", "c", <<"lib", "r.c">>, <<>>)>> IN
    [WithRefs(Scene(syms, PathsOf(syms), u :> <<St("include", "util", <<>>, "", Src(0, <<"util.h">>))>>),
              RefShapes("cpp", u) \cup {[Ref("path", <<"inc">>, "util.h", "imports", "cpp", u) EXCEPT !.dots = 2]})
         EXCEPT !.disk.compileDBs = <<[state |-> "absent", entries |-> <<>>],
                                      [state |-> "ok", entries |-> <<[dir |-> <<>>, includes |-> <<[abs |-> FALSE, dir |-> <<"inc">>], [abs |-> TRUE, dir |-> <<"..">>]>>]>>]>>,
                !.decls[u] = <<decl("foo", "auto", "scoped", <<"Foo">>, "make"), decl("svc", "auto", "new", <<>>, "Foo")>>,
                !.headers[u] = <<decl("svc", "Bar", "none", <<>>, "")>>]

PhpLuaRazor(lang, ext) ==
    LET u == <<"app", "main" \o ext>>
        syms == <<FileSym(<<"app", "util" \o ext>>, lang), FileSym(<<"app", "inc", "util" \o ext>>, lang),
                  [Foo(lang, "class", <<"app", "util" \o ext>>) EXCEPT !.pkg = <<"x">>], Run(lang, <<"app", "util" \o ext>>, "Foo"),
                  Make(lang, <<"app", "util" \o ext>>, <<"Foo">>, "self"), Sym("find", "method", "csharp", <<"app", "f.cs">>, <<"UserService">>),
                  Sym("find", "method", lang, <<"app", "inc", "util" \o ext>>, <<"UserService">>)>> IN
    [WithRefs(Scene(syms, PathsOf(syms) \cup {u}, u :> <<St("use", "foo", <<>>, "", Src(0, <<"x", "Foo">>))>>),
              RefShapes(lang, u) \cup {Ref("dotted", <<"userService">>, "find", k, lang, u) : k \in Kinds}
              \cup {Ref("dotted", <<"app">>, "util", "imports", lang, u)})
         EXCEPT !.usings = {[path |-> <<"app">>, names |-> {<<"x">>}]},
                !.frameworks = <<[claims |-> {"*"}, answers |-> <<[name |-> "Run", to |-> 4, conf |-> 80], [name |-> "*", to |-> 6, conf |-> 95]>>]>>]

ScriptScene ==
    LET u == <<"src", "main.ts">>
        syms == <<Sym("run", "function", "ts", <<"packages", "svc", "index.ts">>, <<>>), Sym("find", "function", "js", <<"src", "util.js">>, <<>>),
                  FileSym(<<"src", "util.js">>, "js"), Sym("Foo", "component", "ts", <<"ui", "Foo.tsx">>, <<>>),
                  Sym("x", "function", "ts", <<"ui", "Foo.tsx">>, <<>>)>> IN
    [WithRefs(Scene(syms, PathsOf(syms) \cup {u},
                    u :> <<St("import", "", <<Nm("run", "")>>, "", Src(0, <<"svc">>)), St("import", "Foo", <<>>, "", Src(0, <<"@ui", "Foo">>)),
                           St("require", "util", <<>>, "", Src(0, <<"@", "util">>)), St("import", "", <<>>, "foo", Src(0, <<"fs">>)),
                           St("import", "x", <<>>, "", Src(0, <<"react">>))>>),
              RefShapes("ts", u))
         EXCEPT !.disk = [PlainDisk EXCEPT
             !.tsconfig = [NoConfig EXCEPT !.state = "broken"],
             !.jsconfig = [state |-> "ok", paths |-> <<[prefix |-> <<"@ui", "x">>, wildcard |-> FALSE, targets |-> <<>>],
                                                     [prefix |-> <<"@ui">>, wildcard |-> TRUE, targets |-> << <<"..", "z">>, <<"ui">> >>]>>],
             !.npmGlobs = << <<"packages", "*">> >>, !.dirs = << <<"packages", "svc">>, <<"packages", ".git">> >>,
             !.packages = {[dir |-> <<"packages", "svc">>, name |-> <<"svc">>]}]]

(* An import statement has its own node, named as the module it names.     *)
WithImports(s) ==
    LET imports == {q \in s.refs : q.kind = "imports"}
        plain == SetToSeq({q.name : q \in {q \in imports : q.form = "plain"}})
        by == CHOOSE q \in s.refs : TRUE IN
    {[s EXCEPT !.refs = s.refs \ imports],
     [s EXCEPT !.refs = imports, !.modules = {Append(q.recv, q.name) : q \in imports},
               !.symbols = @ \o [k \in DOMAIN plain |-> Sym(plain[k], "import", by.lang, by.path, <<>>)]]}

LanguageScenes ==
    UNION {WithImports(s) : s \in {JvmScene("java", ".java"), JvmScene("kotlin", ".kt"), GoScene, PyScene, RustScene, CScene, ScriptScene,
     PhpLuaRazor("php", ".php"), PhpLuaRazor("lua", ".lua"), PhpLuaRazor("razor", ".razor"), PhpLuaRazor("csharp", ".cs")}}
SceneWanted(s) == s.refs

-----------------------------------------------------------------------------
(* Projects of the synthesis: the nodes, and edges as <<source, target,    *)
(* kind, argument>>.                                                       *)
File(dir, name, ext) == [dir |-> dir, name |-> name, ext |-> ext, generated |-> FALSE, auto |-> ""]
Nd(kind, name, lang, file, line, end) ==
    [kind |-> kind, name |-> name, stem |-> name, lang |-> lang, file |-> file, line |-> line, end |-> end,
     owner |-> <<>>, tags |-> {}]
Meth(owner, name, lang, file, line) == [Nd("method", name, lang, file, line, line + 1) EXCEPT !.owner = <<owner>>]
Tagged(node, tag) == [node EXCEPT !.tags = {tag}]
Say(t, x, y, line) == [t |-> t, x |-> x, y |-> y, line |-> line]
Project(nodes, files, text, links) ==
    [nodes |-> nodes, files |-> files, text |-> text,
     links |-> [k \in DOMAIN links |-> [source |-> links[k][1], target |-> links[k][2], kind |-> links[k][3],
                                        arg |-> IF Len(links[k]) = 4 THEN links[k][4] ELSE "", by |-> ""]]]

GoFiles == <<File("p", "a", "go"), File("p", "b", "go"), File("q", "c", "go")>>
GoProject(at, kinds) ==    \* where the methods m, n of S, m of T and the interface I are
    Project(<<Nd("struct", "S", "go", 1, 1, 2), Nd("struct", "T", "go", 2, 1, 2), Nd(kinds, "I", "go", at[1], 3, 6),
              Meth("S", "m", "go", at[2], 7), Meth("S", "n", "go", at[3], 9), Meth("T", "m", "go", at[4], 11),
              Meth("I", "m", "go", at[1], 4)>>,
            GoFiles, <<<<Say("route", "m", "", 1)>>, <<Say("handlers", "", "", 11), Say("route", "m", "", 1)>>, <<>>>>,
            <<<<3, 7, "contains">>>> \o (IF at[2] = 1 THEN <<<<1, 4, "contains">>>> ELSE <<>>)
                \o (IF at[3] = 1 THEN <<<<1, 5, "contains">>>> ELSE <<>>))
GoProjects == {GoProject(at, k) : at \in [1 .. 4 -> 1 .. 3], k \in {"interface", "struct"}}

GrpcProject(name, generated) ==
    Project(<<Tagged(Nd("struct", "UnimplementedXServer", "go", 1, 1, 2), "stub"), Meth("UnimplementedXServer", "Get", "go", 1, 3),
              Tagged(Meth("UnimplementedXServer", "mustEmbed", "go", 1, 5), "marker"),
              Nd("struct", "X", "go", 2, 1, 2), Meth("X", name, "go", 2, 3)>>,
            <<[File("p", "x", "go") EXCEPT !.generated = generated], File("p", "y", "go")>>, <<<<>>, <<>>>>,
            <<<<1, 2, "contains">>, <<1, 3, "contains">>, <<4, 5, "contains">>>>)

FieldProject(field, other, arg) ==
    Project(<<Nd("class", "C", "typescript", 1, 1, 20), Nd("method", "onUpdate", "typescript", 1, 2, 3),
              Nd("method", "trigger", "typescript", 1, 4, 6), Nd("method", "render", "typescript", 1, 7, 8),
              Nd("function", "main", "typescript", 2, 1, 9)>>,
            <<File("s", "c", "ts"), File("s", "d", "ts")>>,
            <<<<Say("add", field, "", 2), Say("loop", other, "", 4), Say("append", field, "", 2), Say("each", other, "", 5),
                Say("setState", "this", "", 5), Say("emit", field, "", 5)>>,
              <<Say("on", other, arg, 3), Say("tag", "C", "", 4), Say("tag", "main", "", 5)>>>>,
            <<<<5, 2, "calls", arg>>, <<1, 2, "contains">>, <<1, 3, "contains">>, <<1, 4, "contains">>>>)
FieldProjects == {FieldProject(f, g, a) : f, g \in {"x", "y"}, a \in {"render", "main", "other"}}

BaseProject(lang, ext, kind, edge) ==
    Project(<<Nd(kind, "B", lang, 1, 1, 9), Meth("B", "m", lang, 1, 2), Meth("B", "m", lang, 1, 4), Nd("class", "D", lang, 2, 1, 9),
              Meth("D", "m", lang, 2, 2), Meth("D", "build", lang, 2, 4)>>,
            <<File("p", "b", ext), File("p", "d", ext)>>, <<<<>>, <<Say("setState", "", "", 2)>>>>,
            <<<<1, 2, "contains">>, <<1, 3, "contains">>, <<4, 5, "contains">>, <<4, 6, "contains">>, <<4, 1, edge>>>>)
BaseProjects == {BaseProject(l, x, k, e) : l \in {"java", "cpp", "dart"}, x \in {"dart", "java"}, k \in {"class", "interface"},
                                          e \in {"extends", "implements"}}

VueProject(x, y, dir, key) ==
    Project(<<Nd("component", "Page", "vue", 1, 1, 30), Nd("component", "Button", "vue", 2, 1, 9), Nd("function", "save", "vue", 1, 4, 6),
              Nd("function", "useBar", "typescript", 3, 1, 9), Nd("function", "close", "typescript", 3, 3, 4)>>,
            <<File("pages", "Page", "vue"), [File(dir, "Button", "vue") EXCEPT !.auto = "BaseButton"], File("s", "bar", "ts")>>,
            <<<<Say("kebab", x, "", 1), Say("pascal", x, "", 2), Say("handler", y, "", 3),
                Say("destructured", "shut", <<key, "useBar">>, 5)>>, <<>>, <<>>>>, <<>>)
VueProjects == {VueProject(x, y, "components/base", k) : x \in {"Button", "BaseButton", "Other"}, y \in {"save", "shut", "none"},
                                                        k \in {"close", "open"}}

NativeProject(lang, ext, handler, inside) ==
    Project(<<Nd("method", "send", lang, 1, 2, 4), Nd("function", "onIt", "typescript", 2, 2, 4), Nd("variable", "sub", "typescript", 2, 6, 8),
              [Nd("method", "scan:", "objc", 1, 6, 8) EXCEPT !.stem = "scan"], Nd("method", "scan", "kotlin", 3, 2, 4),
              Tagged(Nd("method", "Mod.read", "swift", 1, 12, 12), "expo"), Tagged(Nd("method", "Mod.read", "kotlin", 3, 12, 12), "expo"),
              Tagged(Nd("component", "Map", "typescript", 2, 20, 20), "fabric"), Nd("class", "MapView", "objc", 1, 14, 20),
              Tagged([Nd("class", "Plat", "kotlin", 3, 14, 20) EXCEPT !.owner = <<"k">>], "actual"),
              [Nd("interface", "Plat", "kotlin", 4, 1, 9) EXCEPT !.owner = <<"k">>]>>,
            <<File("ios", "mod", ext), File("js", "app", "ts"), File("android", "mod", "kt"), File("common", "mod", "kt")>>,
            <<<<Say("send", "ev", "", 3), Say("emit", "ev", "", 3)>>,
              <<Say("on", "ev", handler, inside)>>, <<Say("emit", "ev", "", 3)>>, <<>>>>,
            <<<<2, 4, "calls">>>>)
NativeProjects == {NativeProject(l, x, h, i) : l \in {"objc", "swift"}, x \in {"m", "swift", "java"}, h \in {"onIt", "function"}, i \in {3, 7, 11}}

PairProject(javas, page, ext) ==
    Project(<<Meth("Mapper", "get", "java", 1, 2), Meth(javas, "get", "java", 1, 5), Meth("Mapper", "get", "xml", 2, 2),
              Nd("file", "f.dfm", "pascal", 3, 1, 9), Nd("file", "f.pas", "pascal", 4, 1, 9),
              Nd("component", "page", "svelte", 5, 1, 9), Nd("function", "load", "typescript", 6, 1, 3)>>,
            <<File("p", "m", "java"), File("p", "m", "xml"), File("p", "f", "dfm"), File("p", "f", "pas"),
              File("r", page, "svelte"), File("r", "+page", ext)>>,
            <<<<>>, <<>>, <<>>, <<>>, <<>>, <<>>>>, <<>>)
PairProjects == {PairProject(j, p, x) : j \in {"Mapper", "Other"}, p \in {"+page", "page"}, x \in {"server.ts", "js", "json"}}

SynthesisProjects ==
    GoProjects \cup {GrpcProject(n, g) : n \in {"Get", "Put"}, g \in BOOLEAN} \cup FieldProjects \cup BaseProjects
        \cup VueProjects \cup NativeProjects \cup PairProjects

-----------------------------------------------------------------------------
(* Homes: what a user's configuration files may hold before a run.         *)
NoKeys == [x \in {} |-> x]
J(doc) == [exists |-> TRUE, ok |-> TRUE, doc |-> doc, lines |-> <<>>]
T(lines) == [exists |-> TRUE, ok |-> FALSE, doc |-> NoKeys, lines |-> lines]
NoFile == [exists |-> FALSE, ok |-> FALSE, doc |-> NoKeys, lines |-> <<>>]
HomeFiles ==
    {"~/.claude.json", "./.mcp.json", "./.claude.json", "~/.claude/settings.json", "./.claude/settings.json", "~/.claude/CLAUDE.md",
     "./.claude/CLAUDE.md", "~/.cursor/mcp.json", "./.cursor/mcp.json", "./.cursor/rules/codegraph.mdc", "~/.codex/config.toml",
     "~/.codex/AGENTS.md", "~/.config/opencode/opencode.jsonc", "~/.config/opencode/opencode.json", "~/.config/opencode/AGENTS.md",
     "./opencode.jsonc", "./opencode.json", "./AGENTS.md", "~/.hermes/config.yaml", "~/.gemini/settings.json", "./.gemini/settings.json",
     "~/.gemini/GEMINI.md", "./.gemini/GEMINI.md", "~/.gemini/config/mcp_config.json", "~/.gemini/antigravity/mcp_config.json",
     "~/.kiro/settings/mcp.json", "./.kiro/settings/mcp.json", "~/.kiro/steering/codegraph.md", "./.kiro/steering/codegraph.md",
     "./.git/hooks/post-commit", "./.git/hooks/post-merge"}
Home(files, dirs) ==
    [files |-> [f \in HomeFiles |-> IF f \in DOMAIN files THEN files[f] ELSE NoFile], dirs |-> dirs, backups |-> [f \in HomeFiles |-> NoFile]]

OwnServer == J([mcpServers |-> [mine |-> "own"], theme |-> "own"])
Stale == J([mcpServers |-> [mine |-> "own", codegraph |-> "older"]])
OnlyOurs == J([mcpServers |-> [codegraph |-> "older"]])
Broken == T(<<"{">>)
Sectioned == T(<<"own 1", "start", "usage", "end", "own 2">>)
OnlySection == T(<<"start", "usage", "end">>)
UnclosedSection == T(<<"end", "own 1", "start">>)

Settings(allow, group) ==
    J([permissions |-> [allow |-> allow, deny |-> <<"Web">>], hooks |-> [Stop |-> <<group, <<"test">>>>, Start |-> <<<<"codegraph mark-dirty">>>>]])
ClaudeHome(mcp, local, settings, notes) ==
    Home(("~/.claude.json" :> mcp) @@ ("./.mcp.json" :> local) @@ ("./.claude.json" :> mcp) @@ ("~/.claude/settings.json" :> settings)
           @@ ("./.claude/settings.json" :> settings) @@ ("~/.claude/CLAUDE.md" :> notes) @@ ("./.claude/CLAUDE.md" :> notes)
           @@ ("./.git/hooks/post-commit" :> T(<<"#!/bin/sh", "own 1", "begin", "codegraph sync", "end", "own 2">>)),
         {"~/.claude", "./.claude", "./.git"})
ClaudeHomes ==
    {ClaudeHome(OwnServer, Broken, Settings(<<"Bash", "mcp__codegraph__old">>, <<"lint", "codegraph sync-if-dirty">>), Sectioned),
     ClaudeHome(OnlyOurs, Stale, J([permissions |-> [allow |-> <<"mcp__codegraph__explore">>]]), OnlySection),
     ClaudeHome(Broken, NoFile, Broken, UnclosedSection)}

JsonHome(mcp, notes, legacy, opencode, dirs) ==
    Home(("~/.cursor/mcp.json" :> mcp) @@ ("./.cursor/mcp.json" :> mcp) @@ ("./.cursor/rules/codegraph.mdc" :> notes)
           @@ ("~/.gemini/settings.json" :> mcp) @@ ("./.gemini/settings.json" :> mcp) @@ ("./.gemini/GEMINI.md" :> notes)
           @@ ("~/.gemini/antigravity/mcp_config.json" :> legacy) @@ ("~/.gemini/config/mcp_config.json" :> IF dirs = {} THEN mcp ELSE NoFile)
           @@ ("~/.kiro/settings/mcp.json" :> mcp) @@ ("./.kiro/steering/codegraph.md" :> notes)
           @@ ("~/.config/opencode/opencode.json" :> opencode) @@ ("./opencode.jsonc" :> opencode) @@ ("./AGENTS.md" :> notes),
         dirs \cup {"~/.cursor", "./.cursor", "~/.gemini", "./.gemini", "~/.gemini/antigravity", "~/.kiro", "./.kiro", "~/.config/opencode"})
JsonHomes ==
    {JsonHome(OwnServer, Sectioned, Stale, J([mcp |-> [mine |-> "own"], model |-> "own"]), {}),
     JsonHome(Stale, T(<<"front matter", "start", "usage", "end">>), OnlyOurs, J([mcp |-> [codegraph |-> "older"]]), {"~/.gemini/config/.migrated"}),
     JsonHome(Broken, T(<<"front matter">>), OwnServer, NoFile, {})}

TextHome(toml, yaml, notes) ==
    Home(("~/.codex/config.toml" :> toml) @@ ("~/.codex/AGENTS.md" :> notes) @@ ("~/.hermes/config.yaml" :> yaml), {"~/.codex", "~/.hermes"})
TextHomes ==
    {TextHome(T(<<"top = own", "[model]", "name = own", "[mcp_servers.codegraph]", "command = old", "[profile]", "own = own">>),
              T(<<<<0, "model: own">>, <<0, "mcp_servers:">>, <<2, "codegraph:">>, <<4, "command: old">>, <<2, "mine:">>, <<4, "own">>,
                  <<0, "platform_toolsets:">>, <<2, "cli:">>, <<2, "- web">>>>), Sectioned),
     TextHome(T(<<"[[hook]]", "run = own", "[model]", "name = own">>),
              T(<<<<0, "platform_toolsets:">>, <<2, "mine:">>, <<4, "- web">>, <<0, "display:">>, <<2, "own">>,
                  <<0, "mcp_servers:">>, <<2, "mine:">>, <<4, "own">>>>), OnlySection),
     TextHome(T(<<"[model]", "name = own", "[mcp_servers.codegraph]", "command = old", "[[hook]]", "run = own">>),
              T(<<<<0, "display:">>, <<2, "own">>, <<0, "mcp_servers:">>, <<2, "mine:">>, <<4, "own">>, <<0, "model: own">>>>), UnclosedSection)}

Homes == {Home(NoKeys, {}), Home(NoKeys, {"./.git"})} \cup ClaudeHomes \cup JsonHomes \cup TextHomes
-----------------------------------------------------------------------------
(* Syntax trees: every kind of declaration around every kind of body.      *)
Tree(t, name, form, kids) == [t |-> t, name |-> name, form |-> form, kids |-> kids]
Leaf(t, name) == Tree(t, name, "plain", <<>>)
Body(kids) == Tree("body", "", "", kids)
CallF == Leaf("call", "f")
InPair(x) == Tree("pair", "k", "", <<x>>)
Anonymous == Tree("new", "C", "plain", <<Tree("classBody", "", "", <<Tree("method", "m", "", <<Body(<<CallF>>)>>)>>)>>)
Arrow(kids) == Tree("arrow", "", "", <<Body(kids)>>)
Object(kids) == Tree("object", "", "", kids)
Fillers ==
    {CallF, Anonymous, Tree("call", "f", "chain", <<CallF>>), Arrow(<<CallF, Object(<<InPair(Arrow(<<CallF>>))>>)>>),
     Object(<<Tree("method", "m", "", <<Body(<<CallF>>)>>), InPair(CallF)>>),
     Tree("call", "create", "plain", <<Arrow(<<CallF, Object(<<InPair(Arrow(<<CallF>>))>>)>>)>>)}
Declarations(x) ==
    {Tree("function", "g", "", <<Body(<<x>>)>>), Tree("function", "g", "", <<Tree("params", "", "", <<x>>), Body(<<CallF>>)>>), Arrow(<<x>>),
     Tree("method", "m", "", <<Body(<<x>>)>>), Tree("method", "m", "receiver", <<Body(<<x>>)>>),
     Tree("class", "A", "", <<Leaf("extends", "P"), Leaf("implements", "I"), Body(<<Tree("fieldDef", "v", "", <<x>>), Tree("method", "m", "", <<Body(<<x>>)>>)>>)>>),
     Tree("class", "A", "", <<Tree("method", "m", "", <<Leaf("decorator", "d"), Body(<<x>>)>>)>>),
     Tree("struct", "R", "", <<Body(<<x>>)>>), Tree("interface", "A", "", <<Body(<<Tree("signature", "s", "", <<>>), x>>)>>),
     Tree("enum", "E", "", <<Body(<<Leaf("member", "e"), x>>)>>), Tree("alias", "T", "struct", <<Body(<<x>>)>>),
     Tree("alias", "T", "plain", <<Body(<<Leaf("signature", "q")>>), Leaf("typeId", "Q")>>),
     Tree("variable", "", "const", <<Tree("declarator", "c", "", <<x>>)>>),
     Tree("export", "", "", <<Tree("variable", "", "const", <<Tree("declarator", "c", "", <<x>>)>>)>>),
     Tree("import", "mod", "from", <<Leaf("binding", "b")>>), Tree("impl", "R", "for", <<x>>)}
AllDeclarations == UNION {Declarations(x) : x \in Fillers}
Root(kids) == Tree("root", "", "", kids)
SourceTrees ==
    {Root(<<d>>) : d \in AllDeclarations} \cup {Root(<<Tree("class", "A", "", <<Body(<<d>>)>>)>>) : d \in AllDeclarations}
    \cup {Root(<<Tree("function", "g", "", <<Body(<<d>>)>>), Leaf("call", "z")>>) : d \in AllDeclarations}
    \cup {Root(<<Leaf("package", "p"), Tree("struct", "R", "", <<Body(<<>>)>>), d, Leaf("call", "z")>>) : d \in AllDeclarations}
PascalParts(x) ==
    {Tree("function", "m", "", <<Body(<<x>>)>>), Tree("function", "free", "", <<Body(<<x>>)>>), Tree("variable", "", "const", <<Leaf("declarator", "k")>>), x,
     Tree("class", "A", "", <<Leaf("extends", "P"), Body(<<Tree("function", "m", "", <<>>), Leaf("fieldDef", "v")>>)>>), Leaf("import", "u"),
     Tree("enum", "E", "", <<Tree("values", "", "", <<Leaf("member", "e")>>)>>), Leaf("alias", "T")}
AllPascal == UNION {PascalParts(x) : x \in {CallF, Tree("call", "f", "plain", <<Body(<<CallF>>)>>), Tree("if", "", "", <<CallF>>)}}
PascalTrees ==
    {Root(<<Tree("unit", "U", "", <<d>>)>>) : d \in AllPascal}
    \cup {Root(<<Tree("unit", "U", "", <<p[1], p[2]>>)>>) : p \in {p \in AllPascal \X AllPascal : p[2].t = "class" => p[1].t # "function"}}
TreesOf == [l \in {"ts", "py", "go", "java", "rust", "cs", "php"} |-> SourceTrees] @@ ("pascal" :> PascalTrees)
=============================================================================
