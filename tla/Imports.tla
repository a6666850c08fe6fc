------------------------------- MODULE Imports -------------------------------
(***************************************************************************)
(* Resolving a reference through the imports of its file                   *)
(* (resolution/import-resolver.ts, path-aliases.ts, workspace-packages.ts, *)
(* go-module.ts).  Paths are sequences of names; <<>> is no file.          *)
(***************************************************************************)
EXTENDS NameMatch

Otherwise(p, q) == IF p # <<>> THEN p ELSE q
FirstPath(paths) == LET there == SelectSeq(paths, LAMBDA p : p # <<>>) IN IF there = <<>> THEN <<>> ELSE there[1]

-----------------------------------------------------------------------------
(* What the project's configuration files say (scene.disk).                *)
LoadProjectAliases ==
    LET usable == SelectSeq(<<scene.disk.tsconfig, scene.disk.jsconfig>>, LAMBDA c : c.state = "ok")
        longer(p, q) == \/ Len(p.prefix) > Len(q.prefix)
                        \/ Len(p.prefix) = Len(q.prefix) /\ ~p.wildcard /\ q.wildcard IN
    IF usable = <<>> THEN <<>>
    ELSE SortSeq(SelectSeq(usable[1].paths, LAMBDA p : p.targets # <<>>), longer)

(* The first pattern that fits decides, whether its targets exist or not.  *)
Initial(s) == SubSeq(s, 1, Lesser(1, Len(s)))
ApplyAliases(segs) ==
    LET fits(p) == IF p.wildcard THEN IsStrictPrefix(p.prefix, segs) ELSE p.prefix = segs
        targets(p) == MapSeq(LAMBDA t : IF p.wildcard THEN t \o SubSeq(segs, Len(p.prefix) + 1, Len(segs)) ELSE t,
                             SelectSeq(p.targets, LAMBDA t : Head(t) # "..")) IN
    Each(Initial(SelectSeq(LoadProjectAliases, fits)), targets)

(* Globs of package.json, then of pnpm-workspace.yaml: "base/*" is every   *)
(* directory of the base; the first directory with a name keeps it.        *)
ReadWorkspaceGlobs == scene.disk.npmGlobs \o scene.disk.pnpmGlobs
ExpandWorkspaceGlob(g) ==
    IF Last(g) # "*" THEN <<g>>
    ELSE SelectSeq(scene.disk.dirs,
             LAMBDA d : Len(d) = Len(g) /\ Front(d) = Front(g) /\ Last(d) \notin {".git", "node_modules"})
ReadPackageName(dir) ==
    LET of == {p \in scene.disk.packages : p.dir = dir} IN
    IF of = {} THEN <<>> ELSE (CHOOSE p \in of : TRUE).name
FirstOfEachName(packages) ==
    {packages[k] : k \in {k \in DOMAIN packages : /\ packages[k].name # <<>>
                                                  /\ \A j \in 1 .. k - 1 : packages[j].name # packages[k].name}}
LoadWorkspacePackages ==
    FirstOfEachName(MapSeq(LAMBDA d : [name |-> ReadPackageName(d), dir |-> d],
                           Each(ReadWorkspaceGlobs, ExpandWorkspaceGlob)))

(* The package with the longest name that begins the source.               *)
InPackage(of, segs) ==
    LET dirs == {p.dir \o SubSeq(segs, Len(p.name) + 1, Len(segs)) :
                     p \in {p \in of : \A q \in of : Len(q.name) <= Len(p.name)}} IN
    IF of = {} THEN <<>> ELSE CHOOSE d \in dirs : TRUE
ResolveWorkspaceImport(segs) == InPackage({p \in LoadWorkspacePackages : IsPrefix(p.name, segs)}, segs)

LoadGoModule == scene.disk.goMod

(* The first compilation database that exists, unless it is broken: its    *)
(* -I and -isystem directories inside the project; else the directories of *)
(* a conventional name or with a header in them.                           *)
CompileDBDirs(db) ==
    SelectSeq(Each(db.entries, LAMBDA e : MapSeq(LAMBDA i : IF i.abs THEN i.dir ELSE e.dir \o i.dir, e.includes)),
              LAMBDA d : d # <<>> /\ Head(d) # "..")
HeuristicDirs ==
    SelectSeq(scene.disk.dirs,
        LAMBDA d : /\ Len(d) = 1
                   /\ \/ d[1] \in {"include", "src", "lib", "api", "inc"}
                      \/ \E f \in scene.disk.headers : DirOf(f) = d)
LoadCppIncludeDirs ==
    LET dbs == SelectSeq(scene.disk.compileDBs, LAMBDA db : db.state # "absent") IN
    IF dbs # <<>> /\ dbs[1].state = "ok" THEN CompileDBDirs(dbs[1]) ELSE HeuristicDirs

-----------------------------------------------------------------------------
(* From a source to a file: extensions in their order, then the exact name.*)
Extensions(lang) ==
    CASE lang = "ts" -> <<".ts", ".tsx", ".d.ts", ".js", ".jsx", "index.ts", "index.tsx", "index.js">>
      [] lang = "js" -> <<".js", ".jsx", ".mjs", ".cjs", "index.js", "index.jsx">>
      [] lang = "tsx" -> <<".tsx", ".ts", ".d.ts", ".js", ".jsx", "index.tsx", "index.ts", "index.js">>
      [] lang = "jsx" -> <<".jsx", ".js", "index.jsx", "index.js">>
      [] lang \in {"svelte", "vue"} -> <<".ts", ".js", "." \o lang, ".tsx", ".jsx", "index.ts", "index.js">>
      [] lang = "python" -> <<".py", "__init__.py">>
      [] lang = "rust" -> <<".rs", "mod.rs">>
      [] lang = "c" -> <<".h", ".c">>
      [] lang = "cpp" -> <<".h", ".hpp", ".hxx", ".cpp", ".cc", ".cxx">>
      [] lang = "go" -> <<".go">> [] lang = "java" -> <<".java">> [] lang = "php" -> <<".php">>
      [] OTHER -> <<>>
IndexFiles == {"index.ts", "index.tsx", "index.js", "index.jsx", "__init__.py", "mod.rs"}
Spelled(path, ext) ==
    IF ext \in IndexFiles THEN Append(path, ext) ELSE Front(path) \o <<Last(path) \o ext>>
FileExists(path) == path \in scene.files
FirstFile(paths) ==
    FirstPath(SelectSeq(paths, FileExists))
TryWithExt(path, lang) ==
    IF path = <<>> THEN <<>>
    ELSE FirstFile(MapSeq(LAMBDA x : Spelled(path, x), Extensions(lang)) \o <<path>>)

Climb(path, n) == SubSeq(path, 1, Len(path) - n)
ResolveRelativeImport(source, path, lang) ==
    IF source.dots - 1 > Len(DirOf(path)) THEN <<>>
    ELSE TryWithExt(Climb(DirOf(path), source.dots - 1) \o source.segs, lang)

FallbackAliases == << <<"@", "src">>, <<"~", "src">>, <<"@src", "src">>, <<"src", "src">>,
                      <<"@app", "app">>, <<"app", "app">> >>
ResolveAliasedImport(segs, lang) ==
    LET falls == SelectSeq(FallbackAliases, LAMBDA a : a[1] = Head(segs) /\ Len(segs) > 1)
        bases == ApplyAliases(segs) \o <<ResolveWorkspaceImport(segs)>>
                 \o MapSeq(LAMBDA a : <<a[2]>> \o Tail(segs), falls) \o <<segs>> IN
    FirstPath(MapSeq(LAMBDA b : TryWithExt(b, lang), bases))

ResolveCppIncludePath(segs, lang) ==
    FirstPath(MapSeq(LAMBDA d : TryWithExt(d \o segs, lang), LoadCppIncludeDirs))

Bundled == [js |-> {"fs", "path", "http"}, python |-> {"os", "sys", "json"}, c |-> {"stdio.h", "vector"}]
WithinModule(segs) == LoadGoModule # <<>> /\ IsPrefix(LoadGoModule, segs)
IsExternalImport(source, lang) ==
    LET segs == source.segs IN
    /\ source.dots = 0 /\ ResolveWorkspaceImport(segs) = <<>>
    /\ CASE lang \in Script ->
               \/ Len(segs) = 1 /\ segs[1] \in Bundled.js
               \/ /\ \A p \in Range(LoadProjectAliases) : ~IsPrefix(p.prefix, segs)
                  /\ ~(Len(segs) > 1 /\ segs[1] \in {"@", "~", "src"})
         [] lang = "python" -> segs[1] \in Bundled.python
         [] lang = "go" -> ~WithinModule(segs) /\ \A i \in 2 .. Len(segs) - 1 : segs[i] # "internal"
         [] lang \in {"c", "cpp"} -> Len(segs) = 1 /\ segs[1] \in Bundled.c
         [] OTHER -> FALSE

(* A dotted or scoped source of more than one name is no path.             *)
ResolveImportPath(source, path, lang) ==
    CASE IsExternalImport(source, lang) -> <<>>
      [] source.dots > 0 -> ResolveRelativeImport(source, path, lang)
      [] lang \notin Slashed /\ Len(source.segs) > 1 -> <<>>
      [] OTHER -> Otherwise(ResolveAliasedImport(source.segs, lang),
                            IF lang \in {"c", "cpp"} THEN ResolveCppIncludePath(source.segs, lang) ELSE <<>>)

-----------------------------------------------------------------------------
(* Exported symbols, through barrels: one set of visited files per search. *)
MaxDepth == 8
InFile(path, Test(_)) == First(Those(LAMBDA s : s.path = path /\ Test(s)))
Direct(path, want) ==
    IF want.default
    THEN LET component == InFile(path, LAMBDA s : s.exported /\ s.kind = "component") IN
         IF component # 0 THEN component
         ELSE InFile(path, LAMBDA s : s.exported /\ s.kind \in {"function", "class"})
    ELSE InFile(path, LAMBDA s : s.exported /\ s.name = IF want.member # "" THEN want.member ELSE want.name)

Renamed(rex) == [default |-> rex.original = "default", name |-> rex.original, member |-> ""]

RECURSIVE FindExportedSymbol(_, _, _, _, _), Chase(_, _, _, _, _, _), OrNext(_, _, _, _, _, _)
FindExportedSymbol(path, want, lang, seen, depth) ==
    LET rexs == ExtractReExports(path, lang)
        target == IF want.default THEN "default" ELSE want.name
        named == SelectSeq(rexs, LAMBDA x : x.kind = "named" /\ x.exported = target)
        wild == SelectSeq(rexs, LAMBDA x : x.kind = "wildcard") IN
    CASE path = <<>> \/ depth > MaxDepth \/ path \in seen -> [at |-> 0, seen |-> seen]
      [] Direct(path, want) # 0 -> [at |-> Direct(path, want), seen |-> seen \cup {path}]
      [] OTHER -> Chase(named \o wild, want, path, lang, seen \cup {path}, depth + 1)
Chase(rexs, want, path, lang, seen, depth) ==
    IF rexs = <<>> THEN [at |-> 0, seen |-> seen]
    ELSE OrNext(FindExportedSymbol(ResolveImportPath(Head(rexs).source, path, lang),
                                   IF Head(rexs).kind = "named" THEN Renamed(Head(rexs)) ELSE want,
                                   lang, seen, depth),
                Tail(rexs), want, path, lang, depth)
OrNext(hit, rexs, want, path, lang, depth) ==
    IF hit.at # 0 THEN hit ELSE Chase(rexs, want, path, lang, hit.seen, depth)

-----------------------------------------------------------------------------
(* The special cases of resolveViaImport.                                  *)
Hit(i, conf) == Match(i, conf, "import")
FirstHit(is, conf) == Hit(First(is), conf)
FileNode(path) == IF path = <<>> THEN 0 ELSE InFile(path, LAMBDA s : s.kind = "file")
(* The local name a mapping must have for the reference.                   *)
Local(r) == CASE r.form = "plain" -> r.name [] r.form = "dotted" -> r.recv[1] [] OTHER -> ""
Mapped(r) == SelectSeq(Mappings(r), LAMBDA m : m.local = Local(r))
Want(r) == Append(r.recv, r.name)

(* import a.b.C: the symbol C of the package, the nearest one if several;  *)
(* on a tie the "expect" declaration of a multi-platform project.          *)
PickClosestJvm(is, r) ==
    Best(is, LAMBDA i : 2 * Shared(Symbols[i].path, r.path) + IF Symbols[i].expect THEN 1 ELSE 0)
ResolveJvmImport(r) ==
    IF r.kind # "imports" \/ r.lang \notin {"java", "kotlin"} \/ r.recv = <<>> \/ r.name = "*" THEN None
    ELSE Hit(PickClosestJvm(Those(LAMBDA s : s.name = r.name /\ s.pkg = r.recv /\ s.owner = <<>>), r), 95)

ResolveInclude(r) ==
    LET sibling == Climb(DirOf(r.path), IF r.dots = 0 THEN 0 ELSE r.dots - 1) \o Want(r)
        file == ResolveImportPath([dots |-> r.dots, segs |-> Want(r)], r.path, r.lang) IN
    Else(Hit(FileNode(sibling), 92), Hit(FileNode(file), 90))

(* The exact path first: a suffix would name another file.                 *)
IsPhpInclude(r) == r.lang = "php" /\ r.kind = "imports" /\ r.form = "path"
ResolvePhpInclude(r) ==
    LET base == Climb(DirOf(r.path), IF r.dots = 0 THEN 0 ELSE r.dots - 1) \o Want(r) IN
    Hit(FileNode(FirstFile(<<base, Spelled(base, ".php")>>)), 90)

(* pkg.Name of a package of this module: exported, in exactly its directory.*)
ResolveGoCrossPackage(r) ==
    LET of == SelectSeq(Mapped(r), LAMBDA m : WithinModule(m.source.segs))
        dir(m) == SubSeq(m.source.segs, Len(LoadGoModule) + 1, Len(m.source.segs)) IN
    IF Len(r.recv) # 1 THEN None
    ELSE FirstHit(Each(of, LAMBDA m : Those(LAMBDA s : /\ s.name = r.name /\ s.lang = "go" /\ s.exported
                                                       /\ DirOf(s.path) = dir(m))), 90)

(* By the file of the imported name, or of a static import's owner.        *)
ResolveJavaImported(r) ==
    LET bare == r.recv = <<>>
        in(file) == Those(LAMBDA s : s.name = r.name /\ s.lang = r.lang /\ EndsWith(s.path, file)) IN
    IF Len(r.recv) > 1 THEN None
    ELSE FirstHit(Each(Mapped(r), LAMBDA m :
             in(JvmFile(m.source.segs, r.lang))
             \o IF bare /\ Len(m.source.segs) > 1 THEN in(JvmFile(Front(m.source.segs), r.lang)) ELSE <<>>), 90)

(* Python modules: m.py or m/__init__.py at the end of some path.          *)
FindPythonModuleFile(segs, except) ==
    LET ending(file) == Those(LAMBDA s : s.kind = "file" /\ s.path # except /\ EndsWith(s.path, file)) IN
    First(ending(Spelled(segs, ".py")) \o ending(Spelled(segs, "__init__.py")))
Submodule(m) == IF m.ns THEN m.source ELSE [m.source EXCEPT !.segs = Append(@, m.local)]
PathAt(i) == IF i = 0 THEN <<>> ELSE Symbols[i].path
PythonFile(source, r) ==
    Otherwise(ResolveImportPath(source, r.path, "python"),
              IF source.dots > 0 THEN <<>> ELSE PathAt(FindPythonModuleFile(source.segs, r.path)))
ResolvePythonMember(r) ==
    LET member == IF Len(r.recv) > 1 THEN r.recv[2] ELSE r.name IN
    IF r.form # "dotted" THEN None
    ELSE FirstHit(Each(Mapped(r), LAMBDA m :
        Those(LAMBDA s : /\ s.path = PythonFile(Submodule(m), r) /\ s.path # r.path /\ s.name = member
                         /\ s.kind \in {"function", "class", "variable", "constant"})), 85)
ResolvePythonAbsolute(r) ==
    IF r.kind # "imports" \/ r.form # "dotted" THEN None
    ELSE Hit(FindPythonModuleFile(Want(r), r.path), 90)

(* import ns from a module: the module's file.                             *)
ModuleOf(m, r) ==
    CASE m.ns \/ m.default -> <<m.source>>
      [] r.lang = "python" -> <<Submodule(m)>>
      [] OTHER -> <<>>
NodeElse(i, j) == IF i # 0 THEN i ELSE j
OtherNode(path, r) == IF path = r.path THEN 0 ELSE FileNode(path)
ModuleNode(src, r) ==
    NodeElse(OtherNode(ResolveImportPath(src, r.path, r.lang), r),
             IF r.lang # "python" \/ src.dots > 0 THEN 0 ELSE FindPythonModuleFile(src.segs, r.path))
ResolveModuleToFile(r) ==
    LET nodes == MapSeq(LAMBDA src : ModuleNode(src, r), Each(Mapped(r), LAMBDA m : ModuleOf(m, r))) IN
    IF r.kind # "imports" \/ r.form # "plain" THEN None
    ELSE FirstHit(SelectSeq(nodes, LAMBDA n : n # 0), 90)

(* Rust: crate::, self:: and super:: climb to a directory; a bare path is  *)
(* tried below the module itself and then below the crate's root.          *)
Roots == {"lib.rs", "main.rs"}
CrateRoots(path) ==
    SelectSeq([n \in 1 .. Len(path) |-> SubSeq(path, 1, Len(path) - n)],
              LAMBDA d : \E f \in Roots : FileExists(Append(d, f)))
SelfModule(path) ==
    IF Last(path) \in Roots \cup {"mod.rs"} THEN DirOf(path)
    ELSE Append(DirOf(path), CHOOSE n \in DOMAIN Words : n \o ".rs" = Last(path))
Named1(segs) == SelectSeq(segs, LAMBDA s : s \notin {"self", "crate", "super"})
ResolveUnder(dir, segs) ==
    LET mods == Named1(segs)
        file(k) == FirstFile(<<Spelled(dir \o SubSeq(mods, 1, k), ".rs"),
                               Spelled(dir \o SubSeq(mods, 1, k), "mod.rs")>>) IN
    IF mods = <<>> \/ \E k \in DOMAIN mods : file(k) = <<>> THEN <<>> ELSE file(Len(mods))
ResolveRustModuleFile(segs, path) ==
    LET underRoot == Each(Initial(CrateRoots(path)), LAMBDA root : ResolveUnder(root, segs))
        supers == Cardinality({n \in DOMAIN segs : \A k \in 1 .. n : segs[k] = "super"})
        own == ResolveUnder(SelfModule(path), segs) IN
    CASE segs[1] = "crate" -> underRoot
      [] segs[1] = "self" -> own
      [] segs[1] = "super" ->
             IF supers > Len(SelfModule(path)) THEN <<>> ELSE ResolveUnder(Climb(SelfModule(path), supers), segs)
      [] OTHER -> Otherwise(own, underRoot)
RustItem(file, r) ==
    IF file \in {<<>>, r.path} THEN None
    ELSE Hit(InFile(file, LAMBDA s : s.name = r.name /\ s.kind \in TypeKinds \cup Callable \cup {"type_alias", "constant"}), 90)
ResolveRustPath(r) ==
    IF r.form # "scoped" THEN None ELSE RustItem(ResolveRustModuleFile(r.recv, r.path), r)

(* Lua: the suffix forms in their order, the nearest file of each.         *)
ResolveLuaRequire(r) ==
    LET forms == MapSeq(LAMBDA x : IF x \in {"init.lua", "init.luau"} THEN Append(Want(r), x) ELSE Spelled(Want(r), x),
                        <<".lua", ".luau", "init.lua", "init.luau">>)
        near(f) == Best(Those(LAMBDA s : s.kind = "file" /\ IsSuffix(f, s.path)),
                        LAMBDA i : Len(LongestCommonPrefix({Symbols[i].path, r.path})))
        hits == SelectSeq(MapSeq(near, forms), LAMBDA i : i # 0 /\ Symbols[i].path # r.path) IN
    IF r.lang \notin {"lua", "luau"} \/ r.kind # "imports" THEN None ELSE FirstHit(hits, 90)

(* Then the mappings of the file, in their order.                          *)
ResolveMapped(r) ==
    LET want(m) == [default |-> m.default, name |-> IF m.default THEN "default" ELSE m.exported,
                    member |-> IF ~m.ns THEN "" ELSE IF Len(r.recv) > 1 THEN "?" ELSE r.name]
        symbol(m) == FindExportedSymbol(ResolveImportPath(m.source, r.path, r.lang), want(m), r.lang, {}, 0).at IN
    FirstHit(SelectSeq(MapSeq(symbol, Mapped(r)), LAMBDA i : i # 0), 90)

ByLanguage(r) ==
    CASE r.lang = "go" -> ResolveGoCrossPackage(r)
      [] r.lang \in {"java", "kotlin"} -> ResolveJavaImported(r)
      [] r.lang = "python" -> Else(ResolvePythonMember(r), Else(ResolvePythonAbsolute(r), ResolveModuleToFile(r)))
      [] r.lang = "rust" -> ResolveRustPath(r)
      [] r.lang \in {"lua", "luau"} -> ResolveLuaRequire(r)
      [] r.lang \in Script -> ResolveModuleToFile(r)
      [] OTHER -> None
ResolveViaImport(r) ==
    CASE r.lang \in {"c", "cpp"} /\ r.kind = "imports" -> ResolveInclude(r)
      [] IsPhpInclude(r) -> ResolvePhpInclude(r)
      [] OTHER -> Else(ByLanguage(r), ResolveMapped(r))
=============================================================================
