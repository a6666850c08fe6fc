------------------------------- MODULE Resolver -------------------------------
(***************************************************************************)
(* Resolution of one reference (resolution/index.ts): the built-in names,  *)
(* the pre-filter by known names, then the strategies, of which the most   *)
(* confident wins; chained calls that no strategy resolves wait for the    *)
(* heritage edges.  An answer of a framework's resolver is given by the    *)
(* scene: [name, to, conf], with the names it claims.                      *)
(***************************************************************************)
EXTENDS Imports

CONSTANTS Scenes, Wanted(_), BuiltIns

VARIABLES
    wanted,        \* the reference
    found,         \* what it was resolved to
    deferred,      \* waits for the conformance pass
    pass           \* "extracted", "resolved", "linked"

resolverVars == <<scene, wanted, found, deferred, pass>>

Known == {Symbols[i].name : i \in DOMAIN Symbols}

-----------------------------------------------------------------------------
(* isBuiltInOrExternal: names of the languages and their libraries; a      *)
(* method of a Python built-in, or a C library function, is external only  *)
(* if the project has no such name.                                        *)
JsBuiltIn(r) ==
    \/ r.form = "plain" /\ r.name \in BuiltIns.js
    \/ r.form = "dotted" /\ r.recv[1] \in {"console", "Math", "JSON"}
PythonBuiltIn(r) ==
    \/ r.form = "plain" /\ r.name \in BuiltIns.python
    \/ r.form = "dotted" /\ r.recv[1] \in BuiltIns.pythonTypes
    \/ r.form = "dotted" /\ Len(r.recv) = 1 /\ r.name \in BuiltIns.pythonMethods /\ Cap[r.recv[1]] \notin Known
    \/ r.form = "plain" /\ r.name \in BuiltIns.pythonMethods \ Known
GoBuiltIn(r) ==
    \/ r.form = "dotted" /\ r.recv[1] \in BuiltIns.goPackages
    \/ r.form = "plain" /\ r.name \in BuiltIns.go
CBuiltIn(r) ==
    \/ r.form = "scoped" /\ r.recv[1] = "std"
    \/ r.form = "plain" /\ r.name \in BuiltIns.c \ Known
IsBuiltInOrExternal(r) ==
    CASE r.lang \in Script -> JsBuiltIn(r)
      [] r.lang = "python" -> PythonBuiltIn(r)
      [] r.lang = "go" -> GoBuiltIn(r)
      [] r.lang \in {"c", "cpp"} -> CBuiltIn(r)
      [] OTHER -> FALSE

(* hasAnyPossibleMatch: a known receiver, also capitalised, or member.     *)
Head1(r) == IF r.form = "chain" THEN r.inner.recv ELSE r.recv
ReceiverKnown(r) ==
    /\ Head1(r) # <<>> /\ r.form # "path"
    /\ Head1(r)[1] \in Known \/ (r.form # "scoped" /\ Cap[Head1(r)[1]] \in Known)
ReceiverOrMemberKnown(r) == Want(r) \in scene.modules \/ ReceiverKnown(r) \/ (r.name \in Known /\ Len(r.recv) <= 1)
HasAnyPossibleMatch(r) == Want(r) \in scene.modules \/ ReceiverKnown(r) \/ r.name \in Known

MatchesAnyImport(r) ==
    \E m \in Range(Mappings(r)) :
        \/ m.local = Local(r)
        \/ r.form = "chain" /\ r.inner.form = "dotted" /\ m.local = r.inner.recv[1]
Claimed(r) == \E f \in DOMAIN scene.frameworks : r.name \in scene.frameworks[f].claims

(* A Razor component: exactly one symbol of a namespace that the file or a *)
(* _Imports.razor above it uses.                                           *)
GetRazorUsings(path) == UNION {u.names : u \in {u \in scene.usings : u.path = path \/ IsPrefix(u.path, DirOf(path))}}
ResolveRazorUsing(r) ==
    LET is == Those(LAMBDA s : s.name = r.name /\ s.pkg \in GetRazorUsings(r.path)) IN
    IF r.lang # "razor" \/ r.form # "plain" \/ Len(is) # 1 THEN None ELSE Hit(is[1], 90)

-----------------------------------------------------------------------------
(* Gates, the candidates in their order, and the choice.                   *)
GateLanguage(m, r) ==
    CASE m = None -> None
      [] r.kind = "references" /\ ~SameFamily(Symbols[m.to].lang, r.lang) -> None
      [] r.kind = "imports" /\ CrossesFamily(Symbols[m.to].lang, r.lang) -> None
      [] OTHER -> m
GateFrameworkLanguage(m, r) ==
    IF m # None /\ r.kind \in {"references", "imports"} /\ CrossesFamily(Symbols[m.to].lang, r.lang) THEN None ELSE m

FrameworkMatches(r) ==
    SelectSeq(Each(scene.frameworks,
        LAMBDA f : LET of == SelectSeq(f.answers, LAMBDA a : a.name = r.name) IN
                   IF of = <<>> THEN <<>>
                   ELSE <<GateFrameworkLanguage(Match(of[1].to, of[1].conf, "framework"), r)>>),
        LAMBDA m : m # None)
Surest(ms) == CHOOSE m \in Range(ms) :
    LET first(x) == CHOOSE k \in DOMAIN ms : ms[k] = x /\ \A j \in 1 .. k - 1 : ms[j] # x IN
    \A n \in Range(ms) : n.conf < m.conf \/ (n.conf = m.conf /\ first(m) <= first(n))

(* A framework's match of 90 settles it, then an import's.                 *)
Choose(fw, import, name) ==
    LET sure == SelectSeq(fw, LAMBDA m : m.conf >= 90)
        all == SelectSeq(fw \o <<import, name>>, LAMBDA m : m # None) IN
    CASE sure # <<>> -> sure[1]
      [] import.conf >= 90 -> import
      [] all = <<>> -> None
      [] OTHER -> Surest(all)
ByStrategy(r) ==
    Choose(FrameworkMatches(r), GateLanguage(ResolveViaImport(r), r),
           IF IsPhpInclude(r) THEN None ELSE GateLanguage(MatchReference(r), r))

Passes(r) == ~IsBuiltInOrExternal(r) /\ (HasAnyPossibleMatch(r) \/ MatchesAnyImport(r) \/ Claimed(r))
ResolveOne(r) ==
    IF ~Passes(r) THEN None
    ELSE Else(ResolveJvmImport(r), Else(ResolveRazorUsing(r), ByStrategy(r)))

ChainLanguages == {"java", "kotlin", "csharp", "swift", "rust", "go", "scala", "dart"}
Defers(r, m) == /\ Passes(r) /\ m = None
                /\ r.kind = "calls" /\ r.lang \in ChainLanguages /\ r.form = "chain"

(* createEdges: what is extended is implemented if it is an interface, and *)
(* what is called is instantiated if it is a class.                        *)
Interfaces == {"interface", "protocol"}
EdgeKind(r, to) ==
    CASE r.kind = "extends" /\ Symbols[to].kind \in Interfaces /\ r.fromKind \notin Interfaces -> "implements"
      [] r.kind = "calls" /\ Symbols[to].kind \in {"class", "struct"} -> "instantiates"
      [] OTHER -> r.kind
Edge(r, m) == IF m = None THEN <<>> ELSE <<[to |-> m.to, kind |-> EdgeKind(r, m.to), conf |-> m.conf, by |-> m.by]>>

-----------------------------------------------------------------------------
InitResolver ==
    /\ scene \in Scenes /\ wanted \in Wanted(scene)
    /\ found = <<>> /\ deferred = FALSE /\ pass = "extracted"

(* resolveAll, before any heritage edge is in.                             *)
Settle(r, m) == found' = Edge(r, m) /\ deferred' = Defers(r, m)
ResolveAll ==
    /\ pass = "extracted" /\ pass' = "resolved"
    /\ Settle(wanted, ResolveOne(wanted))
    /\ UNCHANGED <<scene, wanted>>

(* The extends and implements references have become edges.                *)
LinkHeritage ==
    /\ pass = "resolved" /\ pass' = "linked" /\ scene' = [scene EXCEPT !.linked = TRUE]
    /\ UNCHANGED <<wanted, found, deferred>>

(* resolveChainedCallsViaConformance.                                      *)
ResolveDeferred ==
    LET chain == IF wanted.lang = "rust" THEN MatchScopedCallChain(wanted) ELSE MatchDottedCallChain(wanted) IN
    /\ pass = "linked" /\ deferred /\ deferred' = FALSE
    /\ found' = Edge(wanted, GateLanguage(chain, wanted))
    /\ UNCHANGED <<scene, wanted, pass>>

StepResolver == ResolveAll \/ LinkHeritage \/ ResolveDeferred

-----------------------------------------------------------------------------
(* The pre-filter drops no reference that a strategy, but for the fuzzy    *)
(* one, would resolve: it knows every name the strategies ask for.         *)
NothingDropped ==
    pass = "extracted" /\ ~IsBuiltInOrExternal(wanted) /\ ~Passes(wanted)
        => ByName(wanted) = None /\ ResolveViaImport(wanted) = None /\ ResolveJvmImport(wanted) = None

(* A bare name never becomes a symbol of another language while the        *)
(* reference's own language has one that bears the name.                   *)
NativesWin ==
    found # <<>> /\ wanted.form = "plain" /\ found[1].by = "exact-match"
        => \/ Symbols[found[1].to].lang = wanted.lang
           \/ ~\E i \in Range(LanguageGate(Named(wanted.name), wanted)) : Symbols[i].lang = wanted.lang

(* What a module provides under a name, by the rules of the language.      *)
RECURSIVE Provides(_, _, _)
Provides(path, name, fuel) ==
    LET rexs == Range(ExtractReExports(path, "ts"))
        via(x, n) == Provides(ResolveImportPath(x.source, path, "ts"), n, fuel - 1) IN
    IF path = <<>> \/ fuel = 0 THEN {}
    ELSE {i \in DOMAIN Symbols : /\ Symbols[i].path = path /\ Symbols[i].exported
                                 /\ Symbols[i].name = name \/ (name = "default" /\ Symbols[i].kind \in {"function", "class", "component"})}
         \cup UNION {via(x, x.original) : x \in {x \in rexs : x.kind = "named" /\ x.exported = name}}
         \cup UNION {via(x, name) : x \in {x \in rexs : x.kind = "wildcard" /\ name # "default"}}

Renames == \E p \in scene.files : \E x \in Range(ExtractReExports(p, "ts")) :
               x.kind = "named" /\ x.original # x.exported

(* An imported name is resolved through any chain of barrels, cyclic or    *)
(* not, to what the module provides under it, and is resolved whenever it  *)
(* provides something and no barrel renames.                               *)
FollowsExports(file, m) ==
    LET want == [default |-> FALSE, name |-> m.exported, member |-> ""]
        agree(hit, provided) == /\ hit # 0 => hit \in provided
                                /\ hit = 0 /\ ~Renames => provided = {} IN
    file # <<>> => agree(FindExportedSymbol(file, want, "ts", {}, 0).at, Provides(file, m.exported, 9))
ImportsFollowExports ==
    pass = "extracted" /\ wanted.lang = "ts" =>
        \A m \in {m \in Range(Mapped(wanted)) : ~m.default /\ ~m.ns} :
            FollowsExports(ResolveImportPath(m.source, wanted.path, "ts"), m)
=============================================================================
