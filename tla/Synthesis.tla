------------------------------ MODULE Synthesis ------------------------------
(***************************************************************************)
(* Edges for dynamic dispatch (resolution/callback-synthesizer.ts), added  *)
(* to the graph after resolution.  project is [nodes, files, text, links]: *)
(* a node is [kind, name, stem, lang, file, line, end, owner, tags], its   *)
(* identifier its index; a file is [dir, name, ext, generated, auto]; the  *)
(* text of a file is a sequence of facts [t, x, y, line], one for each     *)
(* place an expression of this module matches; a link is an edge           *)
(* [source, target, kind, arg, by], where arg is the argument named on the *)
(* line of a call and by the pass that made it.                            *)
(***************************************************************************)
EXTENDS Naturals, Sequences, FiniteSets, SequencesExt

CONSTANTS Projects, CallbackCap, ChildCap, FieldCap, EventCap, RegistrarNames, DispatcherNames, InfraNames

VARIABLES project, stage

synthesisVars == <<project, stage>>

N(i) == project.nodes[i]
Files == project.files
Those(Test(_)) == SelectSeq([i \in DOMAIN project.nodes |-> i], Test)
Kinds(ks) == Those(LAMBDA i : N(i).kind \in ks)
First(is) == IF is = <<>> THEN 0 ELSE is[1]
Named(name, ks) == Those(LAMBDA i : N(i).name = name /\ N(i).kind \in ks)
Each(s, Op(_)) == FlattenSeq([k \in DOMAIN s |-> Op(s[k])])
Once(s) == FoldLeft(LAMBDA t, x : IF Contains(t, x) THEN t ELSE Append(t, x), <<>>, s)

Text(f, t) == SelectSeq(project.text[f], LAMBDA x : x.t = t)
Says(i, t) == SelectSeq(Text(N(i).file, t), LAMBDA x : N(i).line <= x.line /\ x.line <= N(i).end)
Field(i, t) == IF Says(i, t) = <<>> THEN "" ELSE Says(i, t)[1].x

From(id, kinds) == SelectSeq(project.links, LAMBDA e : e.source = id /\ e.kind \in kinds)
Into(id, kinds) == SelectSeq(project.links, LAMBDA e : e.target = id /\ e.kind \in kinds)
MethodsOf(id) ==
    LET es == From(id, {"contains"}) IN SelectSeq([k \in DOMAIN es |-> es[k].target], LAMBDA i : N(i).kind = "method")
MethodNames(id) == {N(m).name : m \in Range(MethodsOf(id))}

-----------------------------------------------------------------------------
(* A pass yields edges; a group of its candidates stops once it has added  *)
(* as many as its cap, which is looked at between the bundles of a group.  *)
Link(s, t, by) == [source |-> s, target |-> t, kind |-> "calls", by |-> by]
Pair(s, t, by) == IF s = 0 \/ t = 0 \/ s = t THEN <<>> ELSE <<Link(s, t, by)>>
Capped(groups, cap) ==
    LET bundle(st, b) == IF st.added >= cap THEN st
                         ELSE LET new == SelectSeq(Once(b), LAMBDA e : ~Contains(st.es, e)) IN
                              [es |-> st.es \o new, added |-> st.added + Len(new)] IN
    FoldLeft(LAMBDA es, g : FoldLeft(bundle, [es |-> es, added |-> 0], g).es, <<>>, groups)
Singly(es) == [k \in DOMAIN es |-> <<es[k]>>]
AllOf(Op(_, _), as, bs) == Each(as, LAMBDA a : Each(bs, LAMBDA b : Op(a, b)))

FnKinds == {"method", "function", "component"}
Latest(is) == IF is = <<>> THEN 0 ELSE FoldLeft(LAMBDA b, i : IF N(i).line >= N(b).line THEN i ELSE b, is[1], is)
EnclosingOf(f, line, ks) == Latest(Those(LAMBDA i : N(i).file = f /\ N(i).kind \in ks /\ N(i).line <= line /\ line <= N(i).end))
EnclosingFn(f, line) == EnclosingOf(f, line, FnKinds)
Callables == Kinds({"method"}) \o Kinds({"function"})

(* A registrar stores its argument in a field that a dispatcher of the     *)
(* same file calls: what is passed to the one is called by the other.      *)
FieldChannelEdges ==
    LET regs == SelectSeq(Callables, LAMBDA i : N(i).name \in RegistrarNames /\ Field(i, "add") # "")
        disps(r) == SelectSeq(Callables, LAMBDA i : /\ N(i).name \in DispatcherNames /\ N(i).file = N(r).file
                                                    /\ Field(i, "loop") = Field(r, "add"))
        fn(e) == First(Named(e.arg, {"method", "function"}))
        bundle(r, e) == Each(disps(r), LAMBDA d : Pair(d, fn(e), "callback")) IN
    Capped([k \in DOMAIN regs |-> LET cs == Into(regs[k], {"calls"}) IN [j \in DOMAIN cs |-> bundle(regs[k], cs[j])]], CallbackCap)

(* A method calls each element of a collection, another appends to one of  *)
(* the same name.                                                          *)
ClosureCollectionEdges ==
    LET those(t, f) == SelectSeq(Callables, LAMBDA i : \E x \in Range(Says(i, t)) : x.x = f)
        fields == Once(Each(Callables, LAMBDA i : [k \in DOMAIN Says(i, "each") |-> Says(i, "each")[k].x])) IN
    Each(SelectSeq(fields, LAMBDA f : Len(those("each", f)) <= FieldCap /\ Len(those("append", f)) <= FieldCap),
         LAMBDA f : AllOf(LAMBDA d, r : Pair(d, r, "closure-collection"), those("each", f), those("append", f)))

(* Events by their literal name: who emits it calls who handles it.        *)
Emitters(files, ts, ev) ==
    Once(Each(files, LAMBDA f : LET xs == SelectSeq(project.text[f], LAMBDA x : x.t \in ts[Files[f].ext] /\ x.x = ev) IN
                                SelectSeq([k \in DOMAIN xs |-> EnclosingFn(f, xs[k].line)], LAMBDA i : i # 0)))
Handlers(files, ev, Of(_, _)) ==
    Once(Each(files, LAMBDA f : LET xs == SelectSeq(Text(f, "on"), LAMBDA x : x.x = ev) IN
                                SelectSeq([k \in DOMAIN xs |-> Of(f, xs[k])], LAMBDA i : i # 0)))
AllFiles == [f \in DOMAIN Files |-> f]
Exts == {Files[f].ext : f \in DOMAIN Files}
Events == Once(Each(AllFiles, LAMBDA f : LET xs == SelectSeq(project.text[f], LAMBDA x : x.t \in {"emit", "send"}) IN
                                         [k \in DOMAIN xs |-> xs[k].x]))
ByEvent(Ds(_), Hs(_), by) ==
    Each(SelectSeq(Events, LAMBDA ev : Len(Ds(ev)) <= EventCap /\ Len(Hs(ev)) <= EventCap),
         LAMBDA ev : AllOf(LAMBDA d, h : Pair(d, h, by), Ds(ev), Hs(ev)))
EventEmitterEdges ==
    ByEvent(LAMBDA ev : Emitters(AllFiles, [x \in Exts |-> {"emit"}], ev),
            LAMBDA ev : Handlers(AllFiles, ev, LAMBDA f, x : First(Named(x.y, {"function", "method"}))), "event-emitter")

(* The native side of React Native sends, JavaScript listens: a handler    *)
(* without a name counts as the function, or else the variable, around it. *)
Native(ext) == CASE ext \in {"m", "mm", "swift"} -> {"send"} [] ext \in {"java", "kt"} -> {"emit", "send"} [] OTHER -> {}
JsExts == {"js", "jsx", "ts", "tsx", "mjs", "cjs"}
Listener(f, x) ==
    LET named == First(Named(x.y, {"function", "method"}))
        fn == EnclosingFn(f, x.line) IN
    CASE named # 0 -> named [] fn # 0 -> fn [] OTHER -> EnclosingOf(f, x.line, {"constant", "variable"})
RnEventEdges ==
    LET js == SelectSeq(AllFiles, LAMBDA f : Files[f].ext \in JsExts) IN
    ByEvent(LAMBDA ev : Emitters(AllFiles, [x \in Exts |-> Native(x)], ev), LAMBDA ev : Handlers(js, ev, Listener), "rn-event-channel")

(* A method that sets the state leads to the render of its class.          *)
Rerender(name, Fits(_), State(_), by) ==
    LET draws(c) == SelectSeq(MethodsOf(c), LAMBDA m : N(m).name = name)
        classes == SelectSeq(Kinds({"class"}), LAMBDA c : draws(c) # <<>> /\ Fits(draws(c)[1]))
        setters(c) == SelectSeq(MethodsOf(c), State) IN
    Capped([k \in DOMAIN classes |-> LET ms == setters(classes[k]) IN
            [j \in DOMAIN ms |-> Pair(ms[j], draws(classes[k])[1], by)]], CallbackCap)
ReactRenderEdges ==
    Rerender("render", LAMBDA r : TRUE, LAMBDA m : \E x \in Range(Says(m, "setState")) : x.x = "this", "react-render")
FlutterBuildEdges ==
    Rerender("build", LAMBDA b : Files[N(b).file].ext = "dart", LAMBDA m : Says(m, "setState") # <<>>, "flutter-build")

-----------------------------------------------------------------------------
(* Virtual methods: what a base declares calls what overrides it.          *)
Overrides(cls, bases, Own(_)) ==
    LET own == SelectSeq(MethodsOf(cls), Own)
        of(b, m) == SelectSeq(own, LAMBDA o : N(o).name = N(m).name) IN
    [b \in DOMAIN bases |-> Singly(AllOf(LAMBDA m, o : IF N(o).name = N(m).name THEN Pair(m, o, "interface-impl") ELSE <<>>,
                                         MethodsOf(bases[b]), own))]
Bases(cls, kinds, Langs) ==
    LET es == From(cls, kinds) IN SelectSeq([k \in DOMAIN es |-> es[k].target], LAMBDA b : N(b).lang \in Langs /\ b # cls)
CppOverrideEdges ==
    LET last(b) == Each(MethodsOf(b), LAMBDA m : IF \E o \in Range(MethodsOf(b)) : o > m /\ N(o).name = N(m).name THEN <<>> ELSE <<m>>)
        group(cls, b) == LET own == SelectSeq(MethodsOf(cls), LAMBDA m : N(m).lang = "cpp") IN
            Singly(AllOf(LAMBDA o, m : IF N(o).name = N(m).name THEN Pair(m, o, "cpp-override") ELSE <<>>, own, last(b))) IN
    Capped(Each(Kinds({"class"}), LAMBDA c : LET bs == Bases(c, {"extends"}, {"cpp"}) IN [k \in DOMAIN bs |-> group(c, bs[k])]),
           CallbackCap)
OverrideLangs == {"java", "kotlin", "csharp", "typescript", "javascript", "swift", "scala", "go", "rust"}
InterfaceOverrideEdges ==
    Capped(Each(Kinds({"class"}) \o Kinds({"struct"}),
                LAMBDA c : Overrides(c, Bases(c, {"implements", "extends"}, OverrideLangs), LAMBDA m : N(m).lang \in OverrideLangs)),
           CallbackCap)

(* Go: a method belongs to the type its receiver names, in any file of the *)
(* package, and a struct with the methods of an interface implements it.   *)
TypeKinds == {"struct", "class", "interface", "enum", "type_alias"}
DirOf(i) == Files[N(i).file].dir
OwnerSameFile(m) ==    \* looks in the file of the method only
    First(Those(LAMBDA i : N(i).name = Last(N(m).owner) /\ N(i).lang = "go" /\ N(i).kind \in TypeKinds /\ N(i).file = N(m).file))
Owner(m) ==
    First(Those(LAMBDA i : N(i).name = Last(N(m).owner) /\ N(i).lang = "go" /\ N(i).kind \in TypeKinds /\ DirOf(i) = DirOf(m)))
GoCrossFileMethodContainsEdges ==
    LET lost == SelectSeq(Kinds({"method"}), LAMBDA m :
                    /\ N(m).lang = "go" /\ Len(N(m).owner) = 1
                    /\ \A e \in Range(Into(m, {"contains"})) : N(e.source).kind \notin TypeKinds) IN
    Each(lost, LAMBDA m : IF Owner(m) = 0 THEN <<>> ELSE <<[Link(Owner(m), m, "") EXCEPT !.kind = "contains"]>>)
GoStructs == SelectSeq(Kinds({"struct"}), LAMBDA s : N(s).lang = "go")
GoImplementsEdges ==
    LET ifaces == SelectSeq(Kinds({"interface"}), LAMBDA i : N(i).lang = "go" /\ MethodNames(i) # {})
        fits(i) == SelectSeq(GoStructs, LAMBDA s : MethodNames(i) \subseteq MethodNames(s)) IN
    Capped([k \in DOMAIN ifaces |-> LET ss == fits(ifaces[k]) IN
            [j \in DOMAIN ss |-> <<[Link(ss[j], ifaces[k], "go-implements") EXCEPT !.kind = "implements"]>>]], CallbackCap)

(* A generated gRPC stub: each hand-written struct with its methods.       *)
GoGrpcStubImplEdges ==
    LET real(s) == SelectSeq(MethodsOf(s), LAMBDA m : "marker" \notin N(m).tags)
        stubs == SelectSeq(GoStructs, LAMBDA s : "stub" \in N(s).tags /\ Files[N(s).file].generated /\ real(s) # <<>>)
        impls(s) == SelectSeq(GoStructs, LAMBDA c : /\ c # s /\ ~Files[N(c).file].generated
                                                    /\ {N(m).name : m \in Range(real(s))} \subseteq MethodNames(c))
        group(s, c) == Singly(AllOf(LAMBDA m, o : IF N(o).name = N(m).name THEN <<Link(m, o, "go-grpc-stub-impl")>> ELSE <<>>,
                                    real(s), MethodsOf(c))) IN
    Capped(Each(stubs, LAMBDA s : LET cs == impls(s) IN [k \in DOMAIN cs |-> group(s, cs[k])]), CallbackCap)

(* Gin: what drives the chain of handlers calls every registered handler.  *)
Registered == Once(Each(SelectSeq(AllFiles, LAMBDA f : Files[f].ext = "go"),
                        LAMBDA f : LET xs == Text(f, "route") IN [k \in DOMAIN xs |-> xs[k].x]))
GinMiddlewareChainEdges ==
    LET disps == SelectSeq(Kinds({"method"}), LAMBDA m : N(m).lang = "go" /\ Says(m, "handlers") # <<>>)
        handler(name) == First(SelectSeq(Named(name, {"function", "method"}), LAMBDA i : N(i).lang = "go")) IN
    Capped([k \in DOMAIN disps |-> [j \in DOMAIN Registered |-> Pair(disps[k], handler(Registered[j]), "gin-middleware-chain")]],
           CallbackCap)

(* Kotlin: an expect declaration calls the actual ones.                    *)
KmpTypeKinds == {"class", "interface", "struct", "enum", "type_alias"}
KotlinExpectActualEdges ==
    LET acts == Those(LAMBDA i : N(i).lang = "kotlin" /\ "actual" \in N(i).tags)
        fits(a) == Those(LAMBDA c : /\ N(c).name = N(a).name /\ N(c).owner = N(a).owner /\ N(c).lang = "kotlin"
                                    /\ N(c).kind = N(a).kind \/ {N(c).kind, N(a).kind} \subseteq KmpTypeKinds
                                    /\ N(c).file # N(a).file /\ "actual" \notin N(c).tags) IN
    Capped([k \in DOMAIN acts |-> LET cs == fits(acts[k]) IN [j \in DOMAIN cs |-> Pair(cs[j], acts[k], "kotlin-expect-actual")]],
           CallbackCap)

-----------------------------------------------------------------------------
(* Components: a tag in the text of a parent renders the component.        *)
ComponentKinds == {"component", "function", "class"}
ReactJsxChildEdges ==
    LET parents == Each(AllFiles, LAMBDA f : Those(LAMBDA i : N(i).file = f /\ N(i).kind \in FnKinds))
        children(p) == LET ts == Says(p, "tag")
                           names == Once([k \in DOMAIN ts |-> ts[k].x]) IN
                       [k \in DOMAIN names |-> Pair(p, First(Named(names[k], ComponentKinds)), "jsx-render")] IN
    Capped([k \in DOMAIN parents |-> children(parents[k])], ChildCap)

(* Vue: tags, also by the name Nuxt gives a component from its path, then  *)
(* the handlers of events, also one taken out of a composable.             *)
Resolve(name, ks, f) ==
    LET is == Named(name, ks)
        here == SelectSeq(is, LAMBDA i : N(i).file = f) IN
    IF here # <<>> THEN here[1] ELSE First(is)
NuxtComponent(tag) == First(Those(LAMBDA i : N(i).kind = "component" /\ Files[N(i).file].auto = tag))
VueTag(f, tag) == IF Resolve(tag, ComponentKinds, f) # 0 THEN Resolve(tag, ComponentKinds, f) ELSE NuxtComponent(tag)
VueHandler(f, name) ==
    LET direct == Resolve(name, {"method", "function"}, f)
        from == SelectSeq(Text(f, "destructured"), LAMBDA x : x.x = name)
        composable == IF from = <<>> THEN 0 ELSE Resolve(Last(from).y[2], {"method", "function"}, f) IN
    CASE direct # 0 -> direct
      [] composable = 0 -> 0
      [] OTHER -> First(SelectSeq(Named(Last(from).y[1], {"method", "function", "variable", "constant"}),
                                  LAMBDA i : N(i).file = N(composable).file))
VueTemplateEdges ==
    LET comp(f) == First(Those(LAMBDA i : N(i).file = f /\ N(i).kind = "component"))
        vue == SelectSeq(AllFiles, LAMBDA f : Files[f].ext = "vue" /\ comp(f) # 0)
        tags(f) == Text(f, "kebab") \o Text(f, "pascal")
        on(f) == Text(f, "handler") IN
    Capped([k \in DOMAIN vue |-> LET f == vue[k] IN
               [j \in DOMAIN tags(f) |-> Pair(comp(f), VueTag(f, tags(f)[j].x), "jsx-render")]
               \o [j \in DOMAIN on(f) |-> Pair(comp(f), VueHandler(f, on(f)[j].x), "vue-handler")]], ChildCap)

(* Files that belong together by their names.                              *)
Refers(s, t, by) == IF s = 0 \/ t = 0 THEN <<>> ELSE <<[Link(s, t, by) EXCEPT !.kind = "references"]>>
Beside(f, ext) == SelectSeq(AllFiles, LAMBDA g : Files[g].dir = Files[f].dir /\ Files[g].name = Files[f].name /\ Files[g].ext = ext)
FileNode(f) == First(Those(LAMBDA i : N(i).file = f /\ N(i).kind = "file"))
PascalFormEdges ==
    Each(SelectSeq(AllFiles, LAMBDA f : Files[f].ext \in {"dfm", "fmx"}),
         LAMBDA f : Each(Beside(f, "pas"), LAMBDA p : Refers(FileNode(p), FileNode(f), "pascal-form")))
SvelteKitLoadEdges ==
    LET page(f) == First(Those(LAMBDA i : N(i).file = f /\ N(i).kind = "component"))
        hooks(g) == Those(LAMBDA i : /\ N(i).file = g /\ N(i).name \in {"load", "actions"}
                                     /\ N(i).kind \in {"function", "method", "constant", "variable"}) IN
    Each(SelectSeq(AllFiles, LAMBDA f : Files[f].ext = "svelte" /\ Files[f].name \in {"+page", "+layout"}),
         LAMBDA f : Each(<<"server.ts", "server.js", "ts", "js">>,
             LAMBDA ext : Each(Beside(f, ext), LAMBDA g : Each(hooks(g), LAMBDA h : Refers(page(f), h, "sveltekit-load")))))

(* One interface, several platforms.                                       *)
ExpoCrossPlatformEdges ==
    LET ms == SelectSeq(Kinds({"method"}), LAMBDA m : "expo" \in N(m).tags) IN
    AllOf(LAMBDA a, b : IF N(a).name = N(b).name /\ N(a).lang # N(b).lang THEN Pair(a, b, "expo-cross-platform") ELSE <<>>, ms, ms)
NativeLangs == {"java", "kotlin", "objc", "cpp"}
RnCrossPlatformEdges ==
    LET ms == SelectSeq(Kinds({"method"}), LAMBDA m : N(m).lang \in NativeLangs /\ N(m).stem \notin InfraNames)
        bridged(m) == \E e \in Range(Into(m, {"calls"})) : N(e.source).lang \in {"typescript", "tsx", "javascript", "jsx"} IN
    AllOf(LAMBDA a, b : IF bridged(a) /\ N(a).stem = N(b).stem /\ N(a).lang # N(b).lang
                        THEN Pair(a, b, "rn-cross-platform") \o Pair(b, a, "rn-cross-platform") ELSE <<>>, ms, ms)
FabricNativeImplEdges ==
    LET comps == SelectSeq(Kinds({"component"}), LAMBDA c : "fabric" \in N(c).tags)
        natives(name) == SelectSeq(Named(name, {"class"}), LAMBDA c : N(c).lang \in NativeLangs) IN
    Each(comps, LAMBDA c : Each(<<"", "View", "ViewManager", "ComponentView", "Manager">>,
        LAMBDA suffix : Each(natives(N(c).name \o suffix), LAMBDA n : Pair(c, n, "fabric-native-impl"))))
MybatisJavaXmlEdges ==
    LET java(x) == SelectSeq(Kinds({"method"}), LAMBDA m : /\ N(m).lang \in {"java", "kotlin"} /\ N(m).owner # <<>>
                                                           /\ Last(N(m).owner) = Last(N(x).owner) /\ N(m).name = N(x).name) IN
    Each(SelectSeq(Kinds({"method"}), LAMBDA m : N(m).lang = "xml" /\ N(m).owner # <<>>),
         LAMBDA x : IF Len(java(x)) = 1 THEN Pair(java(x)[1], x, "mybatis-java-xml") ELSE <<>>)

-----------------------------------------------------------------------------
(* synthesizeCallbackEdges: methods join their types before the structs    *)
(* are compared with the interfaces, and both before the rest; of two      *)
(* passes with the same pair the first keeps it.                           *)
Stored(e) == [source |-> e.source, target |-> e.target, kind |-> e.kind, arg |-> "", by |-> e.by]
Insert(es) == project' = [project EXCEPT !.links = @ \o [k \in DOMAIN es |-> Stored(es[k])]]
SamePair(e, f) == e.source = f.source /\ e.target = f.target
Merged ==
    FoldLeft(LAMBDA es, e : IF \E f \in Range(es) : SamePair(e, f) THEN es ELSE Append(es, e), <<>>,
        FieldChannelEdges \o ClosureCollectionEdges \o EventEmitterEdges \o ReactRenderEdges \o ReactJsxChildEdges
        \o VueTemplateEdges \o SvelteKitLoadEdges \o PascalFormEdges \o FlutterBuildEdges \o CppOverrideEdges
        \o InterfaceOverrideEdges \o KotlinExpectActualEdges \o GoGrpcStubImplEdges \o RnEventEdges \o FabricNativeImplEdges
        \o ExpoCrossPlatformEdges \o RnCrossPlatformEdges \o MybatisJavaXmlEdges \o GinMiddlewareChainEdges)

InitSynthesis == project \in Projects /\ stage = "resolved"
JoinMethods == stage = "resolved" /\ stage' = "joined" /\ Insert(GoCrossFileMethodContainsEdges)
FindImplementers == stage = "joined" /\ stage' = "implemented" /\ Insert(GoImplementsEdges)
SynthesizeCallbackEdges == stage = "implemented" /\ stage' = "done" /\ Insert(Merged)
StepSynthesis == JoinMethods \/ FindImplementers \/ SynthesizeCallbackEdges

-----------------------------------------------------------------------------
Linked(s, t) == \E e \in Range(project.links) : e.source = s /\ e.target = t
Ids == DOMAIN project.nodes

(* callback-synthesizer.ts:558-723: a call of a method of a Go interface   *)
(* reaches that method of every struct of its package that has them all,   *)
(* in whichever files they are, as long as no cap is reached.              *)
Receives(s, m) == N(m).kind = "method" /\ Len(N(m).owner) = 1 /\ Last(N(m).owner) = N(s).name /\ DirOf(m) = DirOf(s)
ImplementersAreReached ==
    stage = "done" =>
        \A i \in Ids, s \in Ids :
            LET of(t) == {m \in Ids : N(m).lang = "go" /\ Receives(t, m)}
                names(t) == {N(m).name : m \in of(t)} IN
            N(i).lang = "go" /\ N(i).kind = "interface" /\ N(s).lang = "go" /\ N(s).kind = "struct" /\ names(i) \subseteq names(s)
                => \A m \in of(i), o \in of(s) : N(m).name = N(o).name => Linked(m, o)

(* callback-synthesizer.ts:671-723, 1225-1336: who is reached on one       *)
(* platform is reached on the other, and no edge leads back to its source. *)
PlatformsArePaired ==
    stage = "done" =>
        /\ \A a, b \in Ids : {N(a).kind, N(b).kind} = {"method"} /\ "expo" \in N(a).tags \cap N(b).tags /\ N(a).name = N(b).name
                             /\ N(a).lang # N(b).lang => Linked(a, b) /\ Linked(b, a)
        /\ \A e \in Range(project.links) : e.by # "" => e.source # e.target

DynamicCallsAreFollowed == ImplementersAreReached /\ PlatformsArePaired
=============================================================================
