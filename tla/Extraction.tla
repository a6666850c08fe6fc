------------------------------ MODULE Extraction ------------------------------
(***************************************************************************)
(* The walk of one file's syntax tree into nodes, contains edges and       *)
(* references (extraction/tree-sitter.ts).  A syntax node has a type t, a  *)
(* name ("" if anonymous), a form (which of the grammar's variants it is)  *)
(* and kids.  The node types of the grammars are reduced to the roles that *)
(* visitNode and visitFunctionBody tell apart; texts, positions within a   *)
(* line, signatures and docstrings are left out.                           *)
(***************************************************************************)
EXTENDS Naturals, Sequences, FiniteSets

CONSTANTS
    Shapes,        \* for each language, syntax trees: [t, name, form, kids]
    OneLine        \* {TRUE, FALSE}: also minified, every node on line 1

VARIABLES lang, tree, out

extractVars == <<lang, tree, out>>

-----------------------------------------------------------------------------
(* Positions: every syntax node is given its number in pre-order (at), its *)
(* line, its parent's type (up), whether an export statement is above it   *)
(* (exp) and the decorators just before it (marks).                        *)
Decorators == {"decorator"}

RECURSIVE Number(_, _, _, _, _, _), NumberKids(_, _, _, _, _, _)
Number(n, at, min, up, exp, marks) ==
    LET e == exp \/ n.t = "export"
        r == NumberKids(n.kids, at + 1, min, n.t, e, <<>>) IN
    [t |-> n.t, name |-> n.name, form |-> n.form, kids |-> r.kids, at |-> at,
     line |-> IF min THEN 1 ELSE at, up |-> up, exp |-> exp, marks |-> marks, next |-> r.next]
NumberKids(ks, at, min, up, exp, marks) ==
    IF ks = <<>> THEN [kids |-> <<>>, next |-> at]
    ELSE LET k == Number(Head(ks), at, min, up, exp, marks)
             m == IF k.t \in Decorators THEN Append(marks, k) ELSE <<>>
             r == NumberKids(Tail(ks), k.next, min, up, exp, m) IN
         [kids |-> <<k>> \o r.kids, next |-> r.next]

Kids(n, types) == SelectSeq(n.kids, LAMBDA k : k.t \in types)
Body(n) == IF Kids(n, {"body"}) = <<>> THEN <<>> ELSE Head(Kids(n, {"body"})).kids
HasBody(n) == Kids(n, {"body"}) # <<>>

-----------------------------------------------------------------------------
(* The extractor's nodes, edges, unresolvedReferences and nodeStack.       *)
FileId == <<"file", "f", 0>>
Blank == [nodes |-> <<[id |-> FileId, at |-> 0]>>, edges |-> <<>>, refs |-> <<>>, stack |-> <<FileId>>]

Top(s) == s.stack[Len(s.stack)]
Enter(id, s) == [s EXCEPT !.stack = Append(@, id)]
LeaveOpen(s) == s
Leave(s) == [s EXCEPT !.stack = SubSeq(@, 1, Len(@) - 1)]

NodeId(kind, name, n) == <<kind, name, n.line>>
CreateNode(kind, name, n, s) ==
    LET id == NodeId(kind, name, n) IN
    IF name = "" THEN s
    ELSE [s EXCEPT !.nodes = Append(@, [id |-> id, at |-> n.at]), !.edges = Append(@, <<Top(s), id>>)]

EmitFrom(id, kind, name, n, s) ==
    IF name = "" THEN s
    ELSE [s EXCEPT !.refs = Append(@, [from |-> id, kind |-> kind, name |-> name, at |-> n.at])]
Emit(kind, name, n, s) == EmitFrom(Top(s), kind, name, n, s)

RECURSIVE EmitAll(_, _, _, _)
EmitAll(id, kind, ks, s) ==
    IF ks = <<>> THEN s ELSE EmitAll(id, kind, Tail(ks), EmitFrom(id, kind, Head(ks).name, Head(ks), s))

InsideClass(s) == Top(s)[1] \in {"class", "struct", "interface", "trait", "enum", "module"}

-----------------------------------------------------------------------------
(* References to types.  C# and PHP look at type positions only, the other *)
(* languages of TypedLanguages at every type_identifier below.             *)
TypedLanguages == {"ts", "go", "java", "rust", "cs", "php", "swift", "scala"}
Builtin == {"int", "void"}

RECURSIVE TypeRefs(_, _, _)
TypeRefs(ks, id, s) ==
    IF ks = <<>> THEN s
    ELSE LET k == Head(ks)
             s1 == IF k.t = "typeId"
                   THEN IF k.name \in Builtin THEN s ELSE EmitFrom(id, "references", k.name, k, s)
                   ELSE TypeRefs(k.kids, id, s) IN
         TypeRefs(Tail(ks), id, s1)

RECURSIVE TypePositionRefs(_, _, _)
TypePositionRefs(ks, id, s) ==
    IF ks = <<>> THEN s
    ELSE LET own == Kids(Head(ks), {"typeId"}) IN
         TypePositionRefs(Tail(ks), id, TypeRefs(own, id, s))

CsharpTypeRefs(n, id, s) ==
    LET params == IF Kids(n, {"params"}) = <<>> THEN <<>> ELSE Kids(n, {"params"})[1].kids IN
    TypePositionRefs(SelectSeq(params, LAMBDA p : p.t = "param"), id, TypeRefs(Kids(n, {"typeId", "returns"}), id, s))
PhpTypeRefs(n, id, s) ==
    LET params == IF Kids(n, {"params"}) = <<>> THEN <<>> ELSE Kids(n, {"params"})[1].kids IN
    TypeRefs(Kids(n, {"typeId", "returns"}), id, TypePositionRefs(params, id, s))

TypeAnnotations(n, id, s) ==
    IF lang \notin TypedLanguages THEN s
    ELSE IF lang = "cs" THEN CsharpTypeRefs(n, id, s)
    ELSE IF lang = "php" THEN PhpTypeRefs(n, id, s)
    ELSE TypeRefs(Kids(n, {"params"}) \o Kids(n, {"returns"}) \o Kids(n, {"annotation"}), id, s)
VariableAnnotation(n, id, s) ==
    IF lang \in TypedLanguages THEN TypeRefs(Kids(n, {"annotation"}), id, s) ELSE s

(* A C# primary constructor's parameters.                                  *)
PrimaryCtorRefs(n, id, s) ==
    IF lang = "cs" THEN TypeRefs(Kids(n, {"params"}), id, s) ELSE s

(* Decorators inside the declaration and just before it.                   *)
DecoratorRefs(n, id, s) == EmitAll(id, "decorates", Kids(n, Decorators) \o n.marks, s)

(* Base types: a clause without a type list gives its first target only,   *)
(* the base lists of the other languages all theirs.                       *)
ExtendRefs(n, id, s) ==
    LET clause == Kids(n, {"extends"})
        first == IF clause # <<>> /\ lang \in {"ts", "php"} THEN <<clause[1]>> ELSE clause IN
    EmitAll(id, "extends", first, s)
EmbeddedRefs(n, id, s) ==
    EmitAll(id, "extends", SelectSeq(Kids(n, {"embedded"}), LAMBDA k : lang \in {"go", "rust"}), s)
Inheritance(n, id, s) == EmitAll(id, "implements", Kids(n, {"implements"}), EmbeddedRefs(n, id, ExtendRefs(n, id, s)))

(* "impl Trait for Type" of Rust, if the type is declared above it.        *)
RustImpl(n, s) ==
    LET of == {i \in DOMAIN s.nodes : s.nodes[i].id[1] \in {"struct", "enum", "class"} /\ s.nodes[i].id[2] = n.name} IN
    IF n.form # "for" \/ of = {} THEN s
    ELSE LET i == CHOOSE i \in of : \A j \in of : i <= j IN EmitFrom(s.nodes[i].id, "implements", n.form, n, s)

-----------------------------------------------------------------------------
(* Calls.  The receiver is dropped when it is self, this, super or the     *)
(* like; a call on a call's result keeps the inner callee where the        *)
(* language's resolver can use it.                                         *)
ChainLanguages == {"java", "php", "go", "rust", "cs", "swift", "scala"}
ReceiverCall(n) ==
    CASE n.form = "self" -> n.name
      [] n.form = "member" -> "o." \o n.name
      [] n.form = "chain" -> IF lang \in {"java", "php"} THEN "g()." \o n.name ELSE "o." \o n.name
MessageCall(n) == IF n.form = "member" THEN "o." \o n.name ELSE n.name
FunctionCall(n) ==
    CASE n.form \in {"plain", "self", "conversion"} -> n.name
      [] n.form = "member" -> "o." \o n.name
      [] n.form = "chain" -> IF lang \in ChainLanguages THEN "g()." \o n.name ELSE n.name

CalleeName(n) ==
    IF lang = "objc" THEN MessageCall(n)
    ELSE IF lang \in {"java", "php"} /\ n.form \in {"self", "member", "chain"} THEN ReceiverCall(n)
    ELSE FunctionCall(n)

ExtractCall(n, s) ==
    LET class == IF lang = "objc" /\ n.form = "member" THEN Emit("references", "o", n, s) ELSE s IN
    Emit("calls", CalleeName(n), n, class)

(* new C, and a Go composite literal unless its type is anonymous.         *)
ExtractInstantiation(n, s) == IF n.form = "untyped" THEN s ELSE Emit("instantiates", n.name, n, s)

(* Foo.BAR outside a callee, in the languages where a capital is a type.   *)
StaticMemberRef(n, s) ==
    IF n.t = "static" /\ lang \in {"java", "cs", "swift", "scala", "php"} /\ n.up # "call"
    THEN Emit("references", n.name, n, s) ELSE s

(* routes![a, b] of Rocket.                                                *)
RouteMacro(n, s) ==
    IF n.t = "macro" /\ lang = "rust" /\ n.name = "routes" THEN EmitAll(Top(s), "references", n.kids, s) ELSE s

-----------------------------------------------------------------------------
(* Imports: an import node and a reference to the module, then one to each *)
(* name bound.  A re-export makes references and no node.                  *)
BindingRefs(n, s) == EmitAll(Top(s), "imports", Kids(n, {"binding"}), s)
PyBindingRefs(n, s) ==
    EmitAll(Top(s), "imports", SelectSeq(Kids(n, {"binding"}), LAMBDA b : b.name # "*"), s)
RustBindingRefs(n, s) ==
    EmitAll(Top(s), "imports", SelectSeq(Kids(n, {"binding"}), LAMBDA b : b.name \notin {"*", "self"}), s)
PhpUseRefs(n, s) == IF n.form = "global" THEN s ELSE Emit("imports", n.name, n, s)
ReExportRefs(n, s) ==
    EmitAll(Top(s), "imports", SelectSeq(Kids(n, {"binding"}), LAMBDA b : b.name # "default"), s)

ImportBindings(n, s) ==
    CASE lang = "ts" -> BindingRefs(n, s)
      [] lang = "py" -> IF n.form = "from" THEN PyBindingRefs(n, s) ELSE s
      [] lang = "rust" -> RustBindingRefs(n, s)
      [] lang = "php" -> PhpUseRefs(n, s)
      [] OTHER -> s
ExtractImport(n, s) == ImportBindings(n, Emit("imports", n.name, n, CreateNode("import", n.name, n, s)))

-----------------------------------------------------------------------------
(* Declarations.  Visit is visitNode, Walk is visitFunctionBody's          *)
(* visitForCallsAndStructure.                                              *)
RECURSIVE Visit(_, _), VisitAll(_, _), Walk(_, _), WalkAll(_, _), ExtractMethod(_, _)
VisitAll(ks, s) == IF ks = <<>> THEN s ELSE VisitAll(Tail(ks), Visit(Head(ks), s))
WalkAll(ks, s) == IF ks = <<>> THEN s ELSE WalkAll(Tail(ks), Walk(Head(ks), s))

(* The body of a function without a name or of a misparse: no node, but    *)
(* what it calls is attributed to the scope around it.                     *)
WalkAnonymous(n, s) == WalkAll(Body(n), s)

Documented(n, id, s) == DecoratorRefs(n, id, TypeAnnotations(n, id, s))

ExtractFunction(n, name, s) ==
    IF n.form = "receiver" THEN ExtractMethod(n, s)
    ELSE IF name = "" \/ n.form = "misparse" THEN WalkAnonymous(n, s)
    ELSE LET id == NodeId("function", name, n) IN
         Leave(WalkAll(Body(n), Enter(id, Documented(n, id, CreateNode("function", name, n, s)))))

(* A method outside a class: of an object literal, of a receiver (which    *)
(* gets a second container if its type is declared above), or a function.  *)
ReceiverOwner(n, id, s) ==
    LET of == {i \in DOMAIN s.nodes : s.nodes[i].id[1] \in {"struct", "class", "enum", "trait"} /\ s.nodes[i].id[2] = "R"} IN
    IF n.form # "receiver" \/ InsideClass(s) \/ of = {} THEN s
    ELSE LET i == CHOOSE i \in of : \A j \in of : i <= j IN [s EXCEPT !.edges = Append(@, <<s.nodes[i].id, id>>)]

ExtractMethod(n, s) ==
    IF ~InsideClass(s) /\ lang # "go" /\ n.form # "receiver"
    THEN IF n.up = "object" THEN WalkAnonymous(n, s) ELSE ExtractFunction(n, n.name, s)
    ELSE IF n.form = "misparse" THEN WalkAnonymous(n, s)
    ELSE LET id == NodeId("method", n.name, n)
             made == ReceiverOwner(n, id, CreateNode("method", n.name, n, s)) IN
         Leave(WalkAll(Body(n), Enter(id, Documented(n, id, made))))

ExtractClass(n, kind, s) ==
    LET id == NodeId(kind, n.name, n)
        made == DecoratorRefs(n, id, PrimaryCtorRefs(n, id, Inheritance(n, id, CreateNode(kind, n.name, n, s)))) IN
    Leave(VisitAll(IF HasBody(n) THEN Body(n) ELSE n.kids, Enter(id, made)))

ExtractInterface(n, s) ==
    LET id == NodeId(IF lang = "rust" THEN "trait" ELSE "interface", n.name, n) IN
    Leave(VisitAll(IF HasBody(n) THEN Body(n) ELSE n.kids, Enter(id, Inheritance(n, id, CreateNode(id[1], n.name, n, s)))))

(* Without a body a struct or an enum is a forward declaration.            *)
ExtractStruct(n, s) ==
    LET id == NodeId("struct", n.name, n)
        made == PrimaryCtorRefs(n, id, Inheritance(n, id, CreateNode("struct", n.name, n, s))) IN
    IF ~HasBody(n) THEN s ELSE Leave(VisitAll(Body(n), Enter(id, made)))

RECURSIVE EnumBody(_, _)
EnumBody(ks, s) ==
    IF ks = <<>> THEN s
    ELSE EnumBody(Tail(ks), IF Head(ks).t = "member" THEN CreateNode("enum_member", Head(ks).name, Head(ks), s)
                            ELSE Visit(Head(ks), s))
ExtractEnum(n, s) ==
    LET id == NodeId("enum", n.name, n) IN
    IF ~HasBody(n) THEN s
    ELSE Leave(EnumBody(Body(n), Enter(id, Inheritance(n, id, CreateNode("enum", n.name, n, s)))))

(* new C() { ... }: a class of its own, contained where it is created.     *)
AnonymousBody(n) == Kids(n, {"classBody"})
ExtractAnonymousClass(n, s) ==
    LET name == "anon" \o n.name
        id == NodeId("class", name, n) IN
    Leave(VisitAll(AnonymousBody(n)[1].kids, Enter(id, EmitFrom(id, "extends", n.name, n, CreateNode("class", name, n, s)))))

(* Fields and properties make a node; their initializers are not visited.  *)
ExtractField(n, s) ==
    LET id == NodeId(IF lang \in {"cs", "swift"} THEN "property" ELSE "field", n.name, n) IN
    TypeAnnotations(n, id, DecoratorRefs(n, id, CreateNode(id[1], n.name, n, s)))

(* The functions of an object literal that is the value of an exported     *)
(* variable, or what an initializer call's function argument returns.      *)
RECURSIVE ObjectFunctions(_, _)
ObjectFunctions(ks, s) ==
    IF ks = <<>> THEN s
    ELSE LET k == Head(ks)
             s1 == IF k.t = "method" THEN ExtractFunction(k, k.name, s)
                   ELSE IF k.t = "pair" /\ k.kids[1].t = "arrow" THEN ExtractFunction(k.kids[1], k.name, s)
                   ELSE s IN
         ObjectFunctions(Tail(ks), s1)

ReturnedObject(fn) ==
    SelectSeq(Body(fn), LAMBDA k : k.t = "object")
RECURSIVE InitializerObject(_)
InitializerObject(n) ==
    LET of(k) == IF k.t = "arrow" THEN ReturnedObject(k) ELSE IF k.t = "call" THEN InitializerObject(k) ELSE <<>>
        found == {i \in DOMAIN n.kids : of(n.kids[i]) # <<>>} IN
    IF found = {} THEN <<>> ELSE of(n.kids[CHOOSE i \in found : \A j \in found : i <= j])

(* A declarator of a top-level TypeScript declaration.                     *)
TsDeclarator(d, kind, s) ==
    LET value == IF d.kids = <<>> THEN [t |-> "none"] ELSE d.kids[Len(d.kids)]
        objects == IF value.t = "object" THEN <<value>> ELSE IF value.t = "call" THEN InitializerObject(value) ELSE <<>>
        methods == d.exp /\ objects # <<>>
        made == VariableAnnotation(d, NodeId(kind, d.name, d), CreateNode(kind, d.name, d, s))
        walked == IF value.t = "none" \/ value.t = "object" \/ (methods /\ value.t = "call") THEN made ELSE Walk(value, made) IN
    IF d.form = "pattern" THEN s
    ELSE IF value.t = "arrow" THEN ExtractFunction(value, d.name, s)
    ELSE IF methods THEN ObjectFunctions(objects[1].kids, walked) ELSE walked

(* Go walks the value of a var or const inside the variable's scope; a     *)
(* short declaration, and the other languages, make nodes only.            *)
GoSpec(d, kind, s) ==
    LET id == NodeId(kind, d.name, d)
        made == CreateNode(kind, d.name, d, s) IN
    IF d.form = "short" THEN made ELSE Leave(WalkAll(d.kids, Enter(id, made)))

RECURSIVE Declarators(_, _, _)
Declarators(ds, kind, s) ==
    IF ds = <<>> THEN s
    ELSE Declarators(Tail(ds), kind,
             CASE lang = "ts" -> TsDeclarator(Head(ds), kind, s)
               [] lang = "go" -> GoSpec(Head(ds), kind, s)
               [] OTHER -> CreateNode(kind, Head(ds).name, Head(ds), s))
ExtractVariable(n, s) == Declarators(Kids(n, {"declarator"}), IF n.form = "const" THEN "constant" ELSE "variable", s)

(* Members of a TypeScript object type; methods of a Go interface type.    *)
RECURSIVE AliasMembers(_, _)
AliasMembers(ks, s) ==
    IF ks = <<>> THEN s
    ELSE LET k == Head(ks)
             kind == IF lang = "go" \/ k.form = "function" THEN "method" ELSE "property"
             made == CreateNode(kind, k.name, k, s) IN
         AliasMembers(Tail(ks), IF k.t # "signature" THEN s
                                ELSE IF lang = "ts" THEN TypeAnnotations(k, Top(s), made) ELSE made)

GoInterface(n, id, s) == Leave(AliasMembers(Body(n), Enter(id, Inheritance(n, id, CreateNode("interface", n.name, n, s)))))
TypeAlias(n, id, s) ==
    LET made == CreateNode("type_alias", n.name, n, s)
        typed == IF lang \in TypedLanguages THEN TypeRefs(n.kids, id, made) ELSE made IN
    IF lang = "ts" THEN Leave(AliasMembers(Body(n), Enter(id, typed))) ELSE typed

(* type T struct, enum, interface, or an alias, whose children are visited.*)
ExtractTypeAlias(n, s) ==
    LET id(kind) == NodeId(kind, n.name, n) IN
    CASE n.form = "struct" ->
            Leave(VisitAll(Body(n), Inheritance(n, id("struct"), Enter(id("struct"), CreateNode("struct", n.name, n, s)))))
      [] n.form = "enum" ->
            Leave(EnumBody(Body(n), Inheritance(n, id("enum"), Enter(id("enum"), CreateNode("enum", n.name, n, s)))))
      [] n.form = "interface" -> GoInterface(n, id("interface"), s)
      [] OTHER -> VisitAll(n.kids, TypeAlias(n, id("type_alias"), s))

-----------------------------------------------------------------------------
(* Pascal: declarations with their own node types, and procedure bodies    *)
(* attached to the declaration of the same name.                           *)
PascalType(n, s) ==
    LET id(kind) == NodeId(kind, n.name, n)
        bases == [n EXCEPT !.kids = Kids(n, {"extends", "implements"})] IN
    CASE n.t = "class" -> Leave(VisitAll(Body(n), Enter(id("class"), Inheritance(bases, id("class"), CreateNode("class", n.name, n, s)))))
      [] n.t = "interface" -> Leave(VisitAll(Body(n), Enter(id("interface"), CreateNode("interface", n.name, n, s))))
      [] n.t = "enum" -> Leave(EnumBody(Kids(n.kids[1], {"member"}), Enter(id("enum"), CreateNode("enum", n.name, n, s))))
      [] OTHER -> CreateNode("type_alias", n.name, n, s)

RECURSIVE PascalBlock(_, _)
PascalCall(n, s) == PascalBlock(Kids(n, {"body"}), Emit("calls", n.name, n, s))
PascalBlock(ks, s) ==
    IF ks = <<>> THEN s
    ELSE PascalBlock(Tail(ks), IF Head(ks).t = "call" THEN PascalCall(Head(ks), s) ELSE PascalBlock(Head(ks).kids, s))

PascalDefProc(n, s) ==
    LET named == {i \in DOMAIN s.nodes : s.nodes[i].id[1] \in {"method", "function"} /\ s.nodes[i].id[2] = n.name}
        owner == IF named = {} THEN Top(s) ELSE s.nodes[CHOOSE i \in named : \A j \in named : i <= j].id IN
    Leave(PascalBlock(Body(n), Enter(owner, s)))

PascalUses(n, s) == Emit("imports", n.name, n, CreateNode("import", n.name, n, s))

VisitPascal(n, s) ==
    CASE n.t = "unit" -> VisitAll(n.kids, CreateNode("module", n.name, n, s))
      [] n.t \in {"class", "interface", "enum", "alias"} -> PascalType(n, s)
      [] n.t = "import" -> PascalUses(n, s)
      [] n.t = "variable" -> Declarators(Kids(n, {"declarator"}), IF n.form = "const" THEN "constant" ELSE "variable", s)
      [] n.t = "function" /\ HasBody(n) -> PascalDefProc(n, s)
      [] n.t = "fieldDef" -> CreateNode("field", n.name, n, s)
      [] n.t = "call" -> PascalCall(n, s)
      [] n.t = "body" -> PascalBlock(n.kids, s)

PascalTypes == {"unit", "class", "interface", "enum", "alias", "import", "variable", "fieldDef", "call", "body"}

-----------------------------------------------------------------------------
(* visitNode: what each language's lists of node types name.               *)
Functions == IF lang = "java" THEN {} ELSE {"function"} \cup (IF lang = "ts" THEN {"arrow"} ELSE {})
Methods == CASE lang = "ts" -> {"method", "fieldDef"} [] lang = "py" -> {"function"}
             [] lang = "pascal" -> {"function"} [] OTHER -> {"method"}

VisitLeaf(n, s) ==
    CASE n.t = "import" -> ExtractImport(n, s)
      [] n.t = "export" /\ n.form = "from" -> ReExportRefs(n, s)
      [] n.t = "call" -> ExtractCall(n, s)
      [] n.t = "new" -> ExtractInstantiation(n, s)
      [] n.t = "impl" -> RustImpl(n, s)
      [] n.t = "signature" /\ InsideClass(s) -> TypeAnnotations(n, Top(s), s)
      [] OTHER -> s

Visit(n, s) ==
    CASE lang = "pascal" /\ (n.t \in PascalTypes \/ (n.t = "function" /\ HasBody(n))) -> VisitPascal(n, s)
      [] n.t \in Functions ->
            IF InsideClass(s) /\ n.t \in Methods THEN ExtractMethod(n, s) ELSE ExtractFunction(n, n.name, s)
      [] n.t = "class" -> ExtractClass(n, "class", s)
      [] n.t \in Methods -> ExtractMethod(n, s)
      [] n.t = "interface" -> ExtractInterface(n, s)
      [] n.t = "struct" -> ExtractStruct(n, s)
      [] n.t = "enum" -> ExtractEnum(n, s)
      [] n.t = "alias" -> ExtractTypeAlias(n, s)
      [] n.t = "fieldDef" /\ InsideClass(s) -> ExtractField(n, s)
      [] n.t = "variable" /\ ~InsideClass(s) -> ExtractVariable(n, s)
      [] n.t = "new" /\ AnonymousBody(n) # <<>> -> ExtractAnonymousClass(n, ExtractInstantiation(n, s))
      [] OTHER -> VisitAll(n.kids, VisitLeaf(n, s))

Walk(n, s) ==
    LET called == CASE n.t = "call" -> ExtractCall(n, s) [] n.t = "new" -> ExtractInstantiation(n, s)
                    [] OTHER -> RouteMacro(n, s)
        seen == StaticMemberRef(n, called)
        typed == IF n.t = "declarator" THEN VariableAnnotation(n, Top(s), seen) ELSE seen IN
    CASE n.t = "new" /\ AnonymousBody(n) # <<>> -> ExtractAnonymousClass(n, called)
      [] n.t \in Functions /\ n.name # "" -> ExtractFunction(n, n.name, typed)
      [] n.t = "class" -> ExtractClass(n, "class", typed)
      [] n.t = "struct" -> ExtractStruct(n, typed)
      [] n.t = "enum" -> ExtractEnum(n, typed)
      [] n.t = "interface" -> ExtractInterface(n, typed)
      [] OTHER -> WalkAll(n.kids, typed)

(* extract: the file node, the namespace of a package clause, the walk.    *)
FilePackage(n, s) ==
    LET p == Kids(n, {"package"}) IN
    IF p = <<>> \/ lang \notin {"java", "cs", "php"} THEN s
    ELSE LET id == NodeId("namespace", p[1].name, p[1]) IN Enter(id, CreateNode("namespace", p[1].name, p[1], s))
Extract(n) == Visit(n, FilePackage(n, Blank))

-----------------------------------------------------------------------------
Nothing == [nodes |-> <<>>, edges |-> <<>>, refs |-> <<>>, stack |-> <<>>]

InitExtract ==
    /\ lang \in DOMAIN Shapes /\ out = Nothing
    /\ tree \in {Number(n, 1, min, "none", FALSE, <<>>) : n \in Shapes[lang], min \in OneLine}

(* extractFromSource.                                                      *)
StepExtract == out = Nothing /\ out' = Extract(tree) /\ UNCHANGED <<lang, tree>>

SpecExtract == InitExtract /\ [][StepExtract]_extractVars

-----------------------------------------------------------------------------
(* The reference: what encloses a syntax node in the text.                 *)
RECURSIVE Above(_, _)
Above(n, at) ==
    IF n.at = at THEN <<>>
    ELSE LET k == CHOOSE k \in {n.kids[i] : i \in DOMAIN n.kids} : k.at <= at /\ at < k.next IN <<n>> \o Above(k, at)

RECURSIVE Uses(_)
Uses(n) ==
    (IF n.t \in {"call", "new"} /\ n.form # "untyped" THEN {n.at} ELSE {})
        \cup UNION {Uses(n.kids[i]) : i \in DOMAIN n.kids}

ScopeKinds == {"function", "method", "class", "struct", "interface", "trait", "enum", "type_alias"}
                  \cup (IF lang = "go" THEN {"variable", "constant"} ELSE {})
Ids == {out.nodes[i].id : i \in DOMAIN out.nodes}
IdsAt(at) == {out.nodes[i].id : i \in {i \in DOMAIN out.nodes : out.nodes[i].at = at}}
EnclosingScope(at) ==
    LET above == Above(tree, at)
        scopes == {i \in DOMAIN above : \E id \in IdsAt(above[i].at) : id[1] \in ScopeKinds}
        procedures == {above[i].name : i \in {i \in DOMAIN above : above[i].t = "function"}} IN
    IF lang = "pascal" /\ \E id \in Ids : id[2] \in procedures THEN {id \in Ids : id[2] \in procedures}
    ELSE IF scopes = {} THEN {FileId} \cup {id \in Ids : id[1] = "namespace"}
    ELSE {id \in IdsAt(above[CHOOSE i \in scopes : \A j \in scopes : j <= i].at) : id[1] \in ScopeKinds}

(* Text the walk leaves aside: parameters and headers of declarations,     *)
(* initializers of fields, of top-level variables outside TypeScript and   *)
(* Go, and of object literals, enums, forward declarations.                *)
Unwalked(above, i) ==
    LET a == above[i]
        b == IF i = Len(above) THEN [t |-> "use", kids |-> <<>>] ELSE above[i + 1] IN
    \/ a.t \in {"function", "arrow", "method", "class", "interface", "alias"} /\ HasBody(a) /\ b.t # "body"
    \/ a.t \in {"function", "arrow", "method", "fieldDef", "struct", "enum", "object", "pair", "import"} /\ b.t # "body"
    \/ a.t = "declarator" /\ (lang \notin {"ts", "go"} \/ a.form \in {"pattern", "short"})
    \/ a.t = "declarator" /\ a.exp /\ b.t = "call"
    \/ a.t \in {"variable", "alias"}

(* tree-sitter.ts:583-650, 751-1101: what is declared or called belongs to *)
(* the innermost declaration around it; a method with a receiver also to   *)
(* its type, the body of a Pascal procedure to the procedure of its name.  *)
ScopesEnclose ==
    /\ \A i \in DOMAIN out.refs :
           out.refs[i].kind \in {"calls", "instantiates"} => out.refs[i].from \in EnclosingScope(out.refs[i].at)
    /\ \A i \in DOMAIN out.edges :
           \/ out.edges[i][1][2] = "R"
           \/ \E j \in DOMAIN out.nodes :
                  out.nodes[j].id = out.edges[i][2] /\ out.edges[i][1] \in EnclosingScope(out.nodes[j].at)

(* tree-sitter.ts:358-578, 3056-3167: no call or instantiation is recorded *)
(* twice, and none is missed outside the text the walk leaves aside.       *)
CallsAreFoundOnce ==
    out # Nothing =>
        \A at \in Uses(tree) :
            LET found == {i \in DOMAIN out.refs : out.refs[i].at = at /\ out.refs[i].kind \in {"calls", "instantiates"}}
                above == Above(tree, at) IN
            /\ Cardinality(found) <= 1
            /\ found # {} \/ \E i \in DOMAIN above : Unwalked(above, i)
=============================================================================
