----------------------------- MODULE ImportText -----------------------------
(***************************************************************************)
(* What a file's import and re-export statements bind                      *)
(* (resolution/import-resolver.ts).  The text of a file is its statements: *)
(* [form, main, names, ns, source], with names a sequence of [name, alias].*)
(* A source is [dots, segs]: dots is 0 for a bare one, and one more than   *)
(* the directories it climbs for a relative one.                           *)
(***************************************************************************)
EXTENDS Naturals, Integers, Sequences, SequencesExt

VARIABLE scene     \* the project: symbols, files, what files say, configuration

Script == {"ts", "tsx", "js", "jsx"}
Slashed == Script \cup {"svelte", "vue", "c", "cpp", "go"}
MapSeq(f(_), s) == [k \in DOMAIN s |-> f(s[k])]

Mapping(local, exported, source, default, ns) ==
    [local |-> local, exported |-> exported, source |-> source, default |-> default, ns |-> ns]
NamedMappings(st, names) ==
    MapSeq(LAMBDA n : Mapping(IF n.alias = "" THEN n.name ELSE n.alias, n.name, st.source, FALSE, FALSE), names)
Namespace(local, st) == <<Mapping(local, "*", st.source, FALSE, TRUE)>>
OfForm(path, form) == SelectSeq(scene.text[path], LAMBDA st : st.form = form)
Each(sts, f(_)) == FlattenSeq(MapSeq(f, sts))

-----------------------------------------------------------------------------
(* extractImportMappings.  "import type { X }" also binds "type", to the   *)
(* default export.                                                         *)
JsBinding(st) ==
    (IF st.main # "" THEN <<Mapping(st.main, "default", st.source, TRUE, FALSE)>> ELSE <<>>)
    \o NamedMappings(st, st.names) \o (IF st.ns # "" THEN Namespace(st.ns, st) ELSE <<>>)
ExtractJSImports(path) == Each(OfForm(path, "import"), JsBinding) \o Each(OfForm(path, "require"), JsBinding)

(* Of a parenthesised list the first and the last name keep a parenthesis. *)
PyNames(st) ==
    SelectSeq(IF st.ns = "(" THEN SubSeq(st.names, 2, Len(st.names) - 1) ELSE st.names, LAMBDA n : n.name # "*")
ExtractPythonImports(path) ==
    Each(OfForm(path, "from"), LAMBDA st : NamedMappings(st, PyNames(st)))
    \o Each(OfForm(path, "import"),
            LAMBDA st : Namespace(IF st.main = "" THEN Last(st.source.segs) ELSE st.main, st))

ExtractGoImports(path) ==
    LET bind(st) == Namespace(IF st.main = "" THEN Last(st.source.segs) ELSE st.main, st) IN
    Each(OfForm(path, "import"), bind) \o Each(OfForm(path, "block"), bind)

(* Without its semicolon, the usual Kotlin style, an import is not seen.   *)
ExtractJavaImports(path) ==
    Each(SelectSeq(OfForm(path, "import"), LAMBDA st : st.ns = ";" /\ Last(st.source.segs) # "*"),
         LAMBDA st : <<Mapping(Last(st.source.segs), Last(st.source.segs), st.source, FALSE, FALSE)>>)

ExtractPHPImports(path) ==
    Each(OfForm(path, "use"),
         LAMBDA st : <<Mapping(IF st.main = "" THEN Last(st.source.segs) ELSE st.main,
                               Last(st.source.segs), st.source, FALSE, FALSE)>>)
ExtractCppImports(path) == Each(OfForm(path, "include"), LAMBDA st : Namespace(st.main, st))

ExtractImportMappings(path, lang) ==
    CASE lang \in Script \cup {"svelte", "vue"} -> ExtractJSImports(path)
      [] lang = "python" -> ExtractPythonImports(path)
      [] lang = "go" -> ExtractGoImports(path)
      [] lang \in {"java", "kotlin"} -> ExtractJavaImports(path)
      [] lang = "php" -> ExtractPHPImports(path)
      [] lang \in {"c", "cpp"} -> ExtractCppImports(path)
      [] OTHER -> <<>>

(* Comments are no re-exports; "export * as ns" is taken for "export *".   *)
ExtractReExports(path, lang) ==
    LET rex(kind, st, n) == [kind |-> kind, exported |-> IF n.alias = "" THEN n.name ELSE n.alias,
                             original |-> n.name, source |-> st.source] IN
    IF lang \notin Script THEN <<>>
    ELSE Each(OfForm(path, "export *"), LAMBDA st : <<rex("wildcard", st, [name |-> "", alias |-> ""])>>)
         \o Each(OfForm(path, "export"), LAMBDA st : MapSeq(LAMBDA n : rex("named", st, n), st.names))
=============================================================================
