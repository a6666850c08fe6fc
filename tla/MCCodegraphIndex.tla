-------------------------- MODULE MCCodegraphIndex --------------------------
(***************************************************************************)
(* The parts of codegraph that compute: part says which of them a          *)
(* behaviour is of; the database of the others stays as it was, and the    *)
(* rest of their variables are Unused.                                     *)
(***************************************************************************)
EXTENDS CodeIndex, BreadthFirst, SidecarRegistry, IndexScenes, QueryScenes

VARIABLES
    part,
    lang, tree, out,                                    \* Extraction
    scene, wanted, resolved, chained, pass,             \* Resolver
    project, stage,                                     \* Synthesis
    answer,                                             \* Traversal
    table, question, found,                             \* Search
    disk, before, setup, runs,                          \* Installer
    index, request, reply                               \* SidecarQueries

Unused == "unused"

IndexedTexts ==
    {[defs |-> {"x"}, uses |-> {}], [defs |-> {}, uses |-> {"x", "z"}],
     [defs |-> {"x", "z"}, uses |-> {"x"}], [defs |-> {}, uses |-> {"y", "x"}]}
Extractor == INSTANCE Extraction WITH Shapes <- TreesOf, OneLine <- {TRUE, FALSE}
Resolution ==
    INSTANCE Resolver WITH
        found <- resolved, deferred <- chained, Cap <- SceneCap, Lower <- SceneLower, Words <- SceneWords, EndsIn <- SceneEndsIn, Inside <- SceneInside,
        Scenes <- BarrelScenes \cup CollisionScenes \cup LanguageScenes, Wanted <- SceneWanted,
        BuiltIns <- [js |-> {"console"}, python |-> {"print"}, pythonTypes |-> {"list"}, pythonMethods |-> {"find"},
                     goPackages |-> {"os"}, go |-> {"make"}, c |-> {"main"}]
Synthesizer ==
    INSTANCE Synthesis WITH
        Projects <- SynthesisProjects, CallbackCap <- 3, ChildCap <- 3, FieldCap <- 2, EventCap <- 2,
        RegistrarNames <- {"onUpdate"}, DispatcherNames <- {"trigger"}, InfraNames <- {"getName"}
Graph == INSTANCE Traversal WITH Asked <- GraphQuestions
Finder ==
    INSTANCE Search WITH
        Tables <- SearchTables, Questions <- SearchQuestions, Code <- LetterCode, Lower <- LetterLower,
        KindBonus <- [function |-> 10, class |-> 8, route |-> 9], Languages <- {"ts", "go"}, StopWords <- {<<"c", "c", "d">>},
        Operators <- {<<"c", "d">>}, TestWords <- {<<"c", "c">>}, ProjectTokens <- {<<"d">>}, TestDirs <- {<<"t">>},
        InnerTestDirs <- {<<"c">>}, LowValueDirs <- {<<"t">>}, DominantEdges <- 2,
        FtsFloor <- 3
Setup == INSTANCE Installer WITH run <- setup, Disks <- Homes, MaxRuns <- 2
Sidecar ==
    INSTANCE SidecarQueries WITH
        Indexes <- SidecarIndexes, Requests <- SidecarRequests, StopWords <- {"the"}, StemOf <- SidecarStems,
        Plural <- ("mock" :> "mocks"), Idf <- SidecarIdf

extractorVars == <<lang, tree, out>>
resolutionVars == <<scene, wanted, resolved, chained, pass>>
synthesizerVars == <<project, stage>>
graphVars == <<walkVars, answer>>
finderVars == <<table, question, found>>
setupVars == <<disk, before, setup, runs>>
sidecarVars == <<index, request, reply>>
all == <<part, indexVars, extractorVars, resolutionVars, synthesizerVars, graphVars, finderVars, setupVars, registryVars, sidecarVars>>

SomeText == CHOOSE t \in Texts : TRUE
NoStore == InitIndex /\ source = [f \in Paths |-> Text(SomeText)]
NoExtractor == lang = Unused /\ tree = Unused /\ out = Unused
NoResolution == scene = Unused /\ wanted = Unused /\ resolved = Unused /\ chained = Unused /\ pass = Unused
NoSynthesizer == project = Unused /\ stage = Unused
NoWalk == queue = Unused /\ at = Unused /\ todo = Unused /\ by = Unused /\ listed = Unused /\ path = Unused
NoGraph == graph = Unused /\ asked = Unused
NoFinder == table = Unused /\ question = Unused /\ found = Unused
NoSetup == disk = Unused /\ before = Unused /\ setup = Unused /\ runs = Unused
NoRegistry == InitRegistry /\ env = {} /\ db = {}
NoSidecar == index = Unused /\ request = Unused /\ reply = Unused

InitAll ==
    /\ part \in {"store", "extractor", "resolution", "synthesizer", "graph", "walk", "finder", "setup", "registry", "sidecar"}
    /\ IF part = "store" THEN InitIndex ELSE NoStore
    /\ IF part = "extractor" THEN Extractor!InitExtract ELSE NoExtractor
    /\ IF part = "resolution" THEN Resolution!InitResolver ELSE NoResolution
    /\ IF part = "synthesizer" THEN Synthesizer!InitSynthesis ELSE NoSynthesizer
    /\ CASE part = "graph" -> Graph!InitTraversal
         [] part = "walk" -> InitWalk /\ answer = Unused
         [] OTHER -> NoGraph /\ answer = Unused
    /\ part # "walk" => NoWalk
    /\ IF part = "finder" THEN Finder!InitSearch ELSE NoFinder
    /\ IF part = "setup" THEN Setup!InitInstaller ELSE NoSetup
    /\ IF part = "registry" THEN InitRegistry ELSE NoRegistry
    /\ IF part = "sidecar" THEN Sidecar!InitQueries ELSE NoSidecar

NextAll ==
    /\ UNCHANGED part
    /\ \/ /\ part = "store" /\ StepIndex
          /\ UNCHANGED <<extractorVars, resolutionVars, synthesizerVars, graphVars, finderVars, setupVars, registryVars, sidecarVars>>
       \/ /\ part = "extractor" /\ Extractor!StepExtract
          /\ UNCHANGED <<indexVars, resolutionVars, synthesizerVars, graphVars, finderVars, setupVars, registryVars, sidecarVars>>
       \/ /\ part = "resolution" /\ Resolution!StepResolver
          /\ UNCHANGED <<indexVars, extractorVars, synthesizerVars, graphVars, finderVars, setupVars, registryVars, sidecarVars>>
       \/ /\ part = "synthesizer" /\ Synthesizer!StepSynthesis
          /\ UNCHANGED <<indexVars, extractorVars, resolutionVars, graphVars, finderVars, setupVars, registryVars, sidecarVars>>
       \/ /\ part = "graph" /\ Graph!StepTraversal /\ UNCHANGED <<queue, at, todo, by, listed, path>>
          /\ UNCHANGED <<indexVars, extractorVars, resolutionVars, synthesizerVars, finderVars, setupVars, registryVars, sidecarVars>>
       \/ /\ part = "walk" /\ StepWalk /\ UNCHANGED answer
          /\ UNCHANGED <<indexVars, extractorVars, resolutionVars, synthesizerVars, finderVars, setupVars, registryVars, sidecarVars>>
       \/ /\ part = "finder" /\ Finder!StepSearch
          /\ UNCHANGED <<indexVars, extractorVars, resolutionVars, synthesizerVars, graphVars, setupVars, registryVars, sidecarVars>>
       \/ /\ part = "setup" /\ Setup!StepInstaller
          /\ UNCHANGED <<indexVars, extractorVars, resolutionVars, synthesizerVars, graphVars, finderVars, registryVars, sidecarVars>>
       \/ /\ part = "registry" /\ StepRegistry
          /\ UNCHANGED <<indexVars, extractorVars, resolutionVars, synthesizerVars, graphVars, finderVars, setupVars, sidecarVars>>
       \/ /\ part = "sidecar" /\ Sidecar!StepQueries
          /\ UNCHANGED <<indexVars, extractorVars, resolutionVars, synthesizerVars, graphVars, finderVars, setupVars, registryVars>>
SpecAll == InitAll /\ [][NextAll]_all

-----------------------------------------------------------------------------
(* The symbols of a source file nest as its text does, and each call in    *)
(* a body becomes one reference, of the innermost symbol around it         *)
(* (extraction/tree-sitter.ts).                                            *)
ExtractionIsFaithful == part = "extractor" => Extractor!ScopesEnclose /\ Extractor!CallsAreFoundOnce

(* A reference that names something of the project is not dropped by the   *)
(* pre-filter, a language's own symbols win over equal names of another,   *)
(* and an import leads where the chain of exports leads (resolution/).     *)
ResolutionIsSound ==
    part = "resolution" => Resolution!NothingDropped /\ Resolution!NativesWin /\ Resolution!ImportsFollowExports

(* Calls through callbacks, events, fields and generated stubs reach the   *)
(* functions that are registered (resolution/callback-synthesizer.ts).     *)
DynamicCallsAreFollowed == part = "synthesizer" => Synthesizer!DynamicCallsAreFollowed

(* Graph queries answer with the nodes the relation reaches (graph/), and  *)
(* what the sidecar answers holds in the graph it is asked about           *)
(* (codegraph/lib/handlers.js).                                            *)
AnswersFitTheGraph ==
    /\ part = "graph" => Graph!AnswersFitTheGraph
    /\ part = "walk" => WalksAreExact
    /\ part = "sidecar" => Sidecar!RepliesAreSound

(* Symbols are found by name, by part and by a misspelt name (db/, search/). *)
SearchAnswers == part = "finder" => Finder!SearchAnswers

(* Installing and uninstalling leave the user's own settings alone and     *)
(* each has its effect on every agent it is run for (installer/).          *)
InstallerKeepsFaith == part = "setup" => Setup!OwnSettingsSurvive /\ Setup!RunsTakeEffect
=============================================================================
