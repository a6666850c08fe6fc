SPECIFICATION SpecAll
CONSTANTS
    Paths = {"a", "b"}
    Texts <- IndexedTexts
    Chained = {"z"}
    BatchSize = 1
    MaxChanges = 1
    MaxJobs = 3
    Graphs <- SmallGraphs
    WalkQuestions <- GraphWalks
    TrailBound = 3
    Indexers = {"i1", "i2"}
    RepoNames = {"n", "m"}
    RepoRoots = {"r", "s"}
    MaxIndexRuns = 2
INVARIANTS
    EdgesAreCurrent
    ReferencesAreKept
    ExtractionIsFaithful
    ResolutionIsSound
    DynamicCallsAreFollowed
    AnswersFitTheGraph
    SearchAnswers
    InstallerKeepsFaith
    RegisteredReposAreFound
CHECK_DEADLOCK FALSE
