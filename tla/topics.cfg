\* Two processes on one Redis: topics, memories, rewards, entry points, with failing commands and crashes.
SPECIFICATION SpecAll
CONSTANTS
    p1 = p1
    p2 = p2
    b1 = b1
    b2 = b2
    r1 = r1
    r2 = r2
    Proc = {p1, p2}
    Point = {0, 2, 4}
    Radius = 1
    MaxTopics = 2
    NoTopic = NoTopic
    IntentGlobal = IntentGlobal
    Faults = {"load", "persist"}
    MaxQueries = 4
    MaxClock = 2
    Servers = {p1, p2}
    Nothing = Nothing
    MaxMishaps = 1
    Files = {f1, f2}
    Paths = {f1}
    Flow = flow
    Names = {"a", "b"}
    MaxTasks = 5
    Buckets = {b1, b2}
    Served <- ColdTopics
    Sources = {"s1"}
    Texts = {0, 2}
    LeastDocs = 2
    MostDocs = 3
    SeedDocs = 2
    RepeatMaxEntries = 2
    TrialWindow = 1
    TrialBase = 1
    TrialStrikes = 2
    MaxPosed = 2
    MaxReports = 2
    Services = {1}
    Suffixes = {1, 2, 3, 4}
    Controller = 4
    Noun = 3
    Static = {1, 2}
    Present <- SomeFiles
    Words = {"serve"}
    WordsOf <- KeywordOfTwo
    MaxAnchors = 2
    MinFires = 2
    RingSize = 1
    MaxDecisions = 2
    MaxSignals = 2
SYMMETRY Interchangeable
INVARIANTS TypeOK TopicsAreSound MemoriesAreKept RewardsFindTheirQuery AnchorsAreEarned
CHECK_DEADLOCK FALSE
