SPECIFICATION SpecAll
CONSTANTS
    Daemons = {d1, d2}
    Launchers = {l1, l2}
    Outdated = {l2}
    Lossy = {l1}
    MaxTries = 2
    MaxPolls = 0
    MaxKills = 1
    NoOne = NoOne
    Junk = Junk
    Initialize = init
    Statics = {list}
    Calls = {c1, c2}
    Others = {other}
    Notes = {note}
    Roots = roots
    Sessions = {s1, s2}
    Direct = s1
    CallNumbers = {1, 2}
    MaxFailures = 2
    Files = {f1, f2}
    Nested = {f2}
    Unfit = {2}
    MaxEdits = 3
    MaxRuns = 1
    Holders = {p1, p2}
    Nobody = Nobody
    Empty = Empty
    MaxDeaths = 1
    Plain = {a, b}
    Slow = {s}
    Fatal = {}
    Verbose = {v}
    MaxWorkers = 2
    MaxLosses = 1
INVARIANTS
    TypesOK
    OneDaemonUnlessRaced
    LiveClientsAreCounted
    AnsweredOnce
    OpenedOnce
    StaleIsFlagged
    LockExcludes
    FilesAreIndexed
PROPERTIES
    DaemonsEnd
    IndexCatchesUp
    WorkEnds
CHECK_DEADLOCK FALSE
