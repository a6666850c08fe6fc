\* Two processes that tune the same surfaces, with failing commands, lost replies and crashes.
SPECIFICATION Spec
CONSTANTS
    p1 = p1
    p2 = p2
    dash = dash
    t0 = t0
    Proc = {p1, p2}
    Dashboard = {}
    Host <- OnP1
    Tuning = {p1, p2}
    Topic = {}
    Global = Global
    Profile <- Dial
    Perturb <- OneStep
    Compiled <- DefaultDial
    NoProfile = NoProfile
    NoCandidate = NoCandidate
    Signal <- TwoSignals
    PromotionWindow = 2
    MinBaseSamples = 1
    PromotionLift = 1
    RollbackStrikes = 2
    RollbackThreshold = 3
    SampleFloor = 2
    Faults = {"ambiguous", "crash"}
    MaxTraces = 0
    MaxSamples = 2
    MaxCandidate = 2
    MaxBase = 1
    MaxActive = 1
INVARIANTS ExperimentsEndOnTime
PROPERTIES LiveMovesAreEarned
VIEW HistoryAside
SYMMETRY Interchangeable
CHECK_DEADLOCK FALSE
