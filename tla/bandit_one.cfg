\* One process that tunes a topic bucket and the intent-global surface.
SPECIFICATION Spec
CONSTANTS
    p1 = p1
    p2 = p2
    dash = dash
    t0 = t0
    Proc = {p1}
    Dashboard = {}
    Host <- OnP1
    Tuning = {p1}
    Topic = {t0}
    Global = Global
    Profile <- Dial
    Perturb <- OneStep
    Compiled <- DefaultDial
    NoProfile = NoProfile
    NoCandidate = NoCandidate
    Signal <- TwoSignals
    PromotionWindow = 2
    MinBaseSamples = 1
    PromotionLift = 1
    RollbackStrikes = 2
    RollbackThreshold = 3
    SampleFloor = 2
    Faults = {"error", "crash"}
    MaxTraces = 1
    MaxSamples = 2
    MaxCandidate = 2
    MaxBase = 1
    MaxActive = 1
INVARIANTS TypeOK BaseIsLive
PROPERTIES TunedSpec
CHECK_DEADLOCK FALSE
