\* A rollback on three good raw scores.
SPECIFICATION Spec
CONSTANTS
    p1 = p1
    p2 = p2
    dash = dash
    t0 = t0
    Proc = {p1}
    Dashboard = {}
    Host <- OnP1
    Tuning = {p1}
    Topic = {}
    Global = Global
    Profile <- Dial
    Perturb <- OneStep
    Compiled <- DefaultDial
    NoProfile = NoProfile
    NoCandidate = NoCandidate
    Signal <- AtParSignals
    PromotionWindow = 20
    MinBaseSamples = 5
    PromotionLift = 1
    RollbackStrikes = 3
    RollbackThreshold = 3
    SampleFloor = 2
    Faults = {}
    MaxTraces = 1
    MaxSamples = 2
    MaxCandidate = 20
    MaxBase = 5
    MaxActive = 1
INVARIANTS RollbackOnBadRaw
CHECK_DEADLOCK FALSE
