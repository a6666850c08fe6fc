\* One process and its dashboard thread, no failures: progress and the audit trail.
SPECIFICATION FairSpec
CONSTANTS
    p1 = p1
    p2 = p2
    dash = dash
    t0 = t0
    Proc = {p1}
    Dashboard = {dash}
    Host <- OnP1
    Tuning = {p1}
    Topic = {}
    Global = Global
    Profile <- Dial
    Perturb <- OneStep
    Compiled <- DefaultDial
    NoProfile = NoProfile
    NoCandidate = NoCandidate
    Signal <- TwoSignals
    PromotionWindow = 2
    MinBaseSamples = 1
    PromotionLift = 1
    RollbackStrikes = 2
    RollbackThreshold = 3
    SampleFloor = 2
    Faults = {}
    MaxTraces = 3
    MaxSamples = 2
    MaxCandidate = 2
    MaxBase = 1
    MaxActive = 1
INVARIANTS AuditMatchesLive FrozenDefaultExists
PROPERTIES ExperimentConcludes
CHECK_DEADLOCK FALSE
