\* A failed read of the registry.
SPECIFICATION Spec
CONSTANTS
    p1 = p1
    p2 = p2
    Proc = {p1}
    Point = {0, 2, 4}
    Radius = 1
    MaxTopics = 2
    NoTopic = NoTopic
    IntentGlobal = IntentGlobal
    Faults = {"load"}
    MaxQueries = 3
    MaxClock = 2
INVARIANTS FailureReadsGlobal
CHECK_DEADLOCK FALSE
