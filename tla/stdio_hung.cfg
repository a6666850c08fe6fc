\* A subprocess that stops reading its stdin.
SPECIFICATION FairSpec
CONSTANTS
    Empty = Empty
    EOF = EOF
    PipeRoom = 2
    LineRoom = 2
    MaxId = 6
    Faults = {"hangs"}
PROPERTIES CallReturns
CHECK_DEADLOCK FALSE
