\* The answer to a call is read by the goroutine of an earlier one.
SPECIFICATION Spec
CONSTANTS
    Empty = Empty
    EOF = EOF
    PipeRoom = 2
    LineRoom = 2
    MaxId = 4
    Faults = {}
PROPERTIES AnswerReachesItsCall
CHECK_DEADLOCK FALSE
