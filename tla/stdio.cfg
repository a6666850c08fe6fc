\* Calls that time out, late answers, notifications, and a subprocess that hangs or dies.
SPECIFICATION FairSpec
CONSTANTS
    Empty = Empty
    EOF = EOF
    PipeRoom = 2
    LineRoom = 2
    MaxId = 5
    Faults = {"dies", "hangs", "chatter"}
INVARIANTS TypeOK AnswerIsOwn HandshakeFirst LeftoversTimedOut
PROPERTIES CallReturnsUnlessPipeFull ReadersEnd
CHECK_DEADLOCK FALSE
