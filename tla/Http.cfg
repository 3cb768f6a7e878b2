\* Requests over a buffer that still holds another one; then frames.
SPECIFICATION Spec
CONSTANTS
    Requests <- SomeRequests
    Leftovers <- SomeLeftovers
    BufferSize = 20
    Base = 3
    Word = 2
    MsgBuffer = 6
    Lengths = {0, 1, 2, 3, 6}
    Header = 2
    MaxBytes = 12
INVARIANTS RequestAsSent MessagesAsSent
CHECK_DEADLOCK FALSE
