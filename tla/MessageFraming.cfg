\* Headers of all three sizes, a message without a body, one whose length the header
\* cannot say (5) and one too long for the receiver (6).
SPECIFICATION Spec
CONSTANTS
    Lengths = {0, 1, 2, 4, 5, 6}
    MaxBytes = 22
    Short = 2
    Wide = 5
    MsgBuffer = 6
    RecvBuffer = 21
    FailAt = {5}
INVARIANTS LostOnlyIfSpoilt TypesKept
PROPERTIES ContinueAdvances ChannelSpec
CHECK_DEADLOCK FALSE
