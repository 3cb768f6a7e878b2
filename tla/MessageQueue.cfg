\* A ring of three buffers of three bytes.
SPECIFICATION Spec
CONSTANTS
    QueueLen = 3
    BufSize = 3
    Bodies = {"a", "b"}
    Lengths = {1, 4}
    Nothing = Nothing
INVARIANTS TypeOK CompleteOrAbsent LengthWithinOne
PROPERTIES ImplementsQueue LentBufferKept
