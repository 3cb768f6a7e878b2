\* Two producers and a consumer that polls at any time, with a ring of three buffers that
\* overflows.
SPECIFICATION Spec
CONSTANTS
    QueueLen = 3
    Producers = {p1, p2}
    MaxSent = 6
PROPERTIES
    ReceivedInOrder
    LastReceived
