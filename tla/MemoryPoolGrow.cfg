\* A pool on the heap that grows from 10 bytes by 6 or more, past 26, when realloc finds the memory.
SPECIFICATION Spec
CONSTANTS
    One = 4
    Align = 2
    FixUnits = 1
    FreeUnits = 1
    InitSize = 10
    MaxSize = 26
    MinRealloc = 6
    Growable = TRUE
    Requests = {1, 3, 7}
    HeapSizes = {22, 28, 30}
INVARIANTS TableApart LostOnlyAtTheCap
CHECK_DEADLOCK FALSE
PROPERTY ImplementsAllocator
