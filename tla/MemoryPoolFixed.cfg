\* A pool that cannot grow, its size no multiple of a record, so that the table can
\* underflow: the model stops there.
SPECIFICATION Spec
CONSTANTS
    One = 2
    Align = 1
    FixUnits = 1
    FreeUnits = 1
    InitSize = 17
    MaxSize = 17
    MinRealloc = 0
    Growable = TRUE
    Requests = {0, 1, 3, 5}
    HeapSizes = {17}
INVARIANTS TypeOK BlocksDisjoint NoByteLost ChainInAddressOrder FaultOnlyWhenEmpty
CHECK_DEADLOCK FALSE
