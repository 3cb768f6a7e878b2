\* A connection may end in the pass in which its time is up, and names may fail.
SPECIFICATION Spec
CONSTANTS
    MaxConnection = 2
    SSec = 2
    SUsec = 0
    MaxAge = 1
INVARIANTS SlotOwnsSocket RefusedOnlyWhenFull ClosedBeforeReuse
PROPERTIES PoolExact NoLeak FreshConnection IdleDropped
