SPECIFICATION Spec
CONSTANTS
    Slots = {s0, s1, s2, s3}
    First = s0
    NoSlot = NoSlot
    MaxRooms = 1
    RoomCapacity = 3
    MaxRequests = 4
    MaxDepth = 4
INVARIANTS MembersAgree LossSurvived
PROPERTIES HearsTheRoom
SYMMETRY Symmetry
CHECK_DEADLOCK FALSE
