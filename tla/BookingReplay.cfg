SPECIFICATION Spec
CONSTANTS
    p1 = p1
    p2 = p2
    c1 = c1
    c2 = c2
    k1 = k1
    k2 = k2
    w1 = w1
    w2 = w2
    Staff <- OneStaff
    Contacts <- OneContact
    Keys <- TwoKeys
    Workers <- OneWorker
    Starts = {1, 3, 5}
    Duration = 2
    BufferBefore = 0
    BufferAfter = 0
    MinNotice = 0
    Capacity = 1
    RoomCapacity = 2
    HoldTtl = 1
    ConfirmTtl = 1
    CancelNotice = 0
    Leads <- None
    Mode = "instant"
    Poisoned <- None
    Replays = TRUE
    MaxDelay = 0
    MaxCalls = 1
    MaxHolds = 4
    MaxAppointments = 2
    MaxTime = 1
SYMMETRY StaffAndKeys
INVARIANTS
    NoOverbooking
