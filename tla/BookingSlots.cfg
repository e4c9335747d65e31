SPECIFICATION Spec
CONSTANTS
    p1 = p1
    p2 = p2
    c1 = c1
    c2 = c2
    k1 = k1
    k2 = k2
    w1 = w1
    w2 = w2
    Staff <- TwoStaff
    Contacts <- OneContact
    Keys <- TwoKeys
    Workers <- OneWorker
    Starts = {1, 2, 3}
    Duration = 2
    BufferBefore = 0
    BufferAfter = 0
    MinNotice = 0
    Capacity = 1
    RoomCapacity = 2
    HoldTtl = 1
    ConfirmTtl = 1
    CancelNotice = 0
    Leads <- None
    Mode = "instant"
    Poisoned <- None
    Replays = FALSE
    MaxDelay = 0
    MaxCalls = 1
    MaxHolds = 3
    MaxAppointments = 2
    MaxTime = 2
SYMMETRY StaffAndKeys
INVARIANTS
    NoOverbooking
PROPERTIES
    ImplementsSchedule
