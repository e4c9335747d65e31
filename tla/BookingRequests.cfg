SPECIFICATION Spec
CONSTANTS
    p1 = p1
    p2 = p2
    c1 = c1
    c2 = c2
    k1 = k1
    k2 = k2
    w1 = w1
    w2 = w2
    Staff <- OneStaff
    Contacts <- OneContact
    Keys <- TwoKeys
    Workers <- OneWorker
    Starts = {1, 2}
    Duration = 1
    BufferBefore = 0
    BufferAfter = 0
    MinNotice = 0
    Capacity = 1
    RoomCapacity = 2
    HoldTtl = 1
    ConfirmTtl = 1
    CancelNotice = 1
    Leads = {1}
    Mode = "require_confirmation"
    Poisoned <- OneContact
    Replays = TRUE
    MaxDelay = 1
    MaxCalls = 2
    MaxHolds = 3
    MaxAppointments = 2
    MaxTime = 1
SYMMETRY StaffAndKeys
INVARIANTS
    HoldsExclusive
    OneAppointmentPerKey
