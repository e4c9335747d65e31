SPECIFICATION WorkspaceSpec
CONSTANTS
    Parts = {"crm", "leads", "members", "accounts", "context",
             "access", "controls", "data_requests", "jobs", "chat",
             "calls", "mail", "usage", "payments", "tools"}
    Actors = {a1, a2}
    Contacts = {"a", "b"}
    Deliveries = {"d1"}
    Editors = {"e1"}
    ClientKeys = {"k1"}
    Verdicts = {"sent", "failed"}
    Stages = {"s1", "s2"}
    LeadRows = {"l1"}
    Users = {"o", "u"}
    Creator = "o"
    Invitations = {"i1"}
    MaxMembers = 2
    Tokens = {"t1", "t2"}
    Resets = {"l1", "l2"}
    MaxPasswords = 3
    Texts = {"", "a", "b"}
    Empty = ""
    MaxVersion = 2
    Steps = {"s1"}
    Staff = {"o1", "o2"}
    Founders = {"o1"}
    Holder = "o1"
    Sessions = {"x1"}
    MaxSecret = 1
    MaxTime = 1
    Kinds = {"global_ai", "channel_connection"}
    ControlRows = {"c1", "c2"}
    Approvers = {"o1", "o2", "s"}
    OwnerStaff = {"o1", "o2"}
    JobRows = {"j1", "j2"}
    Statuses = {"completed", "scheduled"}
    MaxEdits = 2
    RowLocks = FALSE
    Sids = {"m1", "m2"}
    MaxThreads = 2
    MAX_TOOL_ITERATIONS = 1
    CallSids = {"c1"}
    MaxCallbacks = 2
    Mails = {"m1"}
    Unnamed = {}
    Places = {"builder", "site"}
    MaxRows = 2
    Messages = {"m1", "m2"}
    Meters <- RunMeters
    Included = 1
    MaxPeriod = 1
    MaxInvoices = 1
    Events = {"e1", "e2"}
    MaxAttempts = 3
    ToolNames = {"hold"}
    MaxRounds = 1
    MaxProposed = 1
    MaxCalls = 2
SYMMETRY ActorsAlike
INVARIANTS
    WorkspaceTypeOK
    UnreadIsStored
    RowsAgree
    SecretsWorkOnce
    
    CountedOnce
    HandledOnce
PROPERTIES
    VerdictsStand
CHECK_DEADLOCK FALSE
