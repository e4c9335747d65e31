SPECIFICATION Spec
CONSTANTS
    w1 = w1
    w2 = w2
    Workers <- TwoWorkers
    Modes = {"autopilot"}
    ManualKeys <- None
    Channel = "web_chat"
    MaxMessages = 2
    MaxRuns = 2
    MaxDeliveries = 1
    MaxFacts = 0
    MaxCrashes = 1
SYMMETRY WorkerSymmetry
INVARIANTS
    OneActiveRun
    CompletedIsAnswered
PROPERTIES
    StaleWorkUnused
    ImplementsConversation
