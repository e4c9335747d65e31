SPECIFICATION LiveSpec
CONSTANTS
    w1 = w1
    w2 = w2
    Workers <- OneWorker
    Modes = {"autopilot"}
    ManualKeys <- None
    Channel = "internal_test"
    MaxMessages = 2
    MaxRuns = 2
    MaxDeliveries = 1
    MaxFacts = 0
    MaxCrashes = 0
PROPERTY BurstIsConsidered
