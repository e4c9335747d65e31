SPECIFICATION LiveSpec
CONSTANTS
    w1 = w1
    w2 = w2
    Workers <- OneWorker
    Modes = {"suggest", "autopilot"}
    ManualKeys = {1}
    Channel = "web_chat"
    MaxMessages = 2
    MaxRuns = 1
    MaxDeliveries = 1
    MaxFacts = 1
    MaxCrashes = 1
INVARIANT TypeOK
PROPERTIES
    RunsFinish
