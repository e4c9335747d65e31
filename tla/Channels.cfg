SPECIFICATION ChannelsSpec
CONSTANTS
    Parts = {"sms", "gmail", "reply", "instagram", "telegram", "web_chat", "voice"}
    Envelopes = {"e1"}
    Msgs = {"m1"}
    Texts = {"t"}
    Reports = {"sent", "delivered", "failed"}
    Choices = {"opted_in", "blocked"}
    SmsAttempts = 2
    SmsFailures = 1
    MaxHanded = 1
    Last = 3
    Automated = {3}
    Noted = {3}
    FullLimit = 1
    HistoryLimit = 1
    MaxSync = 2
    Requests = {"r1", "r2"}
    GmailAttempts = 3
    GmailLost = 1
    Events = {"e1"}
    MaxTime = 4
    StandardWindow = 1
    HumanWindow = 2
    InstagramFailures = 1
    InstagramAttempts = 2
    InstagramLost = 1
    Updates = {"u1"}
    UpdateAttempts = 2
    TelegramAttempts = 2
    TelegramLost = 1
    Posts = {"p1"}
    Replies = {"r1", "r2"}
    MaxEvents = 3
    MaxRequests = 1
    PageSize = 2
    Calls = {"c1"}
    MaxConcurrent = 1
    JobAttempts = 2
    MaxSegments = 1
    MaxTools = 1
INVARIANTS
    ChannelsTypeOK
    RepliesAreSingle
    DeliveriesActOnce
    CursorSkipsNothing
PROPERTIES
    OptOutIsHonoured
    CarrierVerdictIsFinal
    CursorAfterIngestion
    TranscriptNeedsConsent
