SPECIFICATION Spec
CONSTANTS
    k1 = k1
    k2 = k2
    k3 = k3
    w1 = w1
    w2 = w2
    StaffKeys <- TwoKeys
    Amounts = {2}
    Prices = {2}
    Workers <- OneWorker
    PeriodLen = 1
    TrialLen = 1
    GraceLen = 1
    DueLen = 1
    UniqueKeys = TRUE
    MaxEntries = 4
    MaxInvoices = 1
    MaxTime = 2
INVARIANT PaidInvoiceIsFunded
