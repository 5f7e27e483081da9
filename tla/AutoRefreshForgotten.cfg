SPECIFICATION FairSpec
CONSTANTS
    c1 = c1
    w1 = w1
    u1 = u1
    Credentials <- OneCredential
    Workers <- OneWorker
    Callers <- OneCaller
    JobBuffer = 1
    PendingHold = 1
    FailureHold = 2
    IneffectiveHold = 1
    Interval = 1
    Lifetime = 2
    Lag = 1
    MaxChanges = 2
PROPERTIES
    FreshnessEvaluated
