SPECIFICATION Spec
CONSTANTS
    m1 = m1
    m2 = m2
    Models <- MCModels
    RetryHints <- MCRetryHints
    QuotaBase = 2
    QuotaMax = 3
    TransientHold = 1
    AccountHold = 1
    LongHold = 2
    MaxNow = 3
INVARIANTS
    TypeOK
    CooldownsEnd
    AggregateExact
PROPERTY
    NoCrossRelease
CONSTRAINT OneModelIfEmbedded
SYMMETRY Symmetry
