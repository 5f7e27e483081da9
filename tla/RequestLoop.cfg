SPECIFICATION FairSpec
CONSTANTS
    a = a
    b = b
    Creds <- TwoCreds
    CreditCreds <- OneCred
    Pool <- TwoModels
    Retries <- OneRetry
    Limits <- ZeroAndOne
    MaxBootstrap = 1
    MaxChunks = 1
INVARIANTS TypeOK CallsBounded OneSource SuccessRecorded CancelledStops
PROPERTIES OneResult InvalidIsFinal Settles
