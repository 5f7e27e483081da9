SPECIFICATION FairSpec
CONSTANTS
    c1 = c1
    c2 = c2
    Calls <- TwoCalls
    Mortal <- OneCall
    NoCall = NoCall
    BufferSize = 1
    MaxMessages = 2
INVARIANTS
    SuccessIsComplete
    CrashNeedsAnEnd
PROPERTY CallsEnd
CHECK_DEADLOCK FALSE
