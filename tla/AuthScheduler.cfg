SPECIFICATION Spec
CONSTANTS
    codex = codex
    gemini = gemini
    m1 = m1
    NoCred = NoCred
    None = None
    Creds <- ThreeCreds
    Providers <- TwoProviders
    Models <- OneModel
    Priorities <- TwoPriorities
    Parents <- TwoParents
    WebsocketProviders <- Codex
    Shapes <- SomeShapes
    Holds <- SomeHolds
    Requests <- SomeRequests
    MaxNow = 1
    MaxChanges = 3
INVARIANTS TypeOK OneProvider IndexCurrent Rotates
PROPERTY ImplementsChoice
