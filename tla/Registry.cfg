SPECIFICATION Spec
CONSTANTS
    c1 = c1
    c2 = c2
    m1 = m1
    m2 = m2
    p1 = p1
    NoProvider = NoProvider
    Clients <- TwoClients
    Models <- TwoModels
    MarkedModels <- OneModel
    Providers <- OneProvider
    Repeated <- OneModel
    QuotaWindow = 2
    MaxCopies = 2
    MaxNow = 3
INVARIANTS
    TypeOK
    CacheCoherent
    ListSound
    CountsMatchClients
PROPERTIES
    MarksEndWithBinding
    RegisteredAfresh
SYMMETRY ClientSymmetry
