SPECIFICATION Spec
CONSTANTS
    a1 = a1
    a2 = a2
    first = first
    second = second
    p1 = p1
    p2 = p2
    NoAuth = NoAuth
    NoKey = NoKey
    Auths = {a1, a2}
    Keys = {first, second}
    Fallback <- MCFallback
    Picks = {p1, p2}
    TTL = 1
    MaxNow = 3
PROPERTIES
    Sticky
    Retained
SYMMETRY Symmetry
