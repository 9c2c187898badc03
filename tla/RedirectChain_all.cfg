SPECIFICATION Spec
CONSTANTS
    a = a
    b = b
    w1 = w1
    w2 = w2
    Walkers = {w1, w2}
    Origins = {a, b}
    NoLocation = none
    Calls <- MCCalls
INVARIANTS
    CredentialsStayHome
    BodyKeepsItsMethod
    CookiesReachTheNextHop
    AgreesWithNative
PROPERTIES
    WalksEnd
