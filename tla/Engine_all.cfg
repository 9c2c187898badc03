SPECIFICATION Spec
CONSTANTS
    Threads = {t1, t2, t3}
    Handles = {h1, h2}
    NoHandle = none
    OpBound = 2
    NestedClose = FALSE
INVARIANTS
    EngineOutlivesItsUse
    ListedCallsAreOwned
    NothingEscapesClose
    DestroyMeetsOnlyTheLost
PROPERTIES
    CloseReturns
    ClosedIsDestroyed
