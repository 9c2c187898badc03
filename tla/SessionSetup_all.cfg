SPECIFICATION Spec
CONSTANTS
    Threads = {1, 2}
    Settings <- MCSettings
    Requests <- MCRequests
    OpenBound = 2
INVARIANTS
    
    ReasonIsMine
    HeaderOrderKept
PROPERTY
    OpenReturns
