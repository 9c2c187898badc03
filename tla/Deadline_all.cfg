SPECIFICATION Spec
CONSTANTS
    None = None
    NoLimit = None
    U = 2
    Limits <- MCLimits
    Owners = {"perform", "stream", "async"}
    NetErrors <- MCErrors
    PieceBound = 2
    HopBound = 1
INVARIANTS
    WithinBudget
    OwnTimeoutIsNoCancel
PROPERTIES
    NotEarly
    HeadersBeatTheDeadline
