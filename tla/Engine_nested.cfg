SPECIFICATION Spec
CONSTANTS
    Threads = {t1, t2}
    Handles = {h1, h2}
    NoHandle = none
    OpBound = 2
    NestedClose = TRUE
PROPERTY CloseReturns
CHECK_DEADLOCK FALSE
