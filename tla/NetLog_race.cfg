SPECIFICATION Spec
CONSTANTS
    Threads = {t1, t2}
    OpBound = 2
    Serialized = FALSE
PROPERTY StopReturns
CHECK_DEADLOCK FALSE
