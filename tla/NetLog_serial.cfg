SPECIFICATION Spec
CONSTANTS
    Threads = {t1, t2}
    OpBound = 4
    Serialized = TRUE
INVARIANTS
    StopMeansFlushed
    FlagIsTrue
PROPERTIES
    StopReturns
