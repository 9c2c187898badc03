SPECIFICATION Spec
CONSTANTS
    HighWater = 2
    LowWater = 1
    ReadBufferSize = 2
    ChunkSize = 2
    Limits <- MCLimits
    Owners = {"perform", "stream", "async"}
    TimedChoices = {TRUE, FALSE}
    BareEngine = FALSE
    BodyBound = 4
    HopBound = 2
INVARIANTS
    TypeOK
    NothingPostedAfterDestroy
    OneOperationAtATime
    BoundedBuffer
    PausedOnTheOwner
    WakeupNeverLost
    EofIsTheWholeBody
    FreedIsQuiet
    LastResortUnused
    ReturnedRedirectCount
PROPERTIES
    OutcomeIsFinal
    CallEnds
    CancelReleases
    ImplementsAbstractCall
