SPECIFICATION Spec
CONSTANTS
    HighWater = 3
    LowWater = 1
    ReadBufferSize = 2
    ChunkSize = 2
    Limits <- MCLimits
    Owners = {"perform"}
    TimedChoices = {FALSE}
    BareEngine = FALSE
    BodyBound = 2
    HopBound = 1
INVARIANT FailureSurfaces
