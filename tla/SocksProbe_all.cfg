SPECIFICATION Spec
CONSTANTS
    Attempts = 3
    Urls = {"good", "scheme", "port"}
    Users = {"none", "short", "long"}
    Garbage <- MCGarbage
    NameLength = 3
INVARIANTS
    VerdictFollowsTheAnswer
    AssociateOnceLetIn
PROPERTIES
    LossTolerated
    ProbeEnds
