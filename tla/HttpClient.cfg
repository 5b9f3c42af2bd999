\* Two calls on one data source and two on one Http instance, one retry each.
SPECIFICATION FairSpec
CONSTANTS
    Call = {c1, c2, h1, h2}
    Facade = {h1, h2}
    Shared = Shared
    Querying = {c1, h1, h2}
    Labelling = {c1, c2, h2}
    RetryTimes = 1
    MaxLost = 1
INVARIANTS TypeOK NoLeftovers AloneSendsItsOwn FacadeSendsAllSoFar ExecutedOncePerLoss
PROPERTY EveryCallEnds
CHECK_DEADLOCK FALSE
