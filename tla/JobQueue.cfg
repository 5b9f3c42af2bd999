\* Two workers with room for two runs each, so that a stalled job can run twice
\* at once, in one process or in two.
SPECIFICATION FairSpec
CONSTANTS
    Job = {j1, j2}
    Worker = {w1, w2}
    NoRun = NoRun
    FailUntil = {2}
    DefaultAttempts = 2
    Concurrency = 2
    MaxStalls = 1
    MaxSignals = 2
    MaxFaults = 2
INVARIANTS TypeOK RetriesSuffice StartsBounded CleanShutdown
PROPERTIES FinishedForGood EveryJobFinishes
CHECK_DEADLOCK FALSE
