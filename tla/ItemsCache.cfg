\* Two processes, two requests, one seeded item and one id still free; two faults
\* (failing calls, crashes or losses of the token).  No symmetry, for the liveness.
SPECIFICATION FairSpec
CONSTANTS
    Req = {r1, r2}
    Proc = {p1, p2}
    NoProc = NoProc
    a = a
    b = b
    Id = {a, b}
    Seeded = {a}
    Absent = Absent
    Original = Original
    ListKey = ListKey
    Fallback = Fallback
    Sends <- MCSendsAll
    MaxFaults = 2
INVARIANTS TypeOK StaleExplained DeletedOnce EventsMatchWrites
PROPERTIES ImplementsItemStore EveryRequestAnswered
CHECK_DEADLOCK FALSE
