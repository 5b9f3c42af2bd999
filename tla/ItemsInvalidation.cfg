\* No fault at all: the race of a fill with an invalidation.
SPECIFICATION Spec
CONSTANTS
    Req = {r1, r2, r3}
    Proc = {p1, p2}
    NoProc = NoProc
    a = a
    b = b
    Id = {a, b}
    Seeded = {a}
    Absent = Absent
    Original = Original
    ListKey = ListKey
    Fallback = Fallback
    Sends <- MCSends
    MaxFaults = 0
INVARIANT InvalidationIsComplete
SYMMETRY Symmetric
CHECK_DEADLOCK FALSE
