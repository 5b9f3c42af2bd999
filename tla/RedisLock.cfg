\* Three callers: a stray whose late DEL lets the other two in.
SPECIFICATION FairSpec
CONSTANTS
    Client = {c1, c2, c3}
    Nobody = Nobody
    Ttl = 2
    MaxTime = 6
    MaxFaults = 1
INVARIANTS TypeOK MutualExclusion
PROPERTY LockComesFree
CHECK_DEADLOCK FALSE
