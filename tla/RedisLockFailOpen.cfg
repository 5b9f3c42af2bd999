\* What the documentation says of an unreachable Redis.
SPECIFICATION Spec
CONSTANTS
    Client = {c1, c2, c3}
    Nobody = Nobody
    Ttl = 2
    MaxTime = 3
    MaxFaults = 1
PROPERTY LockFailsOpen
CHECK_DEADLOCK FALSE
