\* Three requests, two processes with limiters and one without, one failure.
SPECIFICATION Spec
CONSTANTS
    Request = {1, 2, 3}
    p1 = p1
    p2 = p2
    p3 = p3
    ip = ip
    balancer = balancer
    alice = alice
    Proc = {p1, p2, p3}
    Initializing = {p1, p2}
    Ip = {ip, balancer}
    User = {alice}
    Nobody = Nobody
    Unforwarded = Unforwarded
    Nothing = Nothing
    Points <- MCPoints
    Sends <- MCSends
    MaxFaults = 1
INVARIANTS TypeOK LimitHolds RefusedOnlySpent PassedCounted
CHECK_DEADLOCK FALSE
