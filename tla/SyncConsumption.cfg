\* No failure at all: what becomes of the published messages.
SPECIFICATION FairSpec
CONSTANTS
    Resource = {x, y}
    NoResource = NoResource
    Slot = {s1, s2}
    MaxFaults = 0
PROPERTY EveryMessageProcessed
CHECK_DEADLOCK FALSE
