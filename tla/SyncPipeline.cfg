\* Two resources, two deliveries at a time, two failures.
SPECIFICATION FairSpec
CONSTANTS
    Resource = {x, y}
    NoResource = NoResource
    Slot = {s1, s2}
    MaxFaults = 2
INVARIANTS TypeOK CronExitsSettled NoWorkWithoutMongo NoMessageLost
PROPERTIES CronExits EveryDeliverySettled
CHECK_DEADLOCK FALSE
