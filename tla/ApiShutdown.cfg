\* One request, no failure beside the servers down at boot, no visiting handler.
SPECIFICATION FairSpec
CONSTANTS
    r1 = r1
    r2 = r2
    extra = extra
    Request = {r1}
    Sends <- MCShow
    Event = {"item.created", "item.updated", "item.deleted"}
    Handler = {log}
    Logger = log
    Visitors = {}
    MaxFaults = 0
    MaxWrappers = 1
PROPERTIES ShutdownEnds
CHECK_DEADLOCK FALSE
