\* Two requests, one failure beside the servers down at boot, one visiting handler.
SPECIFICATION FairSpec
CONSTANTS
    r1 = r1
    r2 = r2
    extra = extra
    Request <- MCRequest
    Sends <- MCSends
    Event = {"item.created", "item.updated", "item.deleted"}
    Handler = {log, extra}
    Logger = log
    Visitors <- MCVisitors
    MaxFaults = 1
    MaxWrappers = 2
INVARIANTS TypeOK  HealthTruthful AuditComplete AnswersFit GracefulEnd SubscribersHear
PROPERTIES ShutdownCompletes EveryRequestEnds
CHECK_DEADLOCK FALSE
