\* What the documentation says of retries.
SPECIFICATION Spec
CONSTANTS
    Call = {c1, c2}
    Facade = {}
    Shared = Shared
    Querying = {c1, c2}
    Labelling = {c2}
    RetryTimes = 1
    MaxLost = 1
PROPERTY RetriesOnlyRefused
CHECK_DEADLOCK FALSE
