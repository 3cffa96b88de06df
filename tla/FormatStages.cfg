SPECIFICATION Spec
CONSTANTS
    FallbackPollIterations = 2
    UdevWaitTimeout = 2
    MaxAttempts = 2
    Targets = {"disk", "partition"}
INVARIANTS TypeOK FormatsTheNewPartition EventNotMissed
PROPERTIES EveryCallEnds
CHECK_DEADLOCK FALSE
