SPECIFICATION Spec
CONSTANTS
    FallbackPollIterations = 2
    UdevWaitTimeout = 2
    MaxAttempts = 1
    Targets = {"disk"}
INVARIANTS NodeIsAuthoritative
CHECK_DEADLOCK FALSE
