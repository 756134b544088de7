CONSTANTS
    MaxCalls = 1
    Methods <- AllMethods
    RetryMax = 0
SPECIFICATION Spec
CHECK_DEADLOCK FALSE
INVARIANTS
    RetriesBounded
