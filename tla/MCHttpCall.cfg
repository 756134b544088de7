CONSTANTS
    MaxCalls = 2
    Methods <- AllMethods
    RetryMax = 2
SPECIFICATION FairSpec
CHECK_DEADLOCK FALSE
INVARIANTS
    TypeOK
    AtMostOnce
    RetriesBounded
PROPERTIES
    AnsweredIsSettled
    ImplementsApiCalls
    EveryCallReturns
