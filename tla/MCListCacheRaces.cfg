SPECIFICATION FairSpec
CONSTANTS
    p1 = p1
    r1 = r1
    r2 = r2
    r3 = r3
    w1 = w1
    Paths = {p1}
    Readers = {r1, r2, r3}
    Mistyped = {r3}
    Writers = {w1}
    Patches = {w1}
    PathOf <- OneWriter
    NoEntry = NoEntry
    TTL = 0
    MaxDelay = 0
    MaxTime = 0
    MaxOutside = 0
    MaxSends = 2
INVARIANTS
    CacheHoldsAcknowledged
    ReadYourWrites
PROPERTIES
    EveryCallReturns
    ImplementsListReads
