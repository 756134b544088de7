SPECIFICATION Spec
CONSTANTS
    p1 = p1
    r1 = r1
    r2 = r2
    r3 = r3
    w1 = w1
    Paths = {p1}
    Readers = {r1, r2}
    Mistyped = {}
    Writers = {w1}
    Patches = {}
    PathOf <- TwoReaders
    NoEntry = NoEntry
    TTL = 2
    MaxDelay = 1
    MaxTime = 6
    MaxOutside = 1
    MaxSends = 2
INVARIANTS
    TypeOK
    StalenessBounded
