CONSTANTS
    Programs <- AllPrograms
    Ids = {i1, i2}
    Basics = {a, b}
    Extendeds = {d, e}
    Default = d
    None = None
    MaxFaults = 1
    MaxEdits = 1
    MaxOutside = 1
SPECIFICATION FairSpec
INVARIANTS
    TypeOK
    AcknowledgedIsTracked
    SuccessMeansApplied
PROPERTIES
    ImplementsManagedObject
    Converges
