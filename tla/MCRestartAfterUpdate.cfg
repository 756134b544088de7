CONSTANTS
    Programs <- OnlyPublicApplication
    Ids = {i1, i2}
    Basics = {a, b}
    Extendeds = {d, e}
    Default = d
    None = None
    MaxFaults = 1
    MaxEdits = 1
    MaxOutside = 0
SPECIFICATION Spec
INVARIANTS
    UpdatedIsRestarted
