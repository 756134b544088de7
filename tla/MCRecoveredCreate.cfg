CONSTANTS
    Programs <- OnlyPostgresql
    Ids = {i1, i2}
    Basics = {a, b}
    Extendeds = {d, e}
    Default = d
    None = None
    MaxFaults = 1
    MaxEdits = 0
    MaxOutside = 0
SPECIFICATION Spec
PROPERTIES
    RecoveredIsNotTainted
