CONSTANTS
    Resources = {r1, r2}
    Ids = {i0, i1, i2, i3}
    Names = {production, a, b}
    Production = production
    Descs = {blank, d}
    Blank = blank
    None = None
    MaxFaults = 2
    MaxEdits = 2
SPECIFICATION Spec
SYMMETRY Symmetry
INVARIANTS
    TypeOK
    NameLeadsToOwn
    NoSharedEnvironment
    SuccessMeansApplied
PROPERTIES
    OnlyOwnIsTouched
    RenameKeepsUUID
