SPECIFICATION Spec
CONSTANTS
    Flows <- AllFlows
    MaxEdits = 1
    MaxOutside = 1
    MaxFaults = 1
INVARIANTS
    TypeOK
    AppliedAsPlanned
    AppliedSettles
    ConfiguredIsServed
    RemovalIsHonest
    ImportKeeps
    WithheldIsAnnounced
    RowsAreSound
PROPERTIES
    UnchangedIsLeft
    ChangeRestarts
    LeftOpenIsLeft
    DestroyedIsOff
