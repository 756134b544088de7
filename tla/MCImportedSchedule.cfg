SPECIFICATION Spec
CONSTANTS
    Flows <- ImportedSchedule
    MaxEdits = 0
    MaxOutside = 0
    MaxFaults = 0
INVARIANTS
    AppliedAsPlanned
