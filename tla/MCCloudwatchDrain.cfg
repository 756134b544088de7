SPECIFICATION Spec
CONSTANTS
    Flows <- CloudwatchDrain
    MaxEdits = 0
    MaxOutside = 0
    MaxFaults = 0
PROPERTIES
    DestroyedIsOff
