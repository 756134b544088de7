SPECIFICATION FairSpec
CONSTANTS
    Resources = {r1}
    NoUUID = NoUUID
    Ghost = Ghost
    MaxDeploys = 3
    MaxCommit = 1
    MaxFaults = 1
    MaxEdits = 1
INVARIANTS
    TypeOK
    DeployedIsFinished
    SuccessIsNotOld
    DeploysNoOlder
PROPERTIES
    EveryCreateReturns
