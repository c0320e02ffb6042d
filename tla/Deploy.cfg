SPECIFICATION DeploySpec
CONSTANTS
    Clients = {op}
    OnlyLists <- OneJob
    MaxTries = 2
    MaxFaults = 2
    MaxContracts = 9
    MaxRuns = 3
    MaxTime = 2
CHECK_DEADLOCK FALSE
INVARIANTS
    FilesFit
    OrphansHaveACause
