SPECIFICATION Spec
CONSTANTS
    n1 = n1
    n2 = n2
    Configs <- MCConfigs
    Room = 3
    MaxFaults = 1
CHECK_DEADLOCK FALSE
INVARIANTS
    RequestsConserved
    PipelineFull
    WriteInterestExact
    ExitZeroIsEarned
PROPERTY
    RunReturns
