SPECIFICATION Spec
CONSTANTS
    Program <- Registered
    Envs <- MCEnvs
    MaxRows = 1
    Ids <- MCIds
    Silent <- MCSilent
INVARIANTS
    SomethingRetrieved
CHECK_DEADLOCK FALSE
