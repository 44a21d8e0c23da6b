SPECIFICATION Spec
CONSTANTS
    Program <- Registered
    Envs <- MCEnvs
    MaxRows = 2
    Ids <- MCIds
    Silent <- MCSilent
INVARIANTS
    TypeOK
    LabelsFit
    SeriesDistinct
    DeclaredAppear
    TroubleContained
    NilMeansComplete
CHECK_DEADLOCK FALSE
