CONSTANTS
    Lower <- MCLower
    Known <- MCKnown
    Files <- MCFiles
    NoFile = noFile
    NilMap = nilMap
SPECIFICATION Spec
INVARIANTS
    TypeOK
    ChecksDecide
    OwnFeatures
    InstancesComplete
CHECK_DEADLOCK FALSE
