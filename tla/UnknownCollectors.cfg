CONSTANTS
    Lower <- MCLower
    Known <- MCKnown
    Files <- MCFiles
    NoFile = noFile
    NilMap = nilMap
SPECIFICATION Spec
INVARIANT UnknownIgnored
CHECK_DEADLOCK FALSE
