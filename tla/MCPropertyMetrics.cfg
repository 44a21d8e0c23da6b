CONSTANTS
    Lists <- MCLists
    Texts <- MCTexts
    Clocks <- MCClocks
SPECIFICATION FairSpec
INVARIANTS
    TypeOK
    NothingLost
    ListComplete
PROPERTIES
    CollectReturns
CHECK_DEADLOCK FALSE
