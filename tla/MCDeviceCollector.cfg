CONSTANTS
    Conns = {c1, c2}
    NoConn = noConn
    Versions = {v6, v7}
    NoVersion = noVersion
    NumCollectors = 4
    CollectorLists <- MCCollectorLists
    StopAfterErrors = 2
    MaxErrors = 8
SPECIFICATION FairSpec
INVARIANTS
    TypeOK
    NoStrayConnection
    SrvClientReleased
    StaleVersionNeedsReconnect
    ErrorsMatchVerdict
    StopRule
    VerdictJustified
PROPERTIES
    ExportedMonotone
    ScrapeEnds
    ContractKept
