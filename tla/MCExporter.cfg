CONSTANTS
    p1 = p1
    p2 = p2
    router = router
    record = record
    t1 = t1
    t2 = t2
    Scrapers = {p1, p2}
    devices <- MCDevices
    SrvRecords = {record}
    Answers <- MCAnswers
    NumCollectors = 2
    MaxErrors = 2
SPECIFICATION FairSpec
INVARIANTS
    TypeOK
    SoleUser
    NoLateSend
    WaitGroupCounts
    ResponseComplete
PROPERTIES
    ContractUsed
    RequestsAnswered
