CONSTANTS
    Foreign = {}
    MaxCommands = 4
    MaxSentences = 3
SPECIFICATION FairSpec
INVARIANTS
    TypeOK
    LoginAccepted
    InStep
PROPERTIES
    PromiseKept
    RunReturns
