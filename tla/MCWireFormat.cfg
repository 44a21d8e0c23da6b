CONSTANTS
    Words <- MCWords
    MaxWords = 5
SPECIFICATION FairSpec
INVARIANTS
    TypeOK
    WordsIntact
    SentencesApart
PROPERTIES
    SentencesArrive
CHECK_DEADLOCK FALSE
