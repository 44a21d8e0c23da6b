CONSTANTS
    Foreign <- NewerWords
    MaxCommands = 3
    MaxSentences = 2
SPECIFICATION Spec
INVARIANT RowsOfThisCommand
