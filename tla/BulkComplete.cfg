SPECIFICATION FairSpec
CONSTANTS
    NumOids = 7
    NumVarbinds = 3
    Root <- MCRoot
    Last <- MCLast
    MaxOid = 2
    MaxRepetitions = 2
    MaxRetries = 1
    WholeRow = TRUE
    MaxChanges = 1
CHECK_DEADLOCK FALSE
INVARIANTS
    NoDuplicates
    NothingMissed
PROPERTIES
    WalkEnds
