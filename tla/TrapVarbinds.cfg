CONSTANTS
    entA = entA  entB = entB  std = std  std2 = std2  stray = stray
    mibA = mibA  mibB = mibB  mibS = mibS  mibT = mibT
    number = number  text = text
    NoMib = NoMib
    Oids <- MCOids
    Enterprise = {entA, entB}
    Mibs <- MCMibs
    MibOf <- MCMibOf
    Above <- MCAbove
    StandardMibs = {}
    Values <- MCValues
    Bare = {number}
    Misfits <- MCMisfits
    Traps <- MCTraps
    MaxLength = 3
    MaxVarbinds = 0
    IncludeUnresolved = TRUE
    RetryMax = 2
SPECIFICATION Spec
INVARIANTS EveryVarbindReported AttemptedOnce ListedIsTranslated
