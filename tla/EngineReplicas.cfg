SPECIFICATION FairSpec
CONSTANTS
    r1 = r1  r2 = r2  r3 = r3
    u1 = u1  u2 = u2
    e1 = e1  e2 = e2  capitalE1 = capitalE1
    NoId = NoId
    Receivers = {r1, r2}
    Users = {u1}
    Names = {u1, u2}
    EngineIds = {e1, e2}
    Spellings = {e1, e2, capitalE1}
    Canon <- MCCanon
    Configs <- MCConfigs
    MaxEdits = 1
    MaxFaults = 1
CHECK_DEADLOCK FALSE
INVARIANTS
    HeardIsRegistered
    LossBounded
PROPERTIES
    ReceiversStart
