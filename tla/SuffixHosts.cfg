SPECIFICATION Spec
CONSTANTS
    Hosts = {h1,h2}
    Groups = {g1}
    Records = {r1}
    ProfileSets = {fullProfiles, none}
    Periods = {p1}
    Expiries = {e1}
    Chains = {c1}
    Assign <- MCAssign
    WalkProfiles = {"special", "WalkProfile"}
    WalkProfileOf <- MCWalkProfileOf
    Matches <- MCSuffixMatches
    Absent = Absent
    Delete = Delete
    NoProfiles = none
    NoGroup = NoGroup
    NoDoc = NoDoc
    NoEntry = NoEntry
    NoLine = NoLine
    Idle = Idle
    MaxEdits = 2
    MaxFaults = 0
    MaxRestarts = 0
    h1 = h1
    h2 = h2
    p1 = p1
    fullProfiles = fullProfiles
    fewProfiles = fewProfiles
CHECK_DEADLOCK FALSE
PROPERTIES
    SetupMindsItsHost
