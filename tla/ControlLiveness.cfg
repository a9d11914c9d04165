SPECIFICATION FairSpec
CONSTANTS
    Hosts = {h1}
    Groups = {g1}
    Records = {r1}
    ProfileSets = {fullProfiles,fewProfiles, none}
    Periods = {p1,p2}
    Expiries = {e1}
    Chains = {c1,c2}
    Assign <- MCAssign
    WalkProfiles = {"special", "WalkProfile"}
    WalkProfileOf <- MCWalkProfileOf
    Matches <- MCMatches
    Absent = Absent
    Delete = Delete
    NoProfiles = none
    NoGroup = NoGroup
    NoDoc = NoDoc
    NoEntry = NoEntry
    NoLine = NoLine
    Idle = Idle
    MaxEdits = 2
    MaxFaults = 1
    MaxRestarts = 0
    h1 = h1
    h2 = h2
    p1 = p1
    fullProfiles = fullProfiles
    fewProfiles = fewProfiles
CHECK_DEADLOCK FALSE
PROPERTIES
    EventuallyPolled
