SPECIFICATION Spec
CONSTANTS
    Hosts = {h1,h2}
    Groups = {g1}
    Records = {r1,r2}
    ProfileSets = {fullProfiles, fewProfiles, none}
    Periods = {p1}
    Expiries = {e1,e2}
    Chains = {c1}
    Assign <- MCAssign
    WalkProfiles = {"special", "WalkProfile"}
    WalkProfileOf <- MCWalkProfileOf
    Matches <- MCMatches
    Absent = Absent
    Delete = Delete
    NoProfiles = none
    NoGroup = NoGroup
    NoDoc = NoDoc
    NoEntry = NoEntry
    NoLine = NoLine
    Idle = Idle
    MaxEdits = 3
    MaxFaults = 1
    MaxRestarts = 1
    h1 = h1
    h2 = h2
    p1 = p1
    fullProfiles = fullProfiles
    fewProfiles = fewProfiles
SYMMETRY MCSymmetry
CHECK_DEADLOCK FALSE
INVARIANTS
    TypeOK
    DeletedHostIsSilent
    NoHostForgotten
    NoStrayGroupMember
    WalkExpiryApplied
    WalkFollowsInventory
