SPECIFICATION FairSpec
CONSTANTS
    Names <- MCNames
    TagOf <- MCTagOf
    Objects = {"o1", "o2", "o3", "bad"}
    Indices = {1, 2}
    Periods = {30, 60}
    NoPeriod = NoPeriod
    HostProfiles <- MCHostProfiles
    SmartHost = TRUE
    PollBase = TRUE
    Walks = {1, 2}
    Workers = {"w"}
    Packaged <- MCPackaged
    Files <- MCFiles
    FirstFile <- MCFirstFile
    Devices <- MCDevices
    Malformed = "bad"
    MaxEvents = 1
INVARIANTS
    TypeOK
    TwinsNeedOverlap
PROPERTIES
    GapLosesNoProfile
    PollsFollowConfiguration
