SPECIFICATION FairSpec
CONSTANTS
    Fields = {"walked", "polled"}
    PollFields = {"polled"}
    Values = {"v1", "v2"}
    NoValue = NoValue
    NoUptime = NoUptime
    Tasks = {1, 2}
    Batch = 2
    MaxUptime = 1
    MaxEvents = 1
INVARIANTS
    TypeOK
    RestartIsNoticed
    TwinsStayEmpty
PROPERTIES
    FieldsAreKept
    AttributesFollowDevice
