SPECIFICATION FairSpec
CONSTANTS
    Keys = {"k1", "k2"}
    Ips = {"a", "b"}
    Workers = {1, 2}
    Groups = {"g1"}
    DefaultGroup = DefaultGroup
    Descriptions = {"linux"}
    Silent = Silent
    Networks <- MCNetworks
    FirstNetwork <- MCFirstNetwork
    NoEngine = NoEngine
    Records <- MCRecords
    Invalid = Invalid
    IPv6Disabled = IPv6Disabled
    Absent = Absent
    Configs <- MCConfigs
    Order <- MCOrder
    Expiries = {60, 120}
    FirstConfig <- MCFirstConfig
    Concurrency = 2
    MaxEvents = 1
INVARIANTS
    TypeOK
    ScheduleIsConfiguration
    EngineIdIsTheTargets
    NoTwinRows
PROPERTIES
    FileIsUpdatedAtOnce
    EveryDeviceIsListed
CHECK_DEADLOCK FALSE
