SPECIFICATION FairSpec
CONSTANTS
    external = external
    r1 = r1
    r2 = r2
    Manifest <- MCManifest
    CollectorConfig = 1
    NodeCollector = 2
    ClusterCollector = 3
    LoggingDaemonSet = 4
    ProxyDeployment = 5
    ExternalAddrs = {external}
    ProxyAddr = ProxyAddr
    NoAddr = NoAddr
    Revisions = {r1, r2}
    NoCR = NoCR
    Absent = Absent
    Specs <- EditSpecs
    MaxEdits = 2
    MaxFaults = 1
    MaxCrashes = 1
    MaxChurn = 0
    MaxFlushes = 0
INVARIANTS
    NoLostUpdate
    NeverForgotten
PROPERTIES
    ServedWhileWanted
    IsLevelTriggered
    ServiceStays
CHECK_DEADLOCK FALSE
