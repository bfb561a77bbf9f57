SPECIFICATION Spec
CONSTANTS
    external = external
    r1 = r1
    r2 = r2
    Manifest <- MCManifest
    CollectorConfig = 1
    NodeCollector = 2
    ClusterCollector = 3
    LoggingDaemonSet = 4
    ProxyDeployment = 5
    ExternalAddrs = {external}
    ProxyAddr = ProxyAddr
    NoAddr = NoAddr
    Revisions = {r1, r2}
    NoCR = NoCR
    Absent = Absent
    Specs <- SwitchSpecs
    MaxEdits = 2
    MaxFaults = 1
    MaxCrashes = 0
    MaxChurn = 1
    MaxFlushes = 1
INVARIANTS
    TypeOK
    SinkFollowsDataPath
    HealthyMeansApplied
PROPERTIES
    CollectionWaitsForDataPath
    SilentWithoutResource
CHECK_DEADLOCK FALSE
