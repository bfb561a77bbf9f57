SPECIFICATION FairSpec
CONSTANTS
    external = external
    r1 = r1
    r2 = r2
    Manifest <- DeployManifest
    CollectorConfig = 2
    NodeCollector = 3
    ClusterCollector = 4
    LoggingDaemonSet = 7
    ProxyDeployment = 9
    ExternalAddrs = {external}
    ProxyAddr = ProxyAddr
    NoAddr = NoAddr
    Revisions = {r1, r2}
    NoCR = NoCR
    Absent = Absent
    Specs <- LiveSpecs
    MaxEdits = 2
    MaxFaults = 0
    MaxCrashes = 0
    MaxChurn = 2
    MaxFlushes = 0
INVARIANT
    WarningKeepsComponents
PROPERTIES
    Converges
    StatusConverges
CHECK_DEADLOCK FALSE
