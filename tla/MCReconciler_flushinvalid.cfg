SPECIFICATION Spec
CONSTANTS
    external = external
    r1 = r1
    r2 = r2
    Manifest <- MCManifest
    CollectorConfig = 1
    NodeCollector = 2
    ClusterCollector = 3
    LoggingDaemonSet = 4
    ProxyDeployment = 5
    ExternalAddrs = {external}
    ProxyAddr = ProxyAddr
    NoAddr = NoAddr
    Revisions = {r1, r2}
    NoCR = NoCR
    Absent = Absent
    Specs <- ExternalSpecs
    MaxEdits = 2
    MaxFaults = 0
    MaxCrashes = 0
    MaxChurn = 0
    MaxFlushes = 1
PROPERTY
    NoStatusGaugesWhileInvalid
CHECK_DEADLOCK FALSE
