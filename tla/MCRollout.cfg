SPECIFICATION FairSpec
CONSTANTS
    Nodes = {n1}
    Proxies = {p1, p2}
    Ports = {port}
    ExternalUrls = {url}
    port = port
    url = url
    url2 = url2
    Options <- MCOptions
    Secrets <- Rotated
    Absent = Absent
    MaxEdits = 2
    MaxEvictions = 1
    MaxFaults = 1
INVARIANTS
    TypeOK
    NoShipperBehindItsHash
    CurrentHashCurrentFile
PROPERTIES
    RejectedForGood
    StaleForGood
    ShippersFollowSpec
    ProxyFollowsSecret
