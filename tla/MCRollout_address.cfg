SPECIFICATION FairSpec
CONSTANTS
    Nodes = {n1}
    Proxies = {p1}
    Ports = {port}
    ExternalUrls = {url, url2}
    port = port
    url = url
    url2 = url2
    Options <- UrlOptions
    Secrets <- NoSecrets
    Absent = Absent
    MaxEdits = 1
    MaxEvictions = 0
    MaxFaults = 0
PROPERTY
    ShippersFollowAddress
