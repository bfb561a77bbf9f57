SPECIFICATION FairSpec
CONSTANTS
    Nodes = {n1}
    Proxies = {p1, p2}
    Ports = {port}
    ExternalUrls = {url}
    port = port
    url = url
    url2 = url2
    Options <- HttpOptions
    Secrets <- OneSecret
    Absent = Absent
    MaxEdits = 1
    MaxEvictions = 0
    MaxFaults = 0
PROPERTY
    ProxyConverges
