SPECIFICATION FairSpec
CONSTANTS
    a1 = a1
    a2 = a2
    plain1 = plain1
    scheme1 = scheme1
    scheme2 = scheme2
    Addrs <- MCAddrs
    RawAddrs <- MCRawAddrs
    Normalize <- MCNormalize
    NoAddr = NoAddr
    NoSender = NoSender
    NoValue = NoValue
    Names = {status, version}
    Values = {v1, v2}
    MaxSenders = 2
    MaxReportFaults = 1
INVARIANTS
    TypeOK
    AddrMatchesSender
    NoSenderLeak
    DeliversThisSession
PROPERTIES
    ImplementsSink
    HangIsFinal
    CallsReturn
    CurrentValueArrives
