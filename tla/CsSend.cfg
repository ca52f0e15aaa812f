CONSTANTS
    a = a
    b = b
    x = x
    y = y
    NoSid = NoSid
    NoIp = NoIp
    Sids = {a}
    Ips = {x, y}
    InitialList <- MCList
    Backlog = 0
    MaxMessages = 3
    MaxRegs = 3
    MaxTaken = 3
SPECIFICATION Spec
INVARIANTS TypeOK ListedServed  SentToItsPeer OneAfterStop
CHECK_DEADLOCK FALSE
PROPERTY UdpDrains
