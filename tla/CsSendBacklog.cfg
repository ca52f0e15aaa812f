CONSTANTS
    a = a
    b = b
    x = x
    y = y
    NoSid = NoSid
    NoIp = NoIp
    Sids = {a}
    Ips = {x, y}
    InitialList <- MCList
    Backlog = 0
    MaxMessages = 2
    MaxRegs = 0
    MaxTaken = 2
SPECIFICATION Spec
CHECK_DEADLOCK FALSE
PROPERTY BacklogCleared
