SPECIFICATION Spec
CONSTANTS
    k1 = k1
    c1 = c1
    k2 = k2
    q1 = q1
    q2 = q2
    q3 = q3
    q4 = q4
    Conns = {k1}
    Queries = {q1}
    Conn <- OneConn
    Continuous = {q1}
    Preset = {}
    FromCS = {q1}
    Named = {q1}
    CsThreads = {}
    Fds = {1}
    NoFd = NoFd
    Free = Free
    NoCall = NoCall
CHECK_DEADLOCK FALSE
PROPERTY DuplicateCleared
