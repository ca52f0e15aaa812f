SPECIFICATION Spec
CONSTANTS
    k1 = k1
    c1 = c1
    k2 = k2
    q1 = q1
    q2 = q2
    q3 = q3
    q4 = q4
    Conns = {k1, k2}
    Queries = {q1, q2}
    Conn <- OwnConn
    Continuous = {q1, q2}
    Preset = {}
    FromCS = {}
    Named = {q1, q2}
    CsThreads = {}
    Fds = {1, 2}
    NoFd = NoFd
    Free = Free
    NoCall = NoCall
CHECK_DEADLOCK FALSE
INVARIANT ClosesOwnOnly
