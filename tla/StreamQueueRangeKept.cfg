CONSTANTS
    rows = rows
    range = range
    all = all
    cross = cross
    crossRange = crossRange
    Windows = {}
    Deployments <- NoWindows
    Win <- MCWin
    DefaultNum = 1
    DefaultMsec = 1
    MaxTuples = 4
    MaxBatch = 2
    MaxTriggers = 0
    MaxTime = 4
    MaxLag = 0
SPECIFICATION Spec
PROPERTY RangeKept
