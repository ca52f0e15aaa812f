CONSTANTS
    rows = rows
    range = range
    all = all
    cross = cross
    crossRange = crossRange
    Windows = {rows, range, all, cross, crossRange}
    Deployments <- MCDeployments
    Win <- MCWin
    DefaultNum = 1
    DefaultMsec = 0
    MaxTuples = 3
    MaxBatch = 2
    MaxTriggers = 3
    MaxTime = 1
    MaxLag = 1
SPECIFICATION Spec
INVARIANTS TypeOK HandedOnce RowsDueKept ReservationsSearched
