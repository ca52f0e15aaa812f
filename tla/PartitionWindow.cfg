CONSTANTS
    early = early
    late = late
    other = other
    Messages = {early, late, other}
    Key <- MCKey
    Time <- MCTime
    Life = 1
    MaxBatch = 2
    WindowKinds <- AllWindows
    MaxTuples = 3
    MaxTriggers = 2
    MaxTime = 2
SPECIFICATION Spec
INVARIANTS NewestKept SentOnce HiddenOnlyIfOvertaken CopiesApart
CHECK_DEADLOCK FALSE
