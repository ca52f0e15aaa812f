CONSTANTS
    wifi = wifi
    lte = lte
    long = long
    other = other
    Networks = {wifi, lte}
    Messages = {long, other}
    Mine = {long}
    Size <- MCSize
    CsDuplicateCheck = TRUE
    ClearTime = 1
    DualClearTime = 1
    MaxSendtoTimes = 1
    MaxTime = 2
    MaxRepeats <- MCRepeats
SPECIFICATION Spec
INVARIANTS TypeOK HolesOnlyFromRepeats PromptCombined CopiesApart
CHECK_DEADLOCK FALSE
PROPERTY PromptDelivered
