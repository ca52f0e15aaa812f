SPECIFICATION Spec
CONSTANTS
    NOps = 2
    Expect <- DropLast
    MaxBuffer = 1
    Modulus = 5
INVARIANTS TypeOK InOrderOnce RawNeverForwarded NoUseAfterDelete
CHECK_DEADLOCK FALSE
PROPERTY KeepsFlowing
