SPECIFICATION Spec
CONSTANTS
    Operators <- MCOperators
    TupleSets <- MCTupleSets
    MaxTime = 3
INVARIANTS TypeOK PairsWhole NothingLost ResultRight
PROPERTY ImplementsOrderedPairs
CHECK_DEADLOCK FALSE
