SPECIFICATION Spec
CONSTANTS
    p1 = p1
    p2 = p2
    c1 = c1
    c2 = c2
    Producers <- TwoProducers
    Consumers <- TwoConsumers
    Batch = {b1, b2}
    NoBatch = NoBatch
    Capacity = 2
INVARIANTS TypeOK NobodyParkedInVain OneSideWaits OnlySurplusWaits
PROPERTY ImplementsFifo
