SPECIFICATION FairSpec
CONSTANTS
    p1 = p1
    p2 = p2
    c1 = c1
    c2 = c2
    d1 = d1
    d2 = d2
    Producers <- MCProducers
    Consumers <- MCConsumers
    Items <- MCItems
    Zero = 0
    N = 2
    IntMax = 4
    MaxInserts = 4
CHECK_DEADLOCK FALSE
INVARIANTS
    TypeOK
    MutualExclusion
    Accounting
    NoOverwrite
PROPERTIES
    ImplementsFifo
    InsertReturns
    ItemsDelivered
