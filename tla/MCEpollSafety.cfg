SPECIFICATION Spec
CONSTANTS
    c1 = c1
    c2 = c2
    b1 = b1
    b2 = b2
    Clients <- TwoClients
    Blocks <- TwoBlocks
    MaxFd = 5
    Systems <- AllSystems
    Mixes <- AllPairs
    Listener = Listener
    None = None
CHECK_DEADLOCK FALSE
SYMMETRY Symmetry
INVARIANTS
    TypeOK
    
    Isolation
    DescriptorsOwned
    NoLostEdge
