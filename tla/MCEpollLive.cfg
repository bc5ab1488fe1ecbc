SPECIFICATION FairSpec
CONSTANTS
    c1 = c1
    c2 = c2
    b1 = b1
    b2 = b2
    Clients <- TwoClients
    Blocks <- TwoBlocks
    MaxFd = 5
    Systems <- EnoughFds
    Mixes <- ServedPairs
    Listener = Listener
    None = None
CHECK_DEADLOCK FALSE
PROPERTIES
    Answered
    Stops
