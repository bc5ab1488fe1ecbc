CONSTANTS
    c1 = c1
    c2 = c2
    Clients = {c1, c2}
    Workers = {w1, w2}
    NL = NL
    None = None
    RioBuf = 2
    MaxLine = 3
    SbufSize = 1
    IntMax = 3
    Systems <- MCSystems
    Mixes <- MCMixes
    Messages <- MCMessages
SPECIFICATION FairSpec
INVARIANTS EchoExact DescriptorsOwned CountExact
PROPERTIES Served Reaped
CHECK_DEADLOCK FALSE
