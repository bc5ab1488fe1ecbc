SPECIFICATION FairSpec
CONSTANTS
    c1 = c1
    c2 = c2
    c3 = c3
    w1 = w1
    w2 = w2
    Clients <- TwoClients
    Workers <- TwoWorkers
    Main = Main
    SbufSize = 1
    MaxFd = 4
    Addresses = 1
    Mixes <- OneOther
    Free = Free
    None = None
    Junk = Junk
CHECK_DEADLOCK FALSE
PROPERTIES
    Answered
    Disposed
