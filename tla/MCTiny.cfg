CONSTANTS
    c1 = c1
    c2 = c2
    Clients = {c1, c2}
    NL = NL
    None = None
    RioBuf = 2
    MaxLine = 3
    Systems <- MCSystems
    Scenes <- MCScenes
SPECIFICATION FairSpec
INVARIANTS AnswersExact HeadersRead
CHECK_DEADLOCK FALSE
PROPERTIES Served
