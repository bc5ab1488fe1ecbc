SPECIFICATION FairSpec
CONSTANTS
    Scripts <- AllScripts
    FirstFiles <- Files
    MaxProcs = 4
    None = None
CHECK_DEADLOCK FALSE
INVARIANTS
    TypeOK
    ParsedAsDocumented
    OnlyItsEnds
    AllWaitedFor
PROPERTIES
    Returns
