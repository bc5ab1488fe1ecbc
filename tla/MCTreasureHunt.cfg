SPECIFICATION Spec
CONSTANTS
    Worlds <- MCWorlds
    Chunks = 3
    Remotes <- MCRemotes
    Locals <- MCLocals
    Nonces <- MCNonces
    Width = 8
    MaxCopies = 1
CHECK_DEADLOCK FALSE
INVARIANTS
    InOrder
    PrintsWhole
PROPERTIES
    Finds
