SPECIFICATION Spec
CONSTANTS
    Scripts <- EchoInt
    FirstFiles <- Files
    MaxProcs = 4
    None = None
CHECK_DEADLOCK FALSE
INVARIANTS
    ShellSpared
