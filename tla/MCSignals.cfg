SPECIFICATION Spec
CONSTANTS
    Scenarios <- MCScenarios
    Masks <- MCMasks
CHECK_DEADLOCK FALSE
INVARIANTS
    AsExpected
PROPERTIES
    Ends
