SPECIFICATION Spec
CONSTANTS
    N = 3
    MaxFaults = 1
    MaxCalls = 2
INVARIANTS
    NeverStranded
    OneSession
    
PROPERTIES
    Reconnects
CHECK_DEADLOCK FALSE
