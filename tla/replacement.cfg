CONSTANTS
    None = None
    Worlds <- MCWorlds
SPECIFICATION FairSpec
INVARIANTS
    AcknowledgedIsHeld
PROPERTIES
    
    ReplacementEnds
CHECK_DEADLOCK FALSE
