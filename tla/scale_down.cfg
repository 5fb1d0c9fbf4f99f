CONSTANTS
    None = None
    Primary = 2
    Worlds <- MCWorlds
SPECIFICATION FairSpec
INVARIANTS
    AcknowledgedOnAccepted
PROPERTIES
    ScaleDownEnds
CHECK_DEADLOCK FALSE
