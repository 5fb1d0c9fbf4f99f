CONSTANTS
    None = None
    Worlds <- MCWorlds
SPECIFICATION FairExpansionSpec
INVARIANTS
    WriterHoldsAcknowledged

    
CHECK_DEADLOCK FALSE
