CONSTANTS
    None = None
    Replicas = {1, 2, 3}
    Source = 1
    Target = 2
    MaxLsn = 1
    Environments <- MCEnvironments
SPECIFICATION FairSpec
INVARIANTS
    WriterHasEverything

    
CHECK_DEADLOCK FALSE
