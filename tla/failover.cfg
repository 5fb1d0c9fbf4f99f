SPECIFICATION FairSpec
CONSTANTS
    None = None
    Identity <- MCIdentity
    MaxEpoch = 3
    MaxLsn = 2
    Environments = {{}, {"late", "return", "direct"}}

    
    
PROPERTY
    FailoverConverges
CHECK_DEADLOCK FALSE
