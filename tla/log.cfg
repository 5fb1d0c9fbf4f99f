SPECIFICATION MCSpec
CONSTANTS
    r1 = r1
    r2 = r2
    r3 = r3
    None = None
    Identity <- MCIdentity
    Local = r1
    Admissible <- MCAdmissible
    Session = {1, 2}
    Restarting = {r3}
    Operation = {op}
    MaxLsn = 1
INVARIANTS
    
    AcknowledgedIsReplicated
    WaitsAreFenced
    CatchUpIsReplicated
CHECK_DEADLOCK FALSE
