SPECIFICATION FairPreviewSpec
CONSTANTS
    None = None
    Supervisors = {1, 2}
    Children = {1, 2, 3}
    Worlds <- MCWorlds
INVARIANTS
    CallbacksAreExclusive
    UnrepeatableOnce
    ReportedPrimaryIsPrimary
PROPERTIES
    HandoverIsOrdered
    
CHECK_DEADLOCK FALSE
