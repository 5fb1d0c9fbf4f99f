SPECIFICATION FairSpec
CONSTANTS
    h1 = h1
    h2 = h2
    None = None
    Host <- MCHost
    Worlds <- MCWorlds
INVARIANTS StrictAtMostOnce StartedIsExposed AttemptsAreBounded
PROPERTIES ReplayIsStable WorkflowEnds
CHECK_DEADLOCK FALSE
