CONSTANTS
    None = None
    Boot = boot
    Rpc = {r1, r2}
    b1 = b1
    Builds = {b1}
    Worlds <- MCWorlds
SPECIFICATION FairSpec
INVARIANTS  FinishedMeansInstalled
PROPERTIES  GoalFinishes
CHECK_DEADLOCK FALSE
