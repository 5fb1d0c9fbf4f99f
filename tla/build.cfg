SPECIFICATION FairSpec
CONSTANTS Boundary = 1 MaxLsn = 3 Chunks = 1 StreamCap = 2 MaxPending = 1
 FaultSets = {{"timeout","target"},{"source","timeout"},{"fence","target"},{"timeout","stale"}}
INVARIANTS RecordedIsStored NothingFallsBetween AcceptedIsCaughtUp
 
CHECK_DEADLOCK FALSE
