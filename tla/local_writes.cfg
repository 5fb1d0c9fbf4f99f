SPECIFICATION FairSpec
CONSTANTS
    None = None
    Foreign = Foreign
    w1 = w1
    w2 = w2
    w3 = w3
    Write <- MCWrite
    MaxLsn = 3
    FaultSets <- MCFaultSets
INVARIANTS AcknowledgedIsKept JournalIsHonest
PROPERTIES LocalCommitsHaveQuorum UndisturbedGrantConverges
CHECK_DEADLOCK FALSE
