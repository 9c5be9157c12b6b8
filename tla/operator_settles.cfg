\* One machine that may be evicted, fail or be returned: nothing that happens to it is
\* lost, and what happens in the end.
SPECIFICATION FairSpec
CONSTANTS
    c1 = c1  p1 = p1  q1 = q1
    NoId = NoId  System = System  Preempted = Preempted
    Crs <- OneCr
    Pods <- OnePod
    Owner <- OwnedByOne
    Returns <- OneReturn
    Evictable <- OnePod
    Failing <- OnePod
    Spot <- None
    KeyLabel = FALSE
    BatchSize = 1
    MaxCrashes = 0
    MaxFaults = 0
INVARIANTS
    DeletionNotLost
    StatusCaughtUp
PROPERTIES
    ReturnEnds
    StatusSettles
    DeletionRecorded
\* The system stops when nobody asks for anything and everything is handled.
CHECK_DEADLOCK FALSE
