\* One machine and an orderly stop.
SPECIFICATION FairSpec
CONSTANTS
    c1 = c1  p1 = p1  q1 = q1
    NoId = NoId  System = System  Preempted = Preempted
    Crs <- OneCr
    Pods <- OnePod
    Owner <- OwnedByOne
    Returns <- None
    Evictable <- None
    Failing <- None
    Spot <- None
    KeyLabel = FALSE
    BatchSize = 1
    MaxCrashes = 1
    MaxFaults = 0
PROPERTIES
    StopEnds
\* The system stops when nobody asks for anything and everything is handled.
CHECK_DEADLOCK FALSE
