\* One machine and its return, one update at a time.
SPECIFICATION FairSpec
CONSTANTS
    c1 = c1  p1 = p1  q1 = q1
    NoId = NoId  System = System  Preempted = Preempted
    Crs <- OneCr
    Pods <- OnePod
    Owner <- OwnedByOne
    Returns <- OneReturn
    Evictable <- None
    Failing <- None
    Spot <- None
    KeyLabel = FALSE
    BatchSize = 1
    MaxCrashes = 0
    MaxFaults = 0
PROPERTIES
    CompletedAtLast
\* The system stops when nobody asks for anything and everything is handled.
CHECK_DEADLOCK FALSE
