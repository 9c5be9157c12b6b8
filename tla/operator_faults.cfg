\* One machine and its return; one call fails, or the process ends, anywhere, or the
\* end of the spot node competes with the return.
SPECIFICATION Spec
CONSTANTS
    c1 = c1  p1 = p1  q1 = q1
    NoId = NoId  System = System  Preempted = Preempted
    Crs <- OneCr
    Pods <- OnePod
    Owner <- OwnedByOne
    Returns <- OneReturn
    Evictable <- None
    Failing <- None
    Spot <- OnePod
    KeyLabel = TRUE
    BatchSize = 2
    MaxCrashes = 1
    MaxFaults = 1
CONSTRAINT OneIncident
INVARIANTS
    TypeOK
    Attributed
    OperatorInv
    CompleteReturnTrue
    CompletedTrue
    NothingToCollect
    CompleteMeansAll
PROPERTIES
    EntriesStay
    LifeSpec
\* The system stops when nobody asks for anything and everything is handled.
CHECK_DEADLOCK FALSE
