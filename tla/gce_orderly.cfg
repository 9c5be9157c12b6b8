\* A quiet day: events in order, nobody in the console; the daemon or the host may go
\* down once, or one acknowledgement may be lost.
SPECIFICATION FairSpec
CONSTANTS
    m1 = m1  m2 = m2  r1 = r1  r2 = r2  q1 = q1  q2 = q2  g1 = g1  g2 = g2
    w1 = w1  w2 = w2  w3 = w3
    NoId = NoId
    Machines <- TwoMachines
    Requests <- OneRequest
    Returns <- OneReturn
    Groups <- OneGroup
    Reclaimable <- None
    AutoTrim = TRUE
    Orderly = TRUE
    Workers <- TwoWorkers
    MaxCrashes = 1
    MaxLostAcks = 1
CONSTRAINT OneIncident
INVARIANTS
    NothingMissed
    AddressAwaited
PROPERTIES
    EventsDrained
    RunningReported
    ReturnCompletes
    QuietDayForward
\* The system stops when nobody asks for anything and every event is handled.
CHECK_DEADLOCK FALSE
