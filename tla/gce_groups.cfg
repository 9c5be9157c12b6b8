\* Two requests in one or two groups and a return that can fail between them.
SPECIFICATION Spec
CONSTANTS
    m1 = m1  m2 = m2  r1 = r1  r2 = r2  q1 = q1  q2 = q2  g1 = g1  g2 = g2
    w1 = w1  w2 = w2  w3 = w3
    NoId = NoId
    Machines <- TwoMachines
    Requests <- TwoRequests
    Returns <- OneReturn
    Groups <- TwoGroups
    Reclaimable <- None
    AutoTrim = FALSE
    Orderly = FALSE
    Workers <- OneWorker
    MaxCrashes = 0
    MaxLostAcks = 0
SYMMETRY Symmetry
INVARIANTS
    UnrecordedInOneGroup
    CloudInv
    GroupInv
    CompleteIsTrue
\* The system stops when nobody asks for anything and every event is handled.
CHECK_DEADLOCK FALSE
