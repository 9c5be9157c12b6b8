\* Every event arrives once, but in any order.
SPECIFICATION FairSpec
CONSTANTS
    m1 = m1  m2 = m2  r1 = r1  r2 = r2  q1 = q1  q2 = q2  g1 = g1  g2 = g2
    w1 = w1  w2 = w2  w3 = w3
    NoId = NoId
    Machines <- OneMachine
    Requests <- OneRequest
    Returns <- OneReturn
    Groups <- OneGroup
    Reclaimable <- None
    AutoTrim = FALSE
    Orderly = FALSE
    Workers <- TwoWorkers
    MaxCrashes = 0
    MaxLostAcks = 0
PROPERTIES
    RunningReported
\* The system stops when nobody asks for anything and every event is handled.
CHECK_DEADLOCK FALSE
