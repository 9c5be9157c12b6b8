\* Orderly, but a machine may be preempted.
SPECIFICATION FairSpec
CONSTANTS
    m1 = m1  m2 = m2  r1 = r1  r2 = r2  q1 = q1  q2 = q2  g1 = g1  g2 = g2
    w1 = w1  w2 = w2  w3 = w3
    NoId = NoId
    Machines <- OneMachine
    Requests <- OneRequest
    Returns <- OneReturn
    Groups <- OneGroup
    Reclaimable <- OneMachine
    AutoTrim = FALSE
    Orderly = TRUE
    Workers <- TwoWorkers
    MaxCrashes = 0
    MaxLostAcks = 0
PROPERTIES
    PreemptionsRecorded
\* The system stops when nobody asks for anything and every event is handled.
CHECK_DEADLOCK FALSE
