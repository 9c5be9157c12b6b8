\* One machine, two returns that race, and every fault the model has.
SPECIFICATION Spec
CONSTANTS
    m1 = m1  m2 = m2  r1 = r1  r2 = r2  q1 = q1  q2 = q2  g1 = g1  g2 = g2
    w1 = w1  w2 = w2  w3 = w3
    NoId = NoId
    Machines <- OneMachine
    Requests <- OneRequest
    Returns <- TwoReturns
    Groups <- OneGroup
    Reclaimable <- OneMachine
    AutoTrim = TRUE
    Orderly = FALSE
    Workers <- ThreeWorkers
    MaxCrashes = 1
    MaxLostAcks = 1
SYMMETRY Symmetry
INVARIANTS
    TypeOK
    DbBehindCloud
    ReturnedNeverOffered
    OfferedHasGrace
    CompleteIsTrue
    OrphansAreFailed
    WaitersBounded
PROPERTIES
    InstanceEventsNeverRegress
    TrimOnlyGone
    LifeSpec
\* The system stops when nobody asks for anything and every event is handled.
CHECK_DEADLOCK FALSE
