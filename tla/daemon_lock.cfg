\* Three pids, launches side by side, a daemon killed anywhere.
SPECIFICATION FairSpec
CONSTANTS
    Pids = {a, b, c}
    NoFile = NoFile  Empty = Empty  Mixed = Mixed
    MaxKills = 1
INVARIANTS
    TypeOK
    LockHeld
    LockInv
PROPERTIES
    ListenerReturns
