\* Every call may be over at the bound of the clock, so the system may stop.
SPECIFICATION FairSpec
CONSTANTS
    Lockers = {p1, p2}
    NumNodes = 2
    Retries = 2
    TTL = 30000
    SetMS = 30
    ExtendTTLs = {30000}
    NodeDrift <- RetriesDrift
    Ticks = {27700}
    MaxTime = 27700
    NoOne = NoOne
CHECK_DEADLOCK FALSE
INVARIANTS
    RollbackLeavesNothing
PROPERTIES
    CallsReturn
