\* Every call may be over at the bound of the clock, so the system may stop.
SPECIFICATION Spec
CONSTANTS
    Lockers = {p1, p2}
    NumNodes = 3
    Retries = 1
    TTL = 30000
    SetMS = 30
    ExtendTTLs = {30000}
    NodeDrift <- NoDrift
    Ticks = {1000}
    MaxTime = 1000
    NoOne = NoOne
CHECK_DEADLOCK FALSE
INVARIANTS
    NotOwnerIsTrue
