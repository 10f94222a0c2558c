\* Every call may be over at the bound of the clock, so the system may stop.
SPECIFICATION Spec
CONSTANTS
    Lockers = {p1, p2}
    NumNodes = 3
    Retries = 1
    TTL = 1001000
    SetMS = 1000
    ExtendTTLs = {1001000, 501000}
    NodeDrift <- SafetyDrift
    Ticks = {494495}
    MaxTime = 988990
    NoOne = NoOne
SYMMETRY LockerSymmetry
CHECK_DEADLOCK FALSE
INVARIANTS
    TypeOK
    MutualExclusion
PROPERTIES
    OnlyOwnerFrees
    ExtendRenews
