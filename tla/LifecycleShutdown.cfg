\* A hook of c1 may issue the commands of c3; see CloseInHook for why the system
\* may then deadlock.
SPECIFICATION FairSpec
CONSTANTS
    c1 = c1
    c2 = c2
    c3 = c3
    c4 = c4
    Callers = {c1, c2, c3, c4}
    Closers = {k1, k2}
    MaxInflight = 2
    Nested = {c3}
    Parent <- OneHook
    NoOne = NoOne
CHECK_DEADLOCK FALSE
INVARIANTS
    TypeOK
    DrainedBeforeRelease
    SlotsAccounted
PROPERTIES
    KeepsContract
    CallsReturn
    CloseReturnsWithoutNesting
