SPECIFICATION GaugeSpec
CONSTANTS
    Calls = {c1, c2}
    Cancellable = {c1, c2}
    FailureThreshold = 1
    HalfOpenMaxRequests = 1
    MaxAttempts = 2
    MaxNotifiers = 3
SYMMETRY CallSymmetry
INVARIANTS
    OneStateActive
