SPECIFICATION GaugeSpec
CONSTANTS
    Calls = {c1, c2}
    Cancellable = {}
    FailureThreshold = 2
    HalfOpenMaxRequests = 1
    MaxAttempts = 2
    MaxNotifiers = 3
SYMMETRY CallSymmetry
INVARIANTS
    MetricShowsState
