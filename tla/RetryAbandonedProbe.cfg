\* One call has a context that can end during its backoff; callers keep asking.
SPECIFICATION DemandSpec
CONSTANTS
    Calls = {c1, c2}
    Cancellable = {c1}
    FailureThreshold = 2
    HalfOpenMaxRequests = 1
    MaxAttempts = 2
PROPERTIES
    HalfOpenSettles
