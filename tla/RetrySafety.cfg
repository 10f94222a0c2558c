\* Any context may end at any time.
SPECIFICATION FairSpec
CONSTANTS
    Calls = {c1, c2, c3}
    Cancellable = {c1, c2, c3}
    FailureThreshold = 2
    HalfOpenMaxRequests = 2
    MaxAttempts = 2
INVARIANTS
    TypeOK
    ClosedBelowThreshold
    SlotAccounting
    WedgedOnlyByAbandonment
    TrippedForCause
PROPERTIES
    OpenHoldsUntilTimeout
    CallsReturn
    SettlesUnlessAbandoned
    OpenIsRetried
