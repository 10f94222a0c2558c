\* Every part may come to its end.
SPECIFICATION ClientSpec
CONSTANTS
    DbKeys = {"x", "y"}
    Lists <- MCLists
    WatchLists = {{}, {"x"}}
    MaxAttempts = 2
    MaxResends = 1
    MaxWrites = 2
    Messages = {1, 2}
    OutputSize = 2
    SourceSize = 2
    BulkKeys = {"x", "y", "z"}
    KeyArguments <- MCKeyArguments
    BatchSizes = {0, 1, 2}
    DefaultBatch = 4
    Files <- MCFiles
    Environments <- MCEnvironments
    Overrides <- MCOverrides
    MaxSaves = 2
    Settings <- MCSettings
    Spreads <- MCSpreads
    MaxAttempt = 6
CHECK_DEADLOCK FALSE
INVARIANTS
    RunAsOftenAsBroken
    OutcomeTells
    ForwardsInOrder
    BulkAddsUp
    DeliveredIsFinal
    DelaysBounded
PROPERTIES
    ForwarderEnds
    WatchSettles
