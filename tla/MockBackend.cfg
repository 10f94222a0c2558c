\* A pub/sub area whose Close has met an open subscription stops.
SPECIFICATION BackendSpec
CONSTANTS
    NumKeys = 2
    Counters = {0, 1}
    Commands <- MCCommands
    Programs <- MCPrograms
    PageSize = 1
    Injectable = {"Scan"}
    Missing = Missing
    Refused = Refused
    a = a
    b = b
    Items = {a, b}
    ItemLists <- MCItemLists
    SetKeys = {"p", "q"}
    Scores = {1, 2}
    MaxLen = 3
    MaxRoom = 2
    Groups = {"g", "h"}
    MaxEntries = 3
    Subs = {"s", "t"}
    Channels = {"x", "y"}
    ChannelLists <- MCChannelLists
    Payloads = {1, 2}
    BufferSize = 2
CHECK_DEADLOCK FALSE
INVARIANTS
    MockTypeOK
    ScanShowsWhatStayed
    PopsAreKept
    NothingSkipped
    GivenOnce
    SubscribersGetAll
PROPERTIES
    KeepsKVContract
    CountsAddUp
    CloseReturnsUnsubscribed
