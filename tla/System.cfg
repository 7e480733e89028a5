CONSTANTS
    Systems = {s1, s2}
    VMs = {v1, v2}
    Channels = {c1}
    Lists = {w1}
    None = None
    Threaded = {s1}
    MaxLists = 1
    MaxCells = 2
    MaxNested = 5
    Obligations = {"lookup_with_locals", "order_fits", "order_still", "one_session",
                   "idle_destroyed", "first_system_last"}
SPECIFICATION FairSpec
INVARIANTS LockMatches DictionaryShared NothingOutlives
PROPERTIES EveryoneGetsIn
CHECK_DEADLOCK FALSE
