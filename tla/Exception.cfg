SPECIFICATION FairSpec
CONSTANTS
    foo = foo
    Definitions <- MCOne
    DataSize = 2
    ReturnSize = 4
    MaxFrames = 3
    Optimised = FALSE
    Obligations <- AllRules
INVARIANTS
    TextOfInnermost
    IpSound
    HostBalanced
    CompilingIsOpen
    RestartAtHost
PROPERTIES
    ThrowLands
    KeepsPromise
CHECK_DEADLOCK FALSE
