SPECIFICATION SpecR
CONSTANTS
    dup = dup
    swap = swap
    none = none
    Names <- MCNames
    NoName = none
    Resident = dup
    HashCode <- MCHash
    MaxBuckets = 2
    MaxWordlists = 2
    OrderBound = 2
    TagBound = 1
    Markers = {swap}
    ListBound = 2
    Size = 4
    Obligations <- AllRules
INVARIANTS
    TypeOK
    WellLinked
    OneHome
    LookupKeepsPromise
PROPERTIES
    ExitsKeepFinished
    KeepsPromise
    MarkerRestores
CONSTRAINT ShortSaved
CHECK_DEADLOCK FALSE
