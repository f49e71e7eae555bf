SPECIFICATION Spec
CONSTANTS
    NULL = NULL
    Keys <- MCKeys
    Values <- MCValues
    First <- MCFirst
    Inserted <- MCInserted
    Deleted <- MCDeleted
    Hashers <- MCHashers
    Candidate = 4
    Smallest = 4
    MaxSize = 11
INVARIANTS
    hash_table_ok
    NothingLeaks
    NoAbort
    SizesAreRight
PROPERTIES
    ImplementsMap
    WalkPassesAll
