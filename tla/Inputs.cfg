SPECIFICATION Spec
CONSTANTS
    NULL = NULL
    CommandLines <- MCCommandLines
    Begins <- MCBegins
    WholeNumbers <- MCWholeNumbers
    ReservedNames <- MCReserved
    MaxPieces = 3
    MaxFew = 5
    Alphabet = {92, 120, 52, 102, 32, 45, 122}
    MaxLen = 6
INVARIANTS
    CLTypeOK
    MeansTheSame
    LeftInOrder
    ExpandsAlike
CHECK_DEADLOCK FALSE
