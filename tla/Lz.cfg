SPECIFICATION Spec
CONSTANTS
    OffsetBits = 2
    LengthBits = 2
    NextBits = 3
    Symbols = {1, 6}
    MaxText = 8
    Obligations = {"header_lengths"}
PROPERTY WholeText
CHECK_DEADLOCK FALSE
