SPECIFICATION Spec
CONSTANTS
    Bits = 5
    IntBits = 4
    CountBits = 3
    MaxText = 3
    Texts <- MCTexts
    Delims <- MCDelims
    Bases = {2, 3, 10, 16}
    Doubles <- MCDoubles
    Formats <- MCFormats
    Lengths = {0, 1, 5, 6}
    Room = 12
    MaxHeld = 2
    MaxPieces = 3
    Obligations = {"short_tokens", "short_strings", "fresh_strings", "wide_fields"}
INVARIANTS LinesRead NumbersRead StringsKept OutputExact
CHECK_DEADLOCK FALSE
