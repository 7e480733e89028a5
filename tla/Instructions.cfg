CONSTANTS
    Bits = 2
    IntBits = 2
    Wild = Wild
    DataSize = 6
    ReturnSize = 7
    Narrow = 1
    Addresses = {0, 1}
    FloatOf <- MCFloatOf
    CellOf <- MCCellOf
    Rounded <- MCRounded
    FloatResult <- MCFloatResult
    FloatLess <- MCFloatLess
    FloatEqual <- MCFloatEqual
    Truncated <- MCTruncated
    Obligations = {"dup_of_something", "pick_above_n", "loop_words_fit"}
SPECIFICATION MCSpec
INVARIANTS StackComments ChecksRight PhrasesAgree MultiplicationExact DivisionExact
CONSTRAINT Small
