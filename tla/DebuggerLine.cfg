CONSTANTS
    Words <- TwoWords
    Body <- TwoBodies
    MaxReturn = 4
    MaxData = 1
    MaxFrames = 2
    Obligations = {"over_returns", "not_into_debug_xt", "word_for_debug_xt"}
SPECIFICATION LineSpec
INVARIANT LinePreserved
CHECK_DEADLOCK FALSE
