CONSTANTS
    Words <- TwoWords
    Body <- TwoBodies
    MaxReturn = 4
    MaxData = 1
    MaxFrames = 2
    Obligations = {"over_returns", "not_into_debug_xt", "word_for_debug_xt"}
SPECIFICATION Spec
INVARIANT CodeRecoverable
PROPERTY FollowsProgram
CHECK_DEADLOCK FALSE
CONSTRAINT Bounded
