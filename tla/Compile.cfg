CONSTANTS
    Families <- MCFamilies
    MaxWords = 6
    MaxReturns = 7
    MaxLocals = 3
    CountBytes = 4
    StringLengths = {0, 3, 4}
    Obligations = {"while_after_begin", "locals_outside", "locals_ended", "named_after_error",
                   "does_outside", "inside_loop", "short_strings"}
SPECIFICATION Spec
INVARIANTS BranchesFollowStructure IpOnInstruction ReturnStackSound
PROPERTIES OptimizeKeepsMeaning
CHECK_DEADLOCK FALSE
