CONSTANTS
    Size = 6
    CellSize = 2
    NameLength = 2
    NameLengths = {1, 3}
    Values = {"a", "b"}
    Data = {"d"}
    MaxWords = 3
    Obligations = {"room", "two_cells", "whole_cells", "own_allot", "has_cell", "does_after_create"}
SPECIFICATION Spec
INVARIANTS TypeOK WordsWhole StoredKept
CHECK_DEADLOCK FALSE
