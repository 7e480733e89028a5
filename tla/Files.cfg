SPECIFICATION Spec
CONSTANTS
    Names <- MCNames
    f1 = f1
    f2 = f2
    n1 = n1
    n2 = n2
    i1 = i1
    i2 = i2
    Files <- MCFiles
    Inodes <- MCInodes
    Chars <- MCChars
    Written <- MCWritten
    Rooms = {2, 3}
    MaxText = 3
    MaxSources = 2
    Obligations = {"room_for_a_character", "no_nul", "flushed", "own_codes_caught", "plain_files", "written_alone", "source_left_open"}
    None = None
INVARIANTS LinesWhole WritesKept SourceNamesText
CONSTRAINT Bounded
SYMMETRY Alike
CHECK_DEADLOCK FALSE
