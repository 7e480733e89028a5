---------------------------- MODULE MCCompile ------------------------------
(* Families of words that work on the same marks or the same frames.        *)
EXTENDS FiclCompileProofs

MCFamilies ==
    {{"if", "else", "then", "exit", "plain"},
     {"if", "then", "begin", "until", "while", "repeat", "again"},
     {"do", "?do", "loop", "+loop", "leave", "unloop exit"},
     {"do", "loop", "leave", "if", "then"},
     {"do", "loop", "i", "recurse", "exit"},
     {"case", "of", "endof", "fallthrough", "endcase"},
     {"local", "2local", "endlocals", "get"},
     {"2local", "endlocals", "get", "to"},
     {"flocal", "endlocals", "get"},
     {"local", "endlocals", "do", "loop", "exit"},
     {"local", "endlocals", "get", "does>"},
     {"local", "endlocals", "?do", "loop", "recurse"},
     {"literal", "sliteral"},
     {"2literal", "sliteral", "if", "then"}}
============================================================================
