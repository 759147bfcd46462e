CONSTANTS
    NoSymbol = NoSymbol
    NoString = NoString
    NUL = NUL
    a = a
    b = b
    s1 = s1
    s2 = s2
    Keysyms <- MCKeysyms
    Strings <- MCStrings
    RhsKeysyms <- MCKeysyms
    MaxLhsLen = 3
    MaxProductions = 3
\* Building stops when parse() returns: the bound on lines is the end of input.
CHECK_DEADLOCK FALSE
INIT TrieInit
NEXT TrieNext
INVARIANTS
    TypeOK
    TrieWellFormed
    NoDeadEnd
    NoOrphanNodes
