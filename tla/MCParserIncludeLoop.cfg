CONSTANTS
    main = main
    sub = sub
    missing = missing
    a = a
    s1 = s1
    Files <- MCLoopFiles
    Root = main
    Missing = missing
    IncludeTargets <- MCLoopTargets
    Keysyms = {a}
    Strings = {s1}
    Empty = Empty
    TooLong = TooLong
    NoString = NoString
    NoSymbol = NoSymbol
    NoVal = NoVal
    MaxLhsLen = 1
    MaxErrors = 1
    MaxIncludeDepth = 1
    MaxFileTokens = 3
    MaxFrames = 3
    RhsKeysymEndsLine = TRUE
\* parse() returns: compilation ends, nothing further happens.
CHECK_DEADLOCK FALSE
SPECIFICATION Spec
INVARIANT
    IncludeDepthBounded
