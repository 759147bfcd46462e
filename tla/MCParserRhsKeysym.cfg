CONSTANTS
    main = main
    sub = sub
    missing = missing
    a = a
    s1 = s1
    Files <- MCFiles
    Root = main
    Missing = missing
    IncludeTargets <- MCNoIncludeTargets
    Keysyms = {a}
    Strings = {s1}
    Empty = Empty
    TooLong = TooLong
    NoString = NoString
    NoSymbol = NoSymbol
    NoVal = NoVal
    MaxLhsLen = 1
    MaxErrors = 1
    MaxIncludeDepth = 1
    MaxFileTokens = 5
    MaxFrames = 3
    RhsKeysymEndsLine = FALSE
\* parse() returns: compilation ends, nothing further happens.
CHECK_DEADLOCK FALSE
SPECIFICATION Spec
INVARIANT
    ParsesAsSpecified
