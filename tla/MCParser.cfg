CONSTANTS
    main = main
    sub = sub
    missing = missing
    a = a
    s1 = s1
    Empty = Empty
    TooLong = TooLong
    NoString = NoString
    NoSymbol = NoSymbol
    NoVal = NoVal

SPECIFICATION Spec

\* parse() returns: compilation ends, nothing further happens.
CHECK_DEADLOCK FALSE

INVARIANTS
    TypeOK
    ParsesAsSpecified
    IncludesReleased

PROPERTIES
    Terminates
