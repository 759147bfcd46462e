CONSTANTS
    NoSymbol = NoSymbol
    NoString = NoString
    NUL = NUL
    a = a
    b = b
    shift = shift
    s1 = s1
    s2 = s2
    Keysyms <- MCKeysyms
    Modifiers <- MCModifiers
    RhsKeysyms <- MCRhsKeysyms
    Strings <- MCStrings
    Inputs <- MCInputs
    KeysymUtf8 <- MCKeysymUtf8
    MaxLhsLen = 2
    MaxProductions = 2
SPECIFICATION Spec
INVARIANTS
    ResultsMatch
PROPERTIES
    ImplementsComposeSpec
