CONSTANTS
    Unset = Unset
    NULL = NULL
    Skipped = Skipped
    NotOpened = NotOpened
    NoSymbol = NoSymbol

SPECIFICATION Spec

\* The lexed literal or include line is finished: nothing further happens.
CHECK_DEADLOCK FALSE

INVARIANTS
    TypeOK
    LineSync
    LexesAsGrammar
    IncludeAsSpecified
    LocalePathFreed

PROPERTIES
    Terminates
