CONSTANTS
    Unset = Unset
    NULL = NULL
    Skipped = Skipped
    NotOpened = NotOpened
    NoSymbol = NoSymbol

SPECIFICATION Spec

\* A stuck keysym loop repeats one state; the check is the liveness property.
CHECK_DEADLOCK FALSE

PROPERTIES
    LexReachesEof
