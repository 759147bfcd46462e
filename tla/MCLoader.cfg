CONSTANTS
    XComposeFile = XComposeFile
    HomeFile = HomeFile
    LocaleFile = LocaleFile
    NULL = NULL

SPECIFICATION Spec

\* The call returns: after "done" nothing more happens.
CHECK_DEADLOCK FALSE

INVARIANTS
    ReturnsAsDocumented
    FirstOpenWins
    ReleasedOnReturn
