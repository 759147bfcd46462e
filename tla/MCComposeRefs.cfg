CONSTANTS
    c1 = c1
    c2 = c2
    s1 = s1
    s2 = s2
    NoTable = NoTable
    Tables <- MCTables
    States <- MCStates
    MaxRefs = 3

SPECIFICATION Spec
SYMMETRY MCSymmetry

\* Once every object is freed the application has nothing left to call.
CHECK_DEADLOCK FALSE

INVARIANTS
    TypeOK
    RefcountsExact
    LiveIffReferenced
