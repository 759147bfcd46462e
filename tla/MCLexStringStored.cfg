CONSTANTS
    Alphabet <- MCAlphabet
    MaxInput = 5
    Skipped = Skipped

SPECIFICATION Spec

\* lex() returns and rhs stores or skips: the literal is done.
CHECK_DEADLOCK FALSE

INVARIANT StoredAsLexed
