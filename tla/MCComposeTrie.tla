--------------------------- MODULE MCComposeTrie ---------------------------
EXTENDS ComposeTrie

CONSTANTS a, b, s1, s2
MCKeysyms == {a, b}
MCStrings == {s1, s2}
=============================================================================
