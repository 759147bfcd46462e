--------------------------- MODULE MCComposeState --------------------------
EXTENDS ComposeState

CONSTANTS a, b, shift, s1, s2
MCKeysyms == {a, b, shift}
MCModifiers == {shift}
MCRhsKeysyms == {a}
MCStrings == {s1, s2}
MCInputs == MCKeysyms \cup {NoSymbol}
\* The text of a keysym-only result: "a" coincides with a production string.
MCKeysymUtf8 == [k \in MCKeysyms |-> IF k = a THEN s1 ELSE NoString]
=============================================================================
