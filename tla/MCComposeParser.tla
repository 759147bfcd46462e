-------------------------- MODULE MCComposeParser --------------------------
EXTENDS ComposeParser

CONSTANTS main, sub, missing, a, s1
MCFiles == {main, sub}
\* main may include sub or a path that does not open; sub includes nothing
\* that opens, so the include graph has no cycle.
MCIncludeTargets == [f \in MCFiles |-> IF f = main THEN {sub, missing} ELSE {missing}]
\* main includes itself: an include loop.
\* includes that never open
MCNoIncludeTargets == [f \in MCFiles |-> {missing}]
MCLoopFiles == {main}
MCLoopTargets == [f \in MCLoopFiles |-> {main}]
=============================================================================
