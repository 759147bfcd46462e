---------------------------- MODULE MCComposeRefs ---------------------------
EXTENDS ComposeRefs, TLC

CONSTANTS c1, c2, s1, s2

MCTables == {c1, c2}
MCStates == {s1, s2}

(* Tables and states are interchangeable model values. *)
MCSymmetry == Permutations(MCTables) \cup Permutations(MCStates)
=============================================================================
