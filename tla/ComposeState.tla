---------------------------- MODULE ComposeState ---------------------------
(***************************************************************************)
(* A compose table built by add_production, then one compose state        *)
(* (struct xkb_compose_state, state.c) walking it.  The table is built    *)
(* entirely inside xkb_compose_new_from_*, before any state exists, so    *)
(* phase "build" (parsing) precedes phase "run" (feeding keysyms).        *)
(***************************************************************************)
EXTENDS ComposeTrie

CONSTANTS
    Modifiers,      \* keysyms for which xkb_keysym_is_modifier() holds
    KeysymUtf8,     \* xkb_keysym_to_utf8 on Keysyms (NoString = "")
    Inputs          \* keysyms an application may feed

VARIABLES
    phase,          \* "build" while parse() runs, then "run"
    prev_context,   \* state->prev_context
    context         \* state->context

vars == <<tree, utf8, nprod, phase, prev_context, context>>

(* The search loop of xkb_compose_state_feed: from node i along next      *)
(* until the keysym matches or the chain ends.                            *)
RECURSIVE Search(_, _)
Search(i, k) ==
    IF tree[i].keysym = k \/ tree[i].next = 0 THEN i ELSE Search(tree[i].next, k)

Init ==
    /\ TrieInit
    /\ phase = "build"
    /\ prev_context = 0
    /\ context = 0

Build(p) ==
    /\ phase = "build"
    /\ AddProduction(p)
    /\ UNCHANGED <<phase, prev_context, context>>

(* parse() returned true and xkb_compose_state_new set both contexts to 0. *)
StateNew ==
    /\ phase = "build"
    /\ phase' = "run"
    /\ prev_context' = 0
    /\ context' = 0
    /\ UNCHANGED trie_vars

(* xkb_compose_state_feed: modifiers are dropped ("FIXME: dubious");      *)
(* otherwise search the children of context, or the first level when      *)
(* context has none, and fall back to 0 when nothing matches.            *)
Feed(k) ==
    /\ phase = "run"
    /\ IF k \in Modifiers
       THEN UNCHANGED <<prev_context, context>>
       ELSE LET found == Search(tree[context].successor, k)
            IN /\ prev_context' = context
               /\ context' = IF tree[found].keysym = k THEN found ELSE 0
    /\ UNCHANGED <<trie_vars, phase>>

Reset ==
    /\ phase = "run"
    /\ prev_context' = 0
    /\ context' = 0
    /\ UNCHANGED <<trie_vars, phase>>

Next ==
    \/ \E p \in Productions : Build(p)
    \/ StateNew
    \/ \E k \in Inputs : Feed(k)
    \/ Reset

Spec == Init /\ [][Next]_vars

(* Mutant: the NOTHING test comes before the CANCELLED test. *)
Status_nothing_first ==
    IF context = 0 THEN "NOTHING"
    ELSE IF tree[context].successor # 0 THEN "COMPOSING" ELSE "COMPOSED"

(* xkb_compose_state_get_status. *)
Status ==
    IF context = 0 /\ tree[prev_context].successor # 0 THEN "CANCELLED"
    ELSE IF context = 0 THEN "NOTHING"
    ELSE IF tree[context].successor # 0 THEN "COMPOSING"
    ELSE "COMPOSED"

(* xkb_compose_state_get_utf8: a keysym-only leaf is converted with       *)
(* xkb_keysym_to_utf8, anything else copies the blob at the offset.       *)
GetUtf8 ==
    LET n == tree[context] IN
    IF n.utf8 = 0 /\ n.ks # NoSymbol THEN KeysymUtf8[n.ks]
    ELSE IF utf8[n.utf8] = NUL THEN NoString ELSE utf8[n.utf8]

(* xkb_compose_state_get_one_sym. *)
GetOneSym == tree[context].ks

-----------------------------------------------------------------------------
(* Refinement: the trie and the walker implement ComposeSpec.               *)

(* The keysyms typed to reach a node; a node no path reaches maps to a    *)
(* sequence no table contains.                                            *)
PathOf(n) ==
    IF n = 0 THEN <<>>
    ELSE IF \E e \in TrieEntries(tree) : e.node = n
         THEN (CHOOSE e \in TrieEntries(tree) : e.node = n).path
         ELSE <<NoSymbol>>

A == INSTANCE ComposeSpec
        WITH table <- Lookup(tree, utf8),
             pending <- PathOf(context),
             cancelled <- (context = 0 /\ tree[prev_context].successor # 0)

(* Every step of parsing and of feeding, seen through the trie, is a step *)
(* of the abstract table and walker: add_production implements the       *)
(* override/skip rules on sequences, and feed's index walk (restart at    *)
(* the first level after a leaf, fall back to 0, remember prev_context)   *)
(* tracks the typed sequence.                                             *)
ImplementsComposeSpec == A!Spec

(* What get_status, get_utf8 and get_one_sym report, computed from the    *)
(* two node indices, is what the abstract walker says of the typed        *)
(* sequence: the status, the production's string (or its keysym's text)   *)
(* and keysym when complete, and nothing otherwise.                       *)
ResultsMatch ==
    phase = "run" =>
        /\ Status = A!Status
        /\ GetUtf8 = A!Utf8
        /\ GetOneSym = A!OneSym
=============================================================================
