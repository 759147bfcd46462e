---------------------------- MODULE ComposeSpec ----------------------------
(***************************************************************************)
(* What a compose table and a compose state promise, stated without the   *)
(* trie.  The table is a finite map from keysym sequences to results; a   *)
(* state remembers the keysyms typed so far in the current sequence.      *)
(*                                                                         *)
(*  - Add(p): the effect of one accepted Compose line on the map.  A line *)
(*    whose sequence is a strict prefix of an existing one, or that is    *)
(*    already present, changes nothing; otherwise every existing strict   *)
(*    prefix of it is dropped and the new entry is added.                 *)
(*  - Feed(k): modifiers are ignored; after a finished or failed sequence *)
(*    a new one starts; a key that leaves every sequence ends the current *)
(*    one, "cancelled" iff something was pending.                         *)
(***************************************************************************)
EXTENDS Naturals, Sequences, SequencesExt

CONSTANTS
    NoSymbol,       \* XKB_KEY_NoSymbol
    NoString,       \* "this production has no string"
    Modifiers,      \* keysyms for which xkb_keysym_is_modifier() holds
    KeysymUtf8,     \* xkb_keysym_to_utf8, as a function on keysyms
    Productions,    \* the Compose lines that may be added
    Inputs          \* the keysyms that may be fed

VARIABLES
    table,          \* [sequence -> [string, keysym]]
    pending,        \* keysyms of the current sequence (<<>> = none)
    cancelled       \* the last Feed abandoned a pending sequence

vars == <<table, pending, cancelled>>

\* Sequences that are a prefix of (or equal to) some entry of the table.
Live(t) == UNION {{SubSeq(s, 1, n) : n \in 1..Len(s)} : s \in DOMAIN t}

Composing == pending # <<>> /\ pending \notin DOMAIN table

Init ==
    /\ table = [s \in {} |-> NoString]
    /\ pending = <<>>
    /\ cancelled = FALSE

Add(p) ==
    /\ table' =
         IF \/ \E s \in DOMAIN table : IsStrictPrefix(p.lhs, s)
            \/ p.lhs \in DOMAIN table
         THEN table
         ELSE LET keep == {s \in DOMAIN table : ~IsStrictPrefix(s, p.lhs)}
              IN [s \in keep \cup {p.lhs} |->
                    IF s = p.lhs THEN [string |-> p.string, keysym |-> p.keysym]
                                 ELSE table[s]]
    /\ UNCHANGED <<pending, cancelled>>

Feed(k) ==
    /\ k \notin Modifiers
    /\ UNCHANGED table
    /\ LET base == IF Composing THEN pending ELSE <<>>
           cand == Append(base, k)
       IN IF cand \in Live(table)
          THEN pending' = cand /\ cancelled' = FALSE
          ELSE pending' = <<>> /\ cancelled' = (base # <<>>)

Reset ==
    /\ pending' = <<>>
    /\ cancelled' = FALSE
    /\ UNCHANGED table

\* The four statuses of xkb_compose_state_get_status.
Status ==
    IF pending = <<>> THEN IF cancelled THEN "CANCELLED" ELSE "NOTHING"
    ELSE IF pending \in DOMAIN table THEN "COMPOSED" ELSE "COMPOSING"

\* The result of the finished sequence, or nothing.
OneSym == IF pending \in DOMAIN table THEN table[pending].keysym ELSE NoSymbol

Utf8 ==
    IF pending \notin DOMAIN table THEN NoString
    ELSE IF table[pending].string # NoString THEN table[pending].string
    ELSE IF table[pending].keysym # NoSymbol THEN KeysymUtf8[table[pending].keysym]
    ELSE NoString

Next ==
    \/ Reset
    \/ \E k \in Inputs : Feed(k)
    \/ \E p \in Productions : Add(p)

Spec == Init /\ [][Next]_vars
=============================================================================
