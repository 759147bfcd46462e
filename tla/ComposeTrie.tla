---------------------------- MODULE ComposeTrie ----------------------------
(***************************************************************************)
(* The compose table (struct xkb_compose, compose.h) and the trie builder *)
(* add_production (parser.c).  The trie is the flat array compose->tree   *)
(* of struct node, indexed from 0; node 0 is the root.  compose->utf8 is  *)
(* the blob of NUL-terminated strings; offset 0 holds the sentinel NUL.   *)
(*                                                                         *)
(* A string is one model value and takes one cell of the blob, followed  *)
(* by a NUL cell, so offsets keep their arithmetic (darray_size) while    *)
(* the bytes of a string are abstracted away.                             *)
(***************************************************************************)
EXTENDS Naturals, Sequences, SequencesExt

CONSTANTS
    NoSymbol,       \* XKB_KEY_NoSymbol (0)
    NoString,       \* production.has_string = false
    NUL,            \* the '\0' byte of the utf8 blob
    Keysyms,        \* keysyms the lexer returns: never NoSymbol
    Strings,        \* non-empty right-hand-side strings
    RhsKeysyms,     \* keysyms that appear on right-hand sides
    MaxLhsLen,      \* MAX_LHS_LEN (parser.c:33)
    MaxProductions  \* bound: number of add_production calls explored

ASSUME NoSymbol \notin Keysyms /\ RhsKeysyms \subseteq Keysyms /\ NUL \notin Strings /\ NoString \notin Strings

VARIABLES
    tree,           \* compose->tree : [0..n-1 -> node]
    utf8,           \* compose->utf8 : [0..m-1 -> Strings \cup {NUL}]
    nprod           \* add_production calls so far (bound only)

trie_vars == <<tree, utf8, nprod>>

Node == [keysym : Keysyms \cup {NoSymbol}, next : Nat, successor : Nat,
         utf8 : Nat, ks : Keysyms \cup {NoSymbol}]

(* One production as the parser hands it to add_production: a non-empty  *)
(* lhs of at most MAX_LHS_LEN keysyms and at least one of string/keysym   *)
(* (parse() checks both before calling, parser.c:475-515).               *)
Productions ==
    {p \in [lhs : BoundedSeq(Keysyms, MaxLhsLen),
            string : Strings \cup {NoString},
            keysym : RhsKeysyms \cup {NoSymbol}] :
        p.lhs # <<>> /\ (p.string # NoString \/ p.keysym # NoSymbol)}

Size(f) == Cardinality(DOMAIN f)

(* Appending to a darray indexed from 0. *)
Push(f, x) == [i \in 0..Size(f) |-> IF i < Size(f) THEN f[i] ELSE x]

(* add_node: append a fresh node carrying keysym k. *)
add_node(t, k) ==
    Push(t, [keysym |-> k, next |-> 0, successor |-> 0, utf8 |-> 0, ks |-> NoSymbol])

(* The sibling search of add_production for one lhs position: follow next *)
(* from curr until a node with keysym k, appending one at the end of the  *)
(* chain if there is none.  Returns the tree and the matching index.      *)
RECURSIVE FindSibling(_, _, _)
FindSibling(t, curr, k) ==
    IF t[curr].keysym = k THEN [tree |-> t, curr |-> curr]
    ELSE IF t[curr].next # 0 THEN FindSibling(t, t[curr].next, k)
    ELSE [tree |-> [add_node(t, k) EXCEPT ![curr].next = Size(t)],
          curr |-> Size(t)]

(* Mutant: a successor is allocated even when the node already has one. *)
Descend_always_new(t, curr, k) ==
    LET cleared == [t EXCEPT ![curr].utf8 = 0, ![curr].ks = NoSymbol]
    IN [tree |-> [add_node(cleared, k) EXCEPT ![curr].successor = Size(t)],
        curr |-> Size(t)]

(* Moving from position i to i+1: a node without successor loses its      *)
(* leaf value ("a sequence already exists which is a prefix of this       *)
(* sequence; overriding") and gets a successor seeded with keysym k.      *)
Descend(t, curr, k) ==
    IF t[curr].successor # 0
    THEN [tree |-> t, curr |-> t[curr].successor]
    ELSE LET cleared == [t EXCEPT ![curr].utf8 = 0, ![curr].ks = NoSymbol]
         IN [tree |-> [add_node(cleared, k) EXCEPT ![curr].successor = Size(t)],
             curr |-> Size(t)]

(* The for-loop of add_production over lhs positions pos..Len(lhs). *)
RECURSIVE Walk(_, _, _, _)
Walk(t, curr, lhs, pos) ==
    LET found == FindSibling(t, curr, lhs[pos]) IN
    IF pos = Len(lhs) THEN found
    ELSE LET d == Descend(found.tree, found.curr, lhs[pos + 1])
         IN Walk(d.tree, d.curr, lhs, pos + 1)

IsLeaf(n) == n.utf8 # 0 \/ n.ks # NoSymbol

(* Mutant: no "prefix of another" check; the result lands on an internal node. *)
add_production_no_prefix_check(t, blob, p) ==
    LET w == Walk(t, 0, p.lhs, 1) IN
    IF IsLeaf(w.tree[w.curr]) THEN [tree |-> w.tree, utf8 |-> blob]
    ELSE [tree |-> [w.tree EXCEPT
                      ![w.curr].utf8 = IF p.string # NoString THEN Size(blob) ELSE 0,
                      ![w.curr].ks   = p.keysym],
          utf8 |-> IF p.string # NoString THEN Push(Push(blob, p.string), NUL) ELSE blob]

(* Mutant: the keysym is stored only inside the has_string branch. *)
add_production_keysym_with_string(t, blob, p) ==
    LET w == Walk(t, 0, p.lhs, 1) IN
    IF w.tree[w.curr].successor # 0 \/ IsLeaf(w.tree[w.curr])
    THEN [tree |-> w.tree, utf8 |-> blob]
    ELSE IF p.string = NoString THEN [tree |-> w.tree, utf8 |-> blob]
    ELSE [tree |-> [w.tree EXCEPT ![w.curr].utf8 = Size(blob), ![w.curr].ks = p.keysym],
          utf8 |-> Push(Push(blob, p.string), NUL)]

(* Mutant: the string is appended to the blob even without has_string. *)
add_production_append_always(t, blob, p) ==
    LET w == Walk(t, 0, p.lhs, 1) IN
    IF w.tree[w.curr].successor # 0 \/ IsLeaf(w.tree[w.curr])
    THEN [tree |-> w.tree, utf8 |-> blob]
    ELSE [tree |-> [w.tree EXCEPT
                      ![w.curr].utf8 = IF p.string # NoString THEN Size(blob) ELSE 0,
                      ![w.curr].ks   = p.keysym],
          utf8 |-> Push(Push(blob, p.string), NUL)]

(* Mutant: "the compose sequence already exists" no longer skips the line. *)
add_production_overwrite(t, blob, p) ==
    LET w == Walk(t, 0, p.lhs, 1) IN
    IF w.tree[w.curr].successor # 0 THEN [tree |-> w.tree, utf8 |-> blob]
    ELSE [tree |-> [w.tree EXCEPT
                      ![w.curr].utf8 = IF p.string # NoString THEN Size(blob) ELSE 0,
                      ![w.curr].ks   = p.keysym],
          utf8 |-> IF p.string # NoString THEN Push(Push(blob, p.string), NUL) ELSE blob]

(* add_production: walk/extend the trie along lhs, then store the result *)
(* at the last node unless it is internal ("prefix of another") or       *)
(* already a leaf ("already exists").  The string is appended to the     *)
(* blob with its NUL and the node records its offset.                     *)
add_production(t, blob, p) ==
    LET w    == Walk(t, 0, p.lhs, 1)
        node == w.tree[w.curr]
    IN IF node.successor # 0 \/ IsLeaf(node)
       THEN [tree |-> w.tree, utf8 |-> blob]
       ELSE [tree |-> [w.tree EXCEPT
                         ![w.curr].utf8 = IF p.string # NoString THEN Size(blob) ELSE 0,
                         ![w.curr].ks   = p.keysym],
             utf8 |-> IF p.string # NoString
                      THEN Push(Push(blob, p.string), NUL) ELSE blob]

(* xkb_compose_new: the root node and the one-byte blob. *)
TrieInit ==
    /\ tree = [i \in {0} |-> [keysym |-> NoSymbol, next |-> 0, successor |-> 0,
                              utf8 |-> 0, ks |-> NoSymbol]]
    /\ utf8 = [i \in {0} |-> NUL]
    /\ nprod = 0

(* One accepted Compose line reaching add_production. *)
AddProduction(p) ==
    /\ nprod < MaxProductions
    /\ LET r == add_production(tree, utf8, p)
       IN tree' = r.tree /\ utf8' = r.utf8
    /\ nprod' = nprod + 1

-----------------------------------------------------------------------------
(* Reading the trie back.                                                   *)

(* The sibling chain starting at node i (0 = empty). *)
RECURSIVE Chain(_, _, _)
Chain(t, i, fuel) ==
    IF i = 0 \/ fuel = 0 THEN <<>> ELSE <<i>> \o Chain(t, t[i].next, fuel - 1)

(* Every node reachable from the chain at head, with its keysym path. *)
RECURSIVE Entries(_, _, _, _)
Entries(t, head, prefix, fuel) ==
    IF fuel = 0 THEN {}
    ELSE UNION {LET path == Append(prefix, t[n].keysym) IN
                  {[path |-> path, node |-> n]}
                  \cup Entries(t, t[n].successor, path, fuel - 1)
                : n \in Range(Chain(t, head, Size(t)))}

(* The first level of sequences hangs off the root's next link: feed()   *)
(* starts its search at the root itself (state.c:147-153).               *)
TrieEntries(t) == Entries(t, t[0].next, <<>>, Size(t))

Reachable(t) == {0} \cup {e.node : e \in TrieEntries(t)}

(* The map from sequences to results that the trie represents. *)
Lookup(t, blob) ==
    LET E == {e \in TrieEntries(t) : IsLeaf(t[e.node])}
        Res(n) == [string |-> IF t[n].utf8 # 0 THEN blob[t[n].utf8] ELSE NoString,
                   keysym |-> t[n].ks]
    IN [s \in {e.path : e \in E} |-> Res((CHOOSE e \in E : e.path = s).node)]

TrieNext == \E p \in Productions : AddProduction(p)

TrieSpec == TrieInit /\ [][TrieNext]_trie_vars

-----------------------------------------------------------------------------
(* Properties of the built table.                                           *)

TypeOK ==
    /\ tree \in [0..(Size(tree) - 1) -> Node]
    /\ utf8 \in [0..(Size(utf8) - 1) -> Strings \cup {NUL}]
    /\ nprod \in 0..MaxProductions

(* The table invariants of the data model, for the trie add_production    *)
(* builds through any order of lines, overrides and skips: the root keeps *)
(* NoSymbol and the blob its sentinel NUL, every link is a valid index,   *)
(* the keysyms along each sibling chain are pairwise distinct (so the     *)
(* linear search of feed() finds the only match), an internal node never  *)
(* also carries a result, and a leaf's offset is the start of a string.   *)
TrieWellFormed ==
    /\ tree[0].keysym = NoSymbol /\ utf8[0] = NUL
    /\ \A i \in DOMAIN tree :
         /\ tree[i].next \in DOMAIN tree /\ tree[i].successor \in DOMAIN tree
         /\ tree[i].successor # 0 => ~IsLeaf(tree[i])
         /\ tree[i].utf8 # 0 => /\ tree[i].utf8 \in DOMAIN utf8
                                /\ utf8[tree[i].utf8] \in Strings
                                /\ utf8[tree[i].utf8 - 1] = NUL
    /\ \A h \in {tree[0].next} \cup {tree[i].successor : i \in DOMAIN tree} :
         LET c == Chain(tree, h, Size(tree))
         IN Cardinality({tree[c[j]].keysym : j \in DOMAIN c}) = Len(c)

(* Every sequence that can be typed into the trie ends somewhere: each     *)
(* reachable node other than the root either continues (successor) or     *)
(* carries a string or keysym, so a COMPOSED status always has a result,  *)
(* even after prefix overrides cleared a leaf.                            *)
NoDeadEnd ==
    \A i \in Reachable(tree) \ {0} : tree[i].successor # 0 \/ IsLeaf(tree[i])

(* Skipped and overriding lines never leave a node in the array that no   *)
(* sequence reaches: every allocated node is on some path from the root.  *)
NoOrphanNodes == Reachable(tree) = DOMAIN tree
=============================================================================
