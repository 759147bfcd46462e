----------------------------- MODULE ComposeRefs ----------------------------
(***************************************************************************)
(* Reference counting of compose tables (compose.c) and compose states    *)
(* (state.c).  A state holds one reference to its table, taken in         *)
(* xkb_compose_state_new and dropped when the state itself is freed.      *)
(* The application calls the public functions in any order, only on       *)
(* objects it holds a reference to (the API contract); chold and shold    *)
(* count the references it holds.                                         *)
(***************************************************************************)
EXTENDS Naturals, FiniteSets

CONSTANTS
    Tables,     \* struct xkb_compose objects
    States,     \* struct xkb_compose_state objects
    NoTable,    \* state->compose of a state not allocated yet
    MaxRefs     \* bound: largest refcnt explored

VARIABLES
    crefcnt,    \* compose->refcnt
    cstatus,    \* "unused" (not allocated yet), "live" or "freed"
    srefcnt,    \* state->refcnt
    sstatus,
    scompose,   \* state->compose
    chold,      \* references to each table the application holds
    shold       \* references to each state the application holds

vars == <<crefcnt, cstatus, srefcnt, sstatus, scompose, chold, shold>>

Status == {"unused", "live", "freed"}

Init ==
    /\ crefcnt = [c \in Tables |-> 0]
    /\ cstatus = [c \in Tables |-> "unused"]
    /\ srefcnt = [s \in States |-> 0]
    /\ sstatus = [s \in States |-> "unused"]
    /\ scompose = [s \in States |-> NoTable]
    /\ chold = [c \in Tables |-> 0]
    /\ shold = [s \in States |-> 0]

(* Mutant: the count is decremented but the table is never freed. *)
compose_unref_never_frees(c) ==
    /\ crefcnt' = [crefcnt EXCEPT ![c] = @ - 1]
    /\ UNCHANGED cstatus

(* xkb_compose_unref: "if (!compose || --compose->refcnt > 0) return;"   *)
(* then the locale, both arrays and the table are freed.                *)
compose_unref(c) ==
    /\ crefcnt' = [crefcnt EXCEPT ![c] = @ - 1]
    /\ cstatus' = IF crefcnt[c] - 1 > 0 THEN cstatus ELSE [cstatus EXCEPT ![c] = "freed"]

(* xkb_compose_new_from_* returning a table: xkb_compose_new set refcnt  *)
(* to 1 and parsing succeeded; the caller owns that reference.          *)
NewCompose(c) ==
    /\ cstatus[c] = "unused"
    /\ cstatus' = [cstatus EXCEPT ![c] = "live"]
    /\ crefcnt' = [crefcnt EXCEPT ![c] = 1]
    /\ chold' = [chold EXCEPT ![c] = 1]
    /\ UNCHANGED <<srefcnt, sstatus, scompose, shold>>

(* xkb_compose_new_from_* failing after xkb_compose_new: parse() returned *)
(* false and the table is released with xkb_compose_unref; NULL is       *)
(* returned and the application holds nothing.                           *)
NewComposeFails(c) ==
    /\ cstatus[c] = "unused"
    /\ crefcnt' = [crefcnt EXCEPT ![c] = 0]
    /\ cstatus' = [cstatus EXCEPT ![c] = "freed"]
    /\ UNCHANGED <<srefcnt, sstatus, scompose, chold, shold>>

(* xkb_compose_ref. *)
ComposeRef(c) ==
    /\ chold[c] > 0
    /\ crefcnt[c] < MaxRefs
    /\ crefcnt' = [crefcnt EXCEPT ![c] = @ + 1]
    /\ chold' = [chold EXCEPT ![c] = @ + 1]
    /\ UNCHANGED <<cstatus, srefcnt, sstatus, scompose, shold>>

(* xkb_compose_unref by the application. *)
ComposeUnref(c) ==
    /\ chold[c] > 0
    /\ chold' = [chold EXCEPT ![c] = @ - 1]
    /\ compose_unref(c)
    /\ UNCHANGED <<srefcnt, sstatus, scompose, shold>>

(* Mutant: the state keeps the table pointer without taking a reference. *)
StateNew_no_ref(s, c) ==
    /\ chold[c] > 0
    /\ sstatus[s] = "unused"
    /\ sstatus' = [sstatus EXCEPT ![s] = "live"]
    /\ srefcnt' = [srefcnt EXCEPT ![s] = 1]
    /\ scompose' = [scompose EXCEPT ![s] = c]
    /\ shold' = [shold EXCEPT ![s] = 1]
    /\ UNCHANGED <<crefcnt, cstatus, chold>>

(* xkb_compose_state_new: refcnt 1 and state->compose =                 *)
(* xkb_compose_ref(compose).  A failed calloc returns NULL and changes   *)
(* nothing, which is a stuttering step.                                 *)
StateNew(s, c) ==
    /\ chold[c] > 0
    /\ sstatus[s] = "unused"
    /\ crefcnt[c] < MaxRefs
    /\ sstatus' = [sstatus EXCEPT ![s] = "live"]
    /\ srefcnt' = [srefcnt EXCEPT ![s] = 1]
    /\ scompose' = [scompose EXCEPT ![s] = c]
    /\ shold' = [shold EXCEPT ![s] = 1]
    /\ crefcnt' = [crefcnt EXCEPT ![c] = @ + 1]
    /\ UNCHANGED <<cstatus, chold>>

(* xkb_compose_state_ref. *)
StateRef(s) ==
    /\ shold[s] > 0
    /\ srefcnt[s] < MaxRefs
    /\ srefcnt' = [srefcnt EXCEPT ![s] = @ + 1]
    /\ shold' = [shold EXCEPT ![s] = @ + 1]
    /\ UNCHANGED <<crefcnt, cstatus, sstatus, scompose, chold>>

(* Mutant: every state unref drops the table reference, not only the last. *)
StateUnref_always_drops_table(s) ==
    /\ shold[s] > 0
    /\ shold' = [shold EXCEPT ![s] = @ - 1]
    /\ srefcnt' = [srefcnt EXCEPT ![s] = @ - 1]
    /\ compose_unref(scompose[s])
    /\ sstatus' = IF srefcnt[s] - 1 > 0 THEN sstatus ELSE [sstatus EXCEPT ![s] = "freed"]
    /\ UNCHANGED <<scompose, chold>>

(* xkb_compose_state_unref: the last reference drops the state's table   *)
(* reference (which may free the table) and frees the state.             *)
StateUnref(s) ==
    /\ shold[s] > 0
    /\ shold' = [shold EXCEPT ![s] = @ - 1]
    /\ srefcnt' = [srefcnt EXCEPT ![s] = @ - 1]
    /\ IF srefcnt[s] - 1 > 0
       THEN UNCHANGED <<crefcnt, cstatus, sstatus>>
       ELSE /\ compose_unref(scompose[s])
            /\ sstatus' = [sstatus EXCEPT ![s] = "freed"]
    /\ UNCHANGED <<scompose, chold>>

(* xkb_compose_ref(xkb_compose_state_get_compose(state)): the application *)
(* takes its own reference to a state's table through the state.         *)
GetComposeRef(s) ==
    /\ shold[s] > 0
    /\ crefcnt[scompose[s]] < MaxRefs
    /\ crefcnt' = [crefcnt EXCEPT ![scompose[s]] = @ + 1]
    /\ chold' = [chold EXCEPT ![scompose[s]] = @ + 1]
    /\ UNCHANGED <<cstatus, srefcnt, sstatus, scompose, shold>>

Next ==
    \/ \E c \in Tables : NewCompose(c) \/ NewComposeFails(c)
                         \/ ComposeRef(c) \/ ComposeUnref(c)
    \/ \E s \in States, c \in Tables : StateNew(s, c)
    \/ \E s \in States : StateRef(s) \/ StateUnref(s) \/ GetComposeRef(s)

Spec == Init /\ [][Next]_vars

-----------------------------------------------------------------------------
TypeOK ==
    /\ crefcnt \in [Tables -> 0..MaxRefs] /\ cstatus \in [Tables -> Status]
    /\ srefcnt \in [States -> 0..MaxRefs] /\ sstatus \in [States -> Status]
    /\ scompose \in [States -> Tables \cup {NoTable}]
    /\ chold \in [Tables -> Nat] /\ shold \in [States -> Nat]

(* The live states whose state->compose is c. *)
Owners(c) == {s \in States : sstatus[s] = "live" /\ scompose[s] = c}

(* Each live object's refcnt counts exactly its holders: the application's *)
(* references plus, for a table, one per live state built on it, however *)
(* ref, unref, state_new, state_unref and get_compose are interleaved.   *)
RefcountsExact ==
    /\ \A c \in Tables : cstatus[c] = "live" => crefcnt[c] = chold[c] + Cardinality(Owners(c))
    /\ \A s \in States : sstatus[s] = "live" => srefcnt[s] = shold[s]

(* An object is freed exactly when nothing references it any more: no     *)
(* table is freed while the application or a live state still uses it    *)
(* (no use after free), and none stays allocated once both let go (no    *)
(* leak).                                                                *)
LiveIffReferenced ==
    /\ \A c \in Tables : cstatus[c] # "unused" =>
           (cstatus[c] = "live" <=> chold[c] > 0 \/ Owners(c) # {})
    /\ \A s \in States : sstatus[s] # "unused" =>
           (sstatus[s] = "live" <=> shold[s] > 0)
=============================================================================
