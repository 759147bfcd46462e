---------------------------- MODULE ComposeLoader ---------------------------
(***************************************************************************)
(* One call of xkb_compose_new_from_file, _from_buffer or _from_locale    *)
(* (compose.c), from entry to return.  What the environment answers      *)
(* (flags and format passed, resolve_locale, calloc, which Compose files  *)
(* exist and open, whether parsing succeeds) is fixed in Init; each       *)
(* action is the code between two of those answers.  Heap-allocated      *)
(* path strings are tracked in "heap", open FILEs in "open".             *)
(***************************************************************************)
EXTENDS Naturals, Sequences, SequencesExt

CONSTANTS
    XComposeFile,   \* the path in $XCOMPOSEFILE (getenv, not owned)
    HomeFile,       \* $HOME/.XCompose (allocated by the paths module)
    LocaleFile,     \* the locale's Compose file (allocated)
    NULL            \* a NULL pointer

(* The search order of xkb_compose_new_from_locale. *)
Order == <<XComposeFile, HomeFile, LocaleFile>>
Candidates == Range(Order)

VARIABLES
    pc,         \* the next block of code to run, "done" after return
    env,        \* the environment's answers, fixed for the call
    cpath,      \* cpath
    path,       \* path: the owned string, or NULL
    heap,       \* path strings allocated and not yet freed
    open,       \* FILEs opened and not yet closed
    table,      \* the struct xkb_compose: "none", "live" or "freed"
    result,     \* "pending", "table" or "NULL"
    logged      \* the path passed to log_dbg, or "none"

vars == <<pc, env, cpath, path, heap, open, table, result, logged>>

Env == [entry : {"file", "buffer", "locale"}, flagsOk : BOOLEAN, formatOk : BOOLEAN,
        localeOk : BOOLEAN, callocOk : BOOLEAN, parseOk : BOOLEAN,
        exists : [Candidates -> BOOLEAN], opens : [Candidates -> BOOLEAN]]

Init ==
    /\ pc = "flags"
    /\ env \in Env
    /\ cpath = NULL /\ path = NULL
    /\ heap = {} /\ open = {}
    /\ table = "none"
    /\ result = "pending"
    /\ logged = "none"

Return(r) == result' = r /\ pc' = "done"

(* "if (flags & ~(XKB_COMPOSE_COMPILE_NO_FLAGS))": return NULL. *)
CheckFlags ==
    /\ pc = "flags"
    /\ IF env.flagsOk
       THEN pc' = (IF env.entry = "locale" THEN "new" ELSE "format") /\ UNCHANGED result
       ELSE Return("NULL")
    /\ UNCHANGED <<env, cpath, path, heap, open, table, logged>>

(* new_from_file and new_from_buffer reject any format but TEXT_V1. *)
CheckFormat ==
    /\ pc = "format"
    /\ IF env.formatOk THEN pc' = "new" /\ UNCHANGED result ELSE Return("NULL")
    /\ UNCHANGED <<env, cpath, path, heap, open, table, logged>>

(* xkb_compose_new: resolve_locale and calloc may fail (NULL); otherwise *)
(* a table with refcnt 1, the root node and the sentinel NUL.           *)
ComposeNew ==
    /\ pc = "new"
    /\ IF env.localeOk /\ env.callocOk
       THEN /\ table' = "live"
            /\ pc' = IF env.entry = "locale" THEN "xcompose" ELSE "parse"
            /\ UNCHANGED result
       ELSE Return("NULL") /\ UNCHANGED table
    /\ UNCHANGED <<env, cpath, path, heap, open, logged>>

(* Mutant: the result of parse() is not checked. *)
ParseGiven_ignores_failure ==
    /\ pc = "parse"
    /\ Return("table")
    /\ UNCHANGED <<env, cpath, path, heap, open, table, logged>>

(* parse_file / parse_string; on failure xkb_compose_unref frees the table. *)
ParseGiven ==
    /\ pc = "parse"
    /\ IF env.parseOk THEN Return("table") /\ UNCHANGED table
       ELSE Return("NULL") /\ table' = "freed"
    /\ UNCHANGED <<env, cpath, path, heap, open, logged>>

(* Mutant: "if (file) goto found_path;" is missing for XCOMPOSEFILE. *)
TryXCompose_no_goto ==
    /\ pc = "xcompose"
    /\ cpath' = IF env.exists[XComposeFile] THEN XComposeFile ELSE NULL
    /\ open' = IF env.exists[XComposeFile] /\ env.opens[XComposeFile]
               THEN open \cup {XComposeFile} ELSE open
    /\ pc' = "home"
    /\ UNCHANGED <<env, path, heap, table, result, logged>>

(* cpath = get_xcomposefile_path(); fopen it if set. *)
TryXCompose ==
    /\ pc = "xcompose"
    /\ cpath' = IF env.exists[XComposeFile] THEN XComposeFile ELSE NULL
    /\ IF env.exists[XComposeFile] /\ env.opens[XComposeFile]
       THEN open' = open \cup {XComposeFile} /\ pc' = "found"
       ELSE UNCHANGED open /\ pc' = "home"
    /\ UNCHANGED <<env, path, heap, table, result, logged>>

(* "cpath = path = get_..._path(); if (path) { fopen; goto found_path }  *)
(* free(path); path = NULL;" for an allocated candidate f.              *)
TryOwned(f, next) ==
    /\ cpath' = IF env.exists[f] THEN f ELSE NULL
    /\ IF env.exists[f] /\ env.opens[f]
       THEN /\ path' = f /\ heap' = heap \cup {f}
            /\ open' = open \cup {f} /\ pc' = "found"
       ELSE /\ path' = NULL /\ UNCHANGED <<heap, open>> /\ pc' = next

TryHome ==
    /\ pc = "home"
    /\ TryOwned(HomeFile, "locale")
    /\ UNCHANGED <<env, table, result, logged>>

TryLocale ==
    /\ pc = "locale"
    /\ TryOwned(LocaleFile, "notfound")
    /\ UNCHANGED <<env, table, result, logged>>

(* "couldn't find a Compose file": unref the table and return NULL. *)
NotFound ==
    /\ pc = "notfound"
    /\ Return("NULL")
    /\ table' = "freed"
    /\ UNCHANGED <<env, cpath, path, heap, open, logged>>

(* Mutant: fclose only on the success path. *)
FoundPath_close_on_success(f) ==
    /\ IF env.parseOk
       THEN /\ open' = open \ {f} /\ Return("table")
            /\ logged' = path /\ heap' = heap \ {path} /\ UNCHANGED table
       ELSE /\ UNCHANGED open /\ Return("NULL") /\ table' = "freed"
            /\ UNCHANGED <<heap, logged>>

(* found_path: parse_file(compose, file, cpath); fclose(file); on        *)
(* failure unref and return NULL; else log_dbg(..., compose->locale,     *)
(* path), free(path) and return the table.                              *)
FoundPath(f) ==
    /\ open' = open \ {f}
    /\ IF env.parseOk
       THEN /\ Return("table") /\ logged' = path
            /\ heap' = heap \ {path} /\ UNCHANGED table
       ELSE /\ Return("NULL") /\ table' = "freed"
            /\ UNCHANGED <<heap, logged>>

Found ==
    /\ pc = "found"
    /\ FoundPath(cpath)
    /\ UNCHANGED <<env, cpath, path>>

Next ==
    CheckFlags \/ CheckFormat \/ ComposeNew \/ ParseGiven
    \/ TryXCompose \/ TryHome \/ TryLocale \/ NotFound \/ Found

Spec == Init /\ [][Next]_vars

-----------------------------------------------------------------------------
(* The candidates that exist and open, and the first of them in order. *)
Openable == {f \in Candidates : env.exists[f] /\ env.opens[f]}

FirstOpenable ==
    IF Openable = {} THEN NULL
    ELSE Order[CHOOSE i \in DOMAIN Order : Order[i] \in Openable
                                           /\ \A j \in 1..(i - 1) : Order[j] \notin Openable]

(* What the call must answer: a table exactly when the flags (and for    *)
(* file and buffer the format) are accepted, the locale resolves, the    *)
(* allocation succeeds, a Compose file is found (locale entry) and it    *)
(* parses; NULL in every other case.                                     *)
ReturnsAsDocumented ==
    pc = "done" =>
        (result = "table" <=>
            /\ env.flagsOk
            /\ env.entry # "locale" => env.formatOk
            /\ env.localeOk /\ env.callocOk
            /\ env.entry = "locale" => Openable # {}
            /\ env.parseOk)

(* new_from_locale parses the first of XCOMPOSEFILE, ~/.XCompose and the  *)
(* locale file that exists and opens: no later candidate is ever opened  *)
(* once one has opened, and "not found" means none could be opened.      *)
FirstOpenWins ==
    /\ \A f \in open : f = FirstOpenable
    /\ pc = "found" => cpath = FirstOpenable
    /\ pc = "notfound" => FirstOpenable = NULL

(* Every exit path closes the FILE it opened, and the table survives the *)
(* call exactly when it is returned: every failure after xkb_compose_new *)
(* unrefs (frees) it.                                                    *)
ReleasedOnReturn ==
    pc = "done" => open = {} /\ (table = "live" <=> result = "table")

(* Every exit path frees the path string it allocated. *)
PathFreedOnReturn == pc = "done" => heap = {}

(* log_dbg on success is given a path string ("%s"), never NULL. *)
LoggedPathNotNull == logged # NULL
=============================================================================
