-------------------------- MODULE MCComposeParsers --------------------------
(***************************************************************************)
(* parse() in two configurations, in one run: a behaviour either parses   *)
(* one file whose includes never open, with left-hand sides of up to two  *)
(* keysyms and up to six tokens (the grammar and its error recovery), or  *)
(* a file that may include a second file, which may itself include a path *)
(* that does not open (include success, failure and its unwinding).  The  *)
(* other configuration's variables stay at an idle, finished state.       *)
(***************************************************************************)
EXTENDS Naturals, Sequences, TLC

CONSTANTS main, sub, missing, a, s1, Empty, TooLong, NoString, NoSymbol, NoVal

VARIABLES
    entry,                                          \* "grammar" or "includes"
    gcontent, gframes, gemitted, gresult, gnopen, gnmapped,
    icontent, iframes, iemitted, iresult, inopen, inmapped

gvars == <<gcontent, gframes, gemitted, gresult, gnopen, gnmapped>>
ivars == <<icontent, iframes, iemitted, iresult, inopen, inmapped>>
vars == <<entry, gvars, ivars>>

Files == {main, sub}

(* Only main is parsed; its includes name a path that does not open. *)
Gram == INSTANCE ComposeParser
          WITH Files <- Files, Root <- main, Missing <- missing,
               IncludeTargets <- [f \in Files |-> {missing}],
               Keysyms <- {a}, Strings <- {s1}, MaxLhsLen <- 2, MaxErrors <- 1,
               MaxIncludeDepth <- 1, MaxFileTokens <- 6, MaxFrames <- 3,
               RhsKeysymEndsLine <- TRUE,
               content <- gcontent, frames <- gframes, emitted <- gemitted,
               result <- gresult, nopen <- gnopen, nmapped <- gnmapped

(* main may include sub or the missing path; sub may include the missing *)
(* path, so a failure can occur one include deep and unwind.             *)
Incl == INSTANCE ComposeParser
          WITH Files <- Files, Root <- main, Missing <- missing,
               IncludeTargets <- [f \in Files |-> IF f = main THEN {sub, missing} ELSE {missing}],
               Keysyms <- {a}, Strings <- {s1}, MaxLhsLen <- 1, MaxErrors <- 1,
               MaxIncludeDepth <- 1, MaxFileTokens <- 4, MaxFrames <- 3,
               RhsKeysymEndsLine <- TRUE,
               content <- icontent, frames <- iframes, emitted <- iemitted,
               result <- iresult, nopen <- inopen, nmapped <- inmapped

GramIdle == gcontent = [f \in Files |-> <<>>] /\ gframes = <<>> /\ gemitted = <<>>
            /\ gresult = "ok" /\ gnopen = 0 /\ gnmapped = 0
InclIdle == icontent = [f \in Files |-> <<>>] /\ iframes = <<>> /\ iemitted = <<>>
            /\ iresult = "ok" /\ inopen = 0 /\ inmapped = 0

Init ==
    \/ entry = "grammar" /\ Gram!Init /\ InclIdle
    \/ entry = "includes" /\ Incl!Init /\ GramIdle

Next ==
    \/ entry = "grammar" /\ Gram!Next /\ UNCHANGED <<entry, ivars>>
    \/ entry = "includes" /\ Incl!Next /\ UNCHANGED <<entry, gvars>>

(* parse() runs to completion once called. *)
Spec == Init /\ [][Next]_vars /\ WF_vars(Next)

TypeOK == entry \in {"grammar", "includes"} /\ Gram!TypeOK /\ Incl!TypeOK

(* A file that compiles yields exactly the productions of its grammatical *)
(* lines, with included productions in place, and has no failing include. *)
ParsesAsSpecified == Gram!ParsesAsSpecified /\ Incl!ParsesAsSpecified

(* do_include holds its FILE and mapping exactly while its nested parse() *)
(* runs, a failure unwinding through it included.                        *)
IncludesReleased == Incl!IncludesReleased

(* parse() returns, in success or failure. *)
Terminates == <>(gresult # "running" /\ iresult # "running")
=============================================================================
