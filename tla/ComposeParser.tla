---------------------------- MODULE ComposeParser --------------------------
(***************************************************************************)
(* The parser driver parse() and do_include() of parser.c, over tokens.   *)
(* Each step is one call of lex() or lex_include_string() followed by the *)
(* gotos it leads to, up to the next lex call.  One frame per active      *)
(* parse() call: an include pushes a frame, its return pops it, and a     *)
(* failure anywhere fails the whole compilation: parse() returns false,  *)
(* do_include releases what it holds and returns false, and its caller   *)
(* goes to fail, one activation at a time.                               *)
(*                                                                         *)
(* The bytes of a file are abstracted to the tokens the lexer returns.    *)
(* A file's tokens are chosen lazily, the first time a position is read, *)
(* and kept: re-reading a file (an include of it) sees the same tokens.   *)
(* A position read in include mode holds what lex_include_string returns.*)
(* add_production is abstracted to appending to "emitted".               *)
(***************************************************************************)
EXTENDS Naturals, Sequences, SequencesExt

CONSTANTS
    Files,              \* Compose files that open
    Root,               \* the file given to xkb_compose_new_from_*
    Missing,            \* an include path fopen() fails on
    IncludeTargets,     \* [Files -> SUBSET (Files \cup {Missing})]
    Keysyms,            \* keysyms lex() resolves
    Strings,            \* valid non-empty string literals
    Empty, TooLong,     \* "" and a literal over 255 bytes (lexed fine)
    NoString, NoSymbol, NoVal,
    MaxLhsLen,          \* MAX_LHS_LEN
    MaxErrors,          \* MAX_ERRORS of parse()
    MaxIncludeDepth,    \* MAX_INCLUDE_DEPTH
    MaxFileTokens,      \* bound: tokens in a file before its end
    MaxFrames,          \* bound: nested parse() calls explored
    RhsKeysymEndsLine   \* inputs restricted to "RHS keysym then newline"

VARIABLES
    content,    \* [Files -> Seq(token)] tokens read so far from each file
    frames,     \* stack of parse() activations, top = last
    emitted,    \* productions passed to add_production, in order
    result,     \* "running", "ok" (parse returned true) or "failed"
    nopen,      \* FILEs opened by do_include and not yet closed
    nmapped     \* included files mapped by do_include and not yet unmapped

vars == <<content, frames, emitted, result, nopen, nmapped>>

Tok(k, v) == [kind |-> k, val |-> v]
EOL     == Tok("END_OF_LINE", NoVal)
EOF     == Tok("END_OF_FILE", NoVal)
INCLUDE == Tok("INCLUDE", NoVal)
COLON   == Tok("COLON", NoVal)
ERROR   == Tok("ERROR", NoVal)

LexTokens ==
    {EOL, INCLUDE, COLON, ERROR}
    \cup {Tok("LHS_KEYSYM", k) : k \in Keysyms}
    \cup {Tok("RHS_KEYSYM", k) : k \in Keysyms}
    \cup {Tok("STRING", s) : s \in Strings \cup {Empty, TooLong}}

(* lex_include_string: a path, an error, or a newline before the quote. *)
IncludeTokens(f) == {Tok("INCLUDE_STRING", g) : g \in IncludeTargets[f]} \cup {ERROR, EOL}

Frame == [file : Files, pos : Nat, pc : {"initial_eol", "include", "include_eol",
          "lhs", "rhs", "skip", "fail"},
          path : Files \cup {Missing, NoVal}, lhs : BoundedSeq(Keysyms, MaxLhsLen),
          string : Strings \cup {NoString}, keysym : Keysyms \cup {NoSymbol},
          nerr : 0..MaxErrors, depth : Nat]

Top == frames[Len(frames)]

(* What a fresh position of file f can hold when read in mode m. *)
Fresh(f, pos, m) ==
    IF pos > MaxFileTokens THEN {EOF}
    ELSE IF m = "include" THEN IncludeTokens(f) \cup {EOF}
    ELSE IF RhsKeysymEndsLine /\ pos > 1 /\ content[f][pos - 1].kind = "RHS_KEYSYM"
    THEN {EOL}
    ELSE IF RhsKeysymEndsLine /\ pos = MaxFileTokens
    THEN (LexTokens \cup {EOF}) \ {Tok("RHS_KEYSYM", k) : k \in Keysyms}
    ELSE LexTokens \cup {EOF}

(* The cells the next read of frame fr may find. *)
Cells(fr, m) ==
    IF fr.pos <= Len(content[fr.file]) THEN {content[fr.file][fr.pos]}
    ELSE Fresh(fr.file, fr.pos, m)

(* The token a read returns: at the end, lex() returns END_OF_FILE and   *)
(* lex_include_string() an error; neither moves past the end.           *)
TokOf(cell, m) == IF cell = EOF /\ m = "include" THEN ERROR ELSE cell

Read(fr, cell) ==
    /\ content' = IF fr.pos <= Len(content[fr.file]) THEN content
                  ELSE [content EXCEPT ![fr.file] = Append(@, cell)]

(* Mutant: the scanner does not move past the token it returned. *)
Advance_stuck(fr, cell) == fr

Advance(fr, cell) == IF cell = EOF THEN fr ELSE [fr EXCEPT !.pos = @ + 1]

(* The running parse() goes on; what the do_include calls below it hold *)
(* is untouched.                                                         *)
SetTop(fr) == frames' = [frames EXCEPT ![Len(frames)] = fr] /\ UNCHANGED <<nopen, nmapped>>

(* initial: the production is cleared, then initial_eol lexes. *)
ToInitial(fr) ==
    [fr EXCEPT !.pc = "initial_eol", !.lhs = <<>>, !.string = NoString,
               !.keysym = NoSymbol, !.path = NoVal]

(* Mutant: skip returns to initial without reading to the end of line. *)
ToSkip_no_wait(fr, tok) == ToInitial(fr)

(* skip: lex until END_OF_LINE or END_OF_FILE, then initial. *)
ToSkip(fr, tok) ==
    IF tok \in {EOL, EOF} THEN ToInitial(fr) ELSE [fr EXCEPT !.pc = "skip"]

(* goto fail. *)
Fail(fr) == SetTop([fr EXCEPT !.pc = "fail"]) /\ UNCHANGED <<emitted, result>>

(* Mutant: one error more is tolerated than MAX_ERRORS. *)
Unexpected_off_by_one(fr, tok) ==
    IF fr.nerr <= MaxErrors
    THEN SetTop(ToSkip([fr EXCEPT !.nerr = @ + 1], tok)) /\ UNCHANGED <<emitted, result>>
    ELSE Fail(fr)

(* unexpected: count the error; past MAX_ERRORS the parse fails. *)
Unexpected(fr, tok) ==
    IF fr.nerr + 1 <= MaxErrors
    THEN SetTop(ToSkip([fr EXCEPT !.nerr = @ + 1], tok)) /\ UNCHANGED <<emitted, result>>
    ELSE Fail(fr)

(* Mutant: "if (!ok) return false;" after the nested parse, before      *)
(* err_unmap.                                                            *)
Return_leaks_on_failure(ok) ==
    IF Len(frames) = 1
    THEN frames' = <<>> /\ result' = (IF ok THEN "ok" ELSE "failed")
         /\ UNCHANGED <<emitted, nopen, nmapped>>
    ELSE LET below == frames[Len(frames) - 1] IN
         /\ frames' = [SubSeq(frames, 1, Len(frames) - 1)
                         EXCEPT ![Len(frames) - 1] =
                           IF ok THEN ToInitial(below) ELSE [below EXCEPT !.pc = "fail"]]
         /\ nopen' = (IF ok THEN nopen - 1 ELSE nopen)
         /\ nmapped' = (IF ok THEN nmapped - 1 ELSE nmapped)
         /\ UNCHANGED <<emitted, result>>

(* parse() returns ok.  The outermost call returns to                   *)
(* xkb_compose_new_from_*; a nested one to do_include, which unmaps the  *)
(* file (err_unmap), closes it (err_file) and returns ok, and its caller *)
(* goes to initial on true and to fail on false.                         *)
Return(ok) ==
    IF Len(frames) = 1
    THEN frames' = <<>> /\ result' = (IF ok THEN "ok" ELSE "failed")
         /\ UNCHANGED <<emitted, nopen, nmapped>>
    ELSE LET below == frames[Len(frames) - 1] IN
         /\ frames' = [SubSeq(frames, 1, Len(frames) - 1)
                         EXCEPT ![Len(frames) - 1] =
                           IF ok THEN ToInitial(below) ELSE [below EXCEPT !.pc = "fail"]]
         /\ nopen' = nopen - 1 /\ nmapped' = nmapped - 1
         /\ UNCHANGED <<emitted, result>>

(* finished: return true. *)
Finished == Return(TRUE)

Running(pc) == result = "running" /\ Top.pc = pc

InitialEol ==
    /\ Running("initial_eol")
    /\ \E cell \in Cells(Top, "lex") :
        LET tok == TokOf(cell, "lex")
            fr  == Advance(Top, cell)
        IN /\ Read(Top, cell)
           /\ \/ tok = EOL /\ SetTop(fr) /\ UNCHANGED <<emitted, result>>
              \/ tok = EOF /\ Finished
              \/ tok = INCLUDE /\ SetTop([fr EXCEPT !.pc = "include"])
                 /\ UNCHANGED <<emitted, result>>
              \/ tok.kind = "LHS_KEYSYM"
                 /\ SetTop([fr EXCEPT !.pc = "lhs", !.lhs = <<tok.val>>])
                 /\ UNCHANGED <<emitted, result>>
              \/ tok.kind \notin {"END_OF_LINE", "END_OF_FILE", "INCLUDE", "LHS_KEYSYM"}
                 /\ Unexpected(fr, tok)

Include ==
    /\ Running("include")
    /\ \E cell \in Cells(Top, "include") :
        LET tok == TokOf(cell, "include")
            fr  == Advance(Top, cell)
        IN /\ Read(Top, cell)
           /\ \/ tok.kind = "INCLUDE_STRING"
                 /\ SetTop([fr EXCEPT !.pc = "include_eol", !.path = tok.val])
                 /\ UNCHANGED <<emitted, result>>
              \/ tok.kind # "INCLUDE_STRING" /\ Unexpected(fr, tok)

(* do_include reaching parse(compose, &new_s, include_depth++): the post- *)
(* increment hands the nested parse the caller's own depth.              *)
Push(fr) ==
    Append([frames EXCEPT ![Len(frames)] = fr],
           [file |-> fr.path, pos |-> 1, pc |-> "initial_eol",
            path |-> NoVal, lhs |-> <<>>, string |-> NoString,
            keysym |-> NoSymbol, nerr |-> 0, depth |-> fr.depth])

(* include_eol: on a newline, do_include: the depth check and fopen     *)
(* return false at once (map_file failing closes the file and returns   *)
(* false in the same call); otherwise the file stays open and mapped    *)
(* while a nested parse() runs.  A false result goes to fail.           *)
IncludeEol ==
    /\ Running("include_eol")
    /\ \E cell \in Cells(Top, "lex") :
        LET tok == TokOf(cell, "lex")
            fr  == Advance(Top, cell)
        IN /\ Read(Top, cell)
           /\ \/ tok = EOL /\ (fr.depth >= MaxIncludeDepth \/ fr.path = Missing) /\ Fail(fr)
              \/ tok = EOL /\ fr.depth < MaxIncludeDepth /\ fr.path \in Files
                 /\ Len(frames) < MaxFrames
                 /\ frames' = Push(fr)
                 /\ nopen' = nopen + 1 /\ nmapped' = nmapped + 1
                 /\ UNCHANGED <<emitted, result>>
              \/ tok # EOL /\ Unexpected(fr, tok)

Lhs ==
    /\ Running("lhs")
    /\ \E cell \in Cells(Top, "lex") :
        LET tok == TokOf(cell, "lex")
            fr  == Advance(Top, cell)
        IN /\ Read(Top, cell)
           /\ \/ tok.kind = "LHS_KEYSYM" /\ Len(fr.lhs) + 1 > MaxLhsLen
                 /\ SetTop(ToSkip(fr, tok)) /\ UNCHANGED <<emitted, result>>
              \/ tok.kind = "LHS_KEYSYM" /\ Len(fr.lhs) + 1 <= MaxLhsLen
                 /\ SetTop([fr EXCEPT !.lhs = Append(@, tok.val)])
                 /\ UNCHANGED <<emitted, result>>
              \/ tok = COLON /\ SetTop([fr EXCEPT !.pc = "rhs"])
                 /\ UNCHANGED <<emitted, result>>
              \/ tok.kind \notin {"LHS_KEYSYM", "COLON"} /\ Unexpected(fr, tok)

(* add_production is called and parsing goes on at initial. *)
Emit(fr) ==
    /\ emitted' = Append(emitted, [lhs |-> fr.lhs, string |-> fr.string,
                                   keysym |-> fr.keysym, file |-> fr.file])
    /\ SetTop(ToInitial(fr))
    /\ UNCHANGED result

(* rhs: a STRING is checked and kept; an RHS keysym falls through into   *)
(* the END_OF_LINE case, which needs a string or keysym and emits.  The  *)
(* "at most one keysym" check cannot fire: the fall-through emits and    *)
(* returns to initial as soon as a keysym is set.                        *)
Rhs ==
    /\ Running("rhs")
    /\ \E cell \in Cells(Top, "lex") :
        LET tok == TokOf(cell, "lex")
            fr  == Advance(Top, cell)
        IN /\ Read(Top, cell)
           /\ \/ tok.kind = "STRING"
                 /\ \/ fr.string # NoString \/ tok.val \in {Empty, TooLong}
                 /\ SetTop(ToSkip(fr, tok)) /\ UNCHANGED <<emitted, result>>
              \/ tok.kind = "STRING" /\ fr.string = NoString /\ tok.val \in Strings
                 /\ SetTop([fr EXCEPT !.string = tok.val])
                 /\ UNCHANGED <<emitted, result>>
              \/ tok.kind = "RHS_KEYSYM" /\ Emit([fr EXCEPT !.keysym = tok.val])
              \/ tok = EOL /\ fr.string = NoString /\ fr.keysym = NoSymbol
                 /\ SetTop(ToInitial(fr)) /\ UNCHANGED <<emitted, result>>
              \/ tok = EOL /\ (fr.string # NoString \/ fr.keysym # NoSymbol)
                 /\ Emit(fr)
              \/ tok.kind \notin {"STRING", "RHS_KEYSYM", "END_OF_LINE"}
                 /\ Unexpected(fr, tok)

Skip ==
    /\ Running("skip")
    /\ \E cell \in Cells(Top, "lex") :
        /\ Read(Top, cell)
        /\ SetTop(ToSkip(Advance(Top, cell), TokOf(cell, "lex")))
        /\ UNCHANGED <<emitted, result>>

(* fail: "failed to parse file", return false. *)
ParseFail ==
    /\ Running("fail")
    /\ Return(FALSE)
    /\ UNCHANGED content

Init ==
    /\ content = [f \in Files |-> <<>>]
    /\ frames = <<[file |-> Root, pos |-> 1, pc |-> "initial_eol",
                   path |-> NoVal, lhs |-> <<>>, string |-> NoString,
                   keysym |-> NoSymbol, nerr |-> 0, depth |-> 0]>>
    /\ emitted = <<>>
    /\ result = "running"
    /\ nopen = 0 /\ nmapped = 0

Next == InitialEol \/ Include \/ IncludeEol \/ Lhs \/ Rhs \/ Skip \/ ParseFail

(* parse() runs to completion once called: nothing else runs meanwhile. *)
Spec == Init /\ [][Next]_vars /\ WF_vars(Next)

-----------------------------------------------------------------------------
(* The reference: what the Compose grammar says a file yields.  A line is *)
(* the tokens before an END_OF_LINE; a production line is 1..MAX_LHS_LEN *)
(* LHS keysyms, a colon and STRING | keysym | STRING keysym with a valid *)
(* string; an include line names a file whose productions come in its    *)
(* place; every other line is skipped.                                   *)

RECURSIVE Lines(_)
Lines(s) ==
    IF \A i \in DOMAIN s : s[i] # EOL THEN <<>>
    ELSE LET i == CHOOSE i \in DOMAIN s : s[i] = EOL /\ \A j \in 1..(i - 1) : s[j] # EOL
         IN <<SubSeq(s, 1, i - 1)>> \o Lines(SubSeq(s, i + 1, Len(s)))

RhsOf(r) ==
    CASE r = <<>> -> {}
      [] Len(r) = 1 /\ r[1].kind = "STRING" /\ r[1].val \in Strings ->
            {[string |-> r[1].val, keysym |-> NoSymbol]}
      [] Len(r) = 1 /\ r[1].kind = "RHS_KEYSYM" ->
            {[string |-> NoString, keysym |-> r[1].val]}
      [] Len(r) = 2 /\ r[1].kind = "STRING" /\ r[1].val \in Strings
                   /\ r[2].kind = "RHS_KEYSYM" ->
            {[string |-> r[1].val, keysym |-> r[2].val]}
      [] OTHER -> {}

(* Where the colon of a production line is. *)
LhsLens(l) ==
    {n \in 1..MaxLhsLen : /\ n + 1 <= Len(l)
                          /\ \A i \in 1..n : l[i].kind = "LHS_KEYSYM"
                          /\ l[n + 1] = COLON}

(* The productions a line states: none or one. *)
LineProductions(l) ==
    UNION {{[lhs |-> [i \in 1..n |-> l[i].val], string |-> r.string, keysym |-> r.keysym] :
              r \in RhsOf(SubSeq(l, n + 2, Len(l)))} : n \in LhsLens(l)}

IsIncludeLine(l) == Len(l) = 2 /\ l[1] = INCLUDE /\ l[2].kind = "INCLUDE_STRING"

(* Every include line of f names a file that opens and itself compiles:  *)
(* do_include's failure ends the whole parse.                            *)
RECURSIVE IncludesOpen(_, _)
IncludesOpen(f, fuel) ==
    /\ fuel > 0
    /\ \A i \in DOMAIN Lines(content[f]) :
          LET l == Lines(content[f])[i]
          IN IsIncludeLine(l) => l[2].val \in Files /\ IncludesOpen(l[2].val, fuel - 1)

RECURSIVE Expected(_, _)
Expected(f, fuel) ==
    IF fuel = 0 THEN <<>>
    ELSE FoldLeft(LAMBDA acc, l :
            acc \o (IF IsIncludeLine(l) /\ l[2].val \in Files
                    THEN Expected(l[2].val, fuel - 1)
                    ELSE SetToSeq(LineProductions(l))),
            <<>>, Lines(content[f]))

Productions(seq) == [i \in DOMAIN seq |-> [lhs |-> seq[i].lhs, string |-> seq[i].string,
                                            keysym |-> seq[i].keysym]]

TypeOK ==
    /\ content \in [Files -> Seq(LexTokens \cup IncludeTokens(Root) \cup {EOF})]
    /\ frames \in Seq(Frame)
    /\ result \in {"running", "ok", "failed"}
    /\ nopen \in Nat /\ nmapped \in Nat

(* A file that compiles yields exactly the productions of its grammatical *)
(* lines, in order, with each included file's productions in place of    *)
(* its include line: error recovery (skip to END_OF_LINE) never drops a   *)
(* good line nor turns the rest of a bad line into a production.  And an *)
(* include that fails (fopen, or the nested parse) fails the file.       *)
ParsesAsSpecified ==
    result = "ok" =>
        /\ IncludesOpen(Root, Cardinality(Files) + 1)
        /\ Productions(emitted) = Expected(Root, Cardinality(Files) + 1)

(* do_include keeps the included FILE open and its contents mapped      *)
(* exactly while the nested parse() it started runs: one of each per     *)
(* active include, and none once compilation has ended.  A failure deep  *)
(* in nested includes unwinds through every do_include, each of which   *)
(* must still reach err_unmap and err_file.                             *)
IncludesReleased ==
    LET active == IF frames = <<>> THEN 0 ELSE Len(frames) - 1
    IN nopen = active /\ nmapped = active

(* Each nested parse() is one include level deeper, so no more than      *)
(* MAX_INCLUDE_DEPTH includes are ever open: an include loop is stopped  *)
(* with "maximum include depth exceeded".                                *)
IncludeDepthBounded == Len(frames) <= MaxIncludeDepth + 1

(* parse() always returns: every file ends and the recovery loop moves   *)
(* forward, so compilation ends in success or failure.                   *)
Terminates == <>(result # "running")
=============================================================================
