-------------------------- MODULE ComposeLexInclude --------------------------
(***************************************************************************)
(* The include line of a Compose file, byte by byte, from the bytes after *)
(* the "include" keyword: lex_include_string (parser.c), which expands    *)
(* %%, %H, %L and %S into the scanner buffer, then the lex() call of the  *)
(* include_eol label, and the do_include call that opens s->buf.  A byte  *)
(* is a one-character string; the scanner's scratch buffer holds BufSize *)
(* bytes (scanner-utils.h is not part of the repository: buf_append and   *)
(* buf_appends are modelled from the spec, "returning false on overflow").*)
(***************************************************************************)
EXTENDS Naturals, Sequences, SequencesExt

CONSTANTS
    Alphabet,       \* bytes the input is drawn from
    MaxInput,       \* bound: input length
    BufSize,        \* bound: sizeof(s->buf)
    HomeChoices,    \* possible values of $HOME (a byte sequence or Unset)
    LocaleChoices,  \* possible results of get_locale_compose_file_path (or NULL)
    XLocaleDir,     \* the result of get_xlocaledir_path
    Unset, NULL,
    NotOpened       \* opened while do_include has not opened a path

DQ == "\""
NL == "\n"
SP == " "
NUL == "NUL"        \* the '\0' terminator
Space == {SP, NL}

VARIABLES
    input,      \* the bytes after "include" (fixed)
    home,       \* secure_getenv("HOME") (fixed)
    lpath,      \* get_locale_compose_file_path(compose->locale) (fixed)
    pos,        \* scanner position (1-based)
    buf,        \* s->buf[0 .. buf_pos)
    pc,         \* "ws", "loop", "lpath" (inside %L), "close", "eol", "done"
    lalloc,     \* the string %L allocated and has not freed, or NULL
    tok,        \* the token that ended the line: "none", "INCLUDE_STRING", "ERROR", ...
    opened      \* the path do_include opened (fopen(s->buf)), or NotOpened

vars == <<input, home, lpath, pos, buf, pc, lalloc, tok, opened>>

Peek == IF pos <= Len(input) THEN input[pos] ELSE NUL
Peek2 == IF pos + 1 <= Len(input) THEN input[pos + 1] ELSE NUL
AtEof == pos > Len(input)

(* buf_append(c): one byte if there is room, else false (buffer unchanged). *)
BufAppend(b, c) == IF Len(b) + 1 <= BufSize THEN Append(b, c) ELSE b
(* buf_appends(str): snprintf into the rest of buf, so str and its NUL   *)
(* must fit; false otherwise.                                           *)
AppendsFits(b, str) == Len(b) + Len(str) + 1 <= BufSize

Init ==
    /\ input \in BoundedSeq(Alphabet, MaxInput)
    /\ home \in HomeChoices /\ lpath \in LocaleChoices
    /\ pos = 1 /\ buf = <<>> /\ pc = "ws" /\ lalloc = NULL
    /\ tok = "none" /\ opened = NotOpened

(* The lexer returns t and the parser goes to unexpected (skip the line). *)
Fail(t) == pc' = "done" /\ tok' = t

(* Mutant: the blank loop tests peek(s) instead of consuming with next(s). *)
IncludeStart_peek_not_next ==
    /\ pc = "ws"
    /\ IF Peek \in Space
       THEN /\ UNCHANGED <<pos, buf>>
            /\ IF Peek = NL THEN Fail("END_OF_LINE") ELSE UNCHANGED <<pc, tok>>
       ELSE /\ buf' = <<>>
            /\ IF Peek = DQ THEN pos' = pos + 1 /\ pc' = "loop" /\ UNCHANGED tok
               ELSE Fail("ERROR") /\ UNCHANGED pos
    /\ UNCHANGED <<input, home, lpath, opened, lalloc>>

(* lex_include_string's prologue: skip spaces ('\n' ends the line with   *)
(* END_OF_LINE), reset buf_pos, and require the opening quote.           *)
IncludeStart ==
    /\ pc = "ws"
    /\ IF Peek \in Space
       THEN /\ pos' = pos + 1 /\ UNCHANGED buf
            /\ IF Peek = NL THEN Fail("END_OF_LINE") ELSE UNCHANGED <<pc, tok>>
       ELSE /\ buf' = <<>>
            /\ IF Peek = DQ THEN pos' = pos + 1 /\ pc' = "loop" /\ UNCHANGED tok
               ELSE Fail("ERROR") /\ UNCHANGED pos
    /\ UNCHANGED <<input, home, lpath, opened, lalloc>>

(* One iteration of "while (!eof(s) && !eol(s) && peek(s) != '\"')" with  *)
(* a '%': %% appends '%' (result of buf_append ignored); %H appends $HOME *)
(* (error if unset or too long); %L calls get_locale_compose_file_path, *)
(* which allocates (LocalePath goes on); %S appends the xlocale dir;    *)
(* any other byte after '%' is "unknown % format" (left unread).          *)
Expansion ==
    /\ Peek = "%"
    /\ Peek2 # "L" => UNCHANGED lalloc
    /\ CASE Peek2 = "%" ->
              pos' = pos + 2 /\ buf' = BufAppend(buf, "%") /\ UNCHANGED <<pc, tok>>
         [] Peek2 = "H" ->
              pos' = pos + 2
              /\ IF home # Unset /\ AppendsFits(buf, home)
                 THEN buf' = buf \o home /\ UNCHANGED <<pc, tok>>
                 ELSE Fail("ERROR") /\ UNCHANGED buf
         [] Peek2 = "L" ->
              pos' = pos + 2 /\ lalloc' = lpath /\ pc' = "lpath" /\ UNCHANGED <<buf, tok>>
         [] Peek2 = "S" ->
              pos' = pos + 2
              /\ IF AppendsFits(buf, XLocaleDir)
                 THEN buf' = buf \o XLocaleDir /\ UNCHANGED <<pc, tok>>
                 ELSE Fail("ERROR") /\ UNCHANGED buf
         [] OTHER ->
              pos' = pos + 1 /\ Fail("ERROR") /\ UNCHANGED buf

(* One iteration of the include-string loop, or its exit. *)
IncludeLoop ==
    /\ pc = "loop"
    /\ IF AtEof \/ Peek = NL \/ Peek = DQ
       THEN pc' = "close" /\ UNCHANGED <<pos, buf, tok, lalloc>>
       ELSE IF Peek = "%" THEN Expansion
       ELSE pos' = pos + 1 /\ buf' = BufAppend(buf, Peek) /\ UNCHANGED <<pc, tok, lalloc>>
    /\ UNCHANGED <<input, home, lpath, opened>>

(* Mutant: the "too long" exit returns without free(path). *)
LocalePath_leaks_too_long ==
    /\ pc = "lpath"
    /\ CASE lalloc = NULL -> Fail("ERROR") /\ UNCHANGED <<buf, lalloc>>
         [] AppendsFits(buf, lalloc) -> buf' = buf \o lalloc /\ lalloc' = NULL /\ pc' = "loop"
                                         /\ UNCHANGED tok
         [] OTHER -> Fail("ERROR") /\ UNCHANGED <<buf, lalloc>>
    /\ UNCHANGED <<input, home, lpath, pos, opened>>

(* The rest of %L: "failed to expand %L" if the path is NULL; otherwise  *)
(* buf_appends it, and free(path) on the "too long" exit and after the    *)
(* append alike.                                                          *)
LocalePath ==
    /\ pc = "lpath"
    /\ CASE lalloc = NULL -> Fail("ERROR") /\ UNCHANGED <<buf, lalloc>>
         [] AppendsFits(buf, lalloc) -> buf' = buf \o lalloc /\ lalloc' = NULL /\ pc' = "loop"
                                         /\ UNCHANGED tok
         [] OTHER -> Fail("ERROR") /\ lalloc' = NULL /\ UNCHANGED buf
    /\ UNCHANGED <<input, home, lpath, pos, opened>>

(* The closing quote ("unterminated include statement" without it), then *)
(* the NUL terminator ("include path is too long" if it does not fit);   *)
(* val_out->string = s->buf and INCLUDE_STRING.                          *)
IncludeClose ==
    /\ pc = "close"
    /\ IF Peek = DQ /\ Len(buf) + 1 <= BufSize
       THEN pos' = pos + 1 /\ buf' = Append(buf, NUL) /\ pc' = "eol" /\ tok' = "INCLUDE_STRING"
       ELSE pos' = (IF Peek = DQ THEN pos + 1 ELSE pos) /\ Fail("ERROR") /\ UNCHANGED buf
    /\ UNCHANGED <<input, home, lpath, opened, lalloc>>

(* The bytes fopen reads from s->buf: up to the NUL. *)
CString(b) == SubSeq(b, 1, SelectInSeq(b, LAMBDA c : c = NUL) - 1)

(* Mutant: lex() resets buf_pos before skipping blanks, not at a new token. *)
IncludeEol_resets_first ==
    /\ pc = "eol"
    /\ buf' = <<>>
    /\ IF Peek \in Space
       THEN /\ pos' = pos + 1
            /\ IF Peek = NL THEN opened' = CString(<<>>) /\ pc' = "done" /\ tok' = "END_OF_LINE"
               ELSE UNCHANGED <<opened, pc, tok>>
       ELSE IF Peek = "#"
       THEN /\ pos' = LET nl == SelectInSubSeq(input, pos, Len(input), LAMBDA c : c = NL)
                      IN IF nl = 0 THEN Len(input) + 1 ELSE nl
            /\ UNCHANGED <<opened, pc, tok>>
       ELSE IF AtEof
       THEN Fail("END_OF_FILE") /\ UNCHANGED <<pos, opened>>
       ELSE Fail("OTHER") /\ UNCHANGED <<pos, opened>>
    /\ UNCHANGED <<input, home, lpath, lalloc>>

(* include_eol: lex() skips spaces and '#' comments.  On '\n' it returns *)
(* END_OF_LINE and do_include opens s->buf (val.string); at the end of   *)
(* the input END_OF_FILE; any other byte starts a new token, which sets  *)
(* buf_pos = 0 and overwrites buf, and the parser goes to unexpected.    *)
IncludeEol ==
    /\ pc = "eol"
    /\ IF Peek \in Space
       THEN /\ pos' = pos + 1
            /\ IF Peek = NL THEN opened' = CString(buf) /\ pc' = "done" /\ tok' = "END_OF_LINE"
               ELSE UNCHANGED <<opened, pc, tok>>
            /\ UNCHANGED buf
       ELSE IF Peek = "#"
       THEN /\ pos' = LET nl == SelectInSubSeq(input, pos, Len(input), LAMBDA c : c = NL)
                      IN IF nl = 0 THEN Len(input) + 1 ELSE nl
            /\ UNCHANGED <<buf, opened, pc, tok>>
       ELSE IF AtEof
       THEN Fail("END_OF_FILE") /\ UNCHANGED <<pos, buf, opened>>
       ELSE Fail("OTHER") /\ buf' = <<>> /\ UNCHANGED <<pos, opened>>
    /\ UNCHANGED <<input, home, lpath, lalloc>>

Next == IncludeStart \/ IncludeLoop \/ LocalePath \/ IncludeClose \/ IncludeEol

(* lex and lex_include_string are one single-threaded call each that    *)
(* runs until it returns: while a step is enabled it is taken.           *)
Spec == Init /\ [][Next]_vars /\ WF_vars(Next)

-----------------------------------------------------------------------------
(* The reference, from the grammar (INCLUDE := "include" '"' PATH '"',   *)
(* then an optional comment and the newline) and the expansion rules of  *)
(* spec 4.2: %% is '%', %H $HOME (error if unset), %L the locale Compose *)
(* file (error if there is none), %S the xlocale dir, any other %c an    *)
(* error.  ExpandPath(b) is {the path b denotes} or {} on an error.      *)
RECURSIVE ExpandPath(_)
ExpandPath(b) ==
    IF b = <<>> THEN {<<>>}
    ELSE IF b[1] # "%" THEN {<<b[1]>> \o r : r \in ExpandPath(Tail(b))}
    ELSE IF Len(b) < 2 THEN {}
    ELSE LET rest == ExpandPath(SubSeq(b, 3, Len(b)))
             exp == CASE b[2] = "%" -> {<<"%">>}
                      [] b[2] = "H" -> IF home = Unset THEN {} ELSE {home}
                      [] b[2] = "L" -> IF lpath = NULL THEN {} ELSE {lpath}
                      [] b[2] = "S" -> {XLocaleDir}
                      [] OTHER -> {}
         IN {e \o r : e \in exp, r \in rest}

(* The quoted body: the first non-blank byte is the opening quote at     *)
(* QStart, the next quote or newline after it is at QEnd (0 if none).     *)
QStart == SelectInSeq(input, LAMBDA c : c # SP)
QEnd == IF QStart = 0 THEN 0
        ELSE SelectInSubSeq(input, QStart + 1, Len(input), LAMBDA c : c \in {DQ, NL})
Quoted == QStart > 0 /\ input[QStart] = DQ /\ QEnd > 0 /\ input[QEnd] = DQ

(* The expansion of a quoted body when it is defined and fits, with its   *)
(* NUL, in the buffer; {} otherwise.                                      *)
Expanded ==
    IF Quoted THEN {p \in ExpandPath(SubSeq(input, QStart + 1, QEnd - 1)) : Len(p) < BufSize}
    ELSE {}

(* After the closing quote: blanks, an optional comment, then a newline. *)
EndsLine ==
    LET k == SelectInSubSeq(input, QEnd + 1, Len(input), LAMBDA c : c # SP)
    IN k > 0 /\ (input[k] = NL \/ (input[k] = "#" /\ NL \in Range(SubSeq(input, k, Len(input)))))

(* The path an include line must open, or NotOpened. *)
ExpectedOpen ==
    IF Expanded # {} /\ EndsLine THEN CHOOSE p \in Expanded : TRUE ELSE NotOpened

TypeOK ==
    /\ input \in Seq(Alphabet) /\ pos \in 1..(MaxInput + 1)
    /\ Len(buf) <= BufSize
    /\ pc \in {"ws", "loop", "lpath", "close", "eol", "done"}
    /\ lalloc \in LocaleChoices
    /\ opened = NotOpened \/ opened \in Seq(Alphabet)

(* do_include opens exactly the path the include line denotes, after the *)
(* lex() of include_eol: the expansion is complete (no byte silently     *)
(* dropped by an ignored buf_append), and s->buf, which val.string       *)
(* points into, still holds it when the newline is lexed (parser.c:457). *)
(* A line the grammar or the buffer rejects opens nothing.               *)
IncludeAsSpecified == pc = "done" => opened = ExpectedOpen

(* The locale path %L allocates is freed before the expansion goes on or *)
(* the lexer returns, on the "too long" error as on success: nothing is  *)
(* held outside the %L branch.                                           *)
LocalePathFreed == pc # "lpath" => lalloc = NULL

(* Each lexer call returns: the include line is always finished. *)
Terminates == <>(pc = "done")
=============================================================================
